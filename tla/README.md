# A verification of Sunsam Code: workflow engine and server supervisor

Sunsam Code is a desktop coding agent. Its most intricate program logic is the
*dynamic-workflow engine*: a script fans work out to subagents, and the engine
runs it with bounded parallelism over a rate-limited provider, records every
answer in a journal, and replays the run after a crash, a stop or an amendment.
Next to it stands a *server supervisor*: one process owns a server root through
a lock file, keeps a Core running under a crash budget, and updates its release
with a rollback that has to survive a kill at any moment.
This directory holds TLA+ modules of both, TLC configurations that
check them on small instances, and proofs that TLAPS checks.

Paths below are relative to `src/`; `ENGINE` stands for
`apps/zcode-cli/packages/dynamic-workflow/src/engine`, `APP` for
`apps/zcode-cli/packages/bootstrap/src/app`, and `SERVER` for
`packages/zcode-server-cli/src`.

## 1. Inventory

### The workflow engine

| Part | Source | State | Operations |
|---|---|---|---|
| Adaptive controller | `ENGINE/concurrency.ts` | cap, growth limit, epoch, streak, proven and refused level, cooldown, counts | canAdmit, observe, admitted, succeeded, throttled, failedTransient, ended, waiters, setGrowthLimit, seed |
| Governor | `APP/workflow-concurrency-governor.ts` | per provider key a bucket: controller, queues by run, rotation cursor, runs seen, timer; bounds of the runs | tryAdmit, admit, ticket reports, abort, timer, setRunBound, clearRunBound, observer, sessionSubagents |
| Seat gate | `APP/workflow-seat-gate.ts` | per run: instances, working, parked FIFO, limit | acquire, abort, askStarted, askSettled, setLimit |
| Run control | `APP/workflow-run-control.ts` | bound engine and gate | setMaxConcurrency, fillHole, openHoles |
| Ask scheduler | `ENGINE/scheduler.ts`, `scheduler-submit.ts` | per actor: next sequence number, pending recorded and live asks, queue, current ask, session; active asks | admitAsk, pump, dispatch, submit, turn ended, failed, settle, abortInFlight |
| Replay gate | `ENGINE/replay-order.ts` | recovered table, cursor, parked and queued releases | recover, hold, pump, flush, open |
| Run life cycle | `ENGINE/engine.ts`, `engine-resume.ts`, `engine-settlement.ts` | caps, counters, status | start, resume, settle, stop |
| Imported answers | `ENGINE/imported-cache.ts` | cursor and divergence per actor, the import door | take, diverge, close, recover |
| Artifacts | `ENGINE/engine-artifacts.ts` | per artifact: versions, kind, primary | declare, publish, settle, replay |
| Holes, reports, world reads | `ENGINE/engine-holes.ts`, `-report.ts`, `-world.ts` | open holes, report tally | fill, report, read |
| Journal | `adapters/.../dwf-journal.ts`, `ENGINE/journal-memory.ts` | rows of nodes, events | putNode, appendEvent, list |
| Script runtime | `apps/zcode-cli/packages/dynamic-workflow-runtime` | sandboxed child process | host calls |

How they meet.  A script's `ask` goes to the scheduler.  An ask with a settled
row is answered through the replay gate; any other is queued behind its actor
and dispatched below the run's bound.  The driver starts it on a session, and
the seat gate learns of it.  Before each turn step the agent passes the seat
gate (the run's bound) and then the governor (the provider's cap).  A model
request's outcome returns to the controller on its ticket.  The end of an ask
goes through the event sink: the journal first, then the seat gate, then the
scheduler's next dispatches and the script's promise.  All of this is
callbacks on one thread, so a handler is atomic; what interleaves is handlers,
microtasks, timers, and the statements of the database around a crash.

What is hard: late verdicts from requests of an earlier cap; hand-kept copies
of a count (waiters, requests in flight, working agents, active asks) that
must agree across a dozen handlers; two accounts of one bound that never read
each other; waits that only one particular event ends; aborts inside those
waits; a replay whose order comes from a log written by earlier lives; a crash
between two statements.

What makes each part correct:

* Controller: one verdict for each wave; growth on demand only; the proven level
  below the cap; an exact count; a cooldown that no late refusal shortens.
* Governor: the demand it reports is the demand there is; every run in the
  rotation once; nobody passes a closed gate; the growth limit of the runs that
  are here; every waiter has something to wait for, and is granted in the end.
* Seat gate: a started agent works or is parked; nobody is parked for nothing;
  no new agent in front of a parked one; a lowered bound is reached.
* Scheduler: rows of an actor numbered without a gap; answers in the order of
  the rows, final over crashes; no idle capacity; every ask answered.
* Replay gate: the table closed under what the script awaited; releases in the
  order of the table; no replay that locks; the same schedule in every life.
* Imported answers (not modelled): once diverged, never an imported answer again,
  in this life or after a crash.
* Artifacts (not modelled): versions of an artifact numbered without a gap or a
  repetition; a replay publishes nothing twice.

### The server

| Part | Source | State | Operations |
|---|---|---|---|
| Ownership lock | `SERVER/runtime/lock.ts` | a lock file and a recovery gate, each empty or written; the tokens a process holds | acquire, claimStalePath, releaseOwnedPath, release, readLoss |
| Supervisor | `SERVER/supervisor/supervisor.ts`, `updateReadiness.ts` | state, Core, release in memory, restart timers, the operation under way | start, launchCore, messages and exits of the Core, scheduleRestart, stop, applyUpdate, recoverInterruptedUpdate |
| Crash budget | `SERVER/supervisor/crashBudget.ts` | crashes of the window | recordCrash |
| Release pointers | `SERVER/runtime/releaseManager.ts` | `current.json`, `pending.json`, `update-transaction.json` | beginUpdate, applyPending, completeUpdate, restoreCurrent |
| Commands and control socket | `SERVER/runtime/updateCommand.ts`, `updatePreparation.ts`, `SERVER/ipc` | `update.lock` | prepare, update, uninstall, status |

Every process that wants to own a server root acquires the lock; the winner
becomes the Supervisor, which recovers an unfinished update, reads the pointer
and forks a Core.  Commands reach it over a socket, one lifecycle operation at
a time.  The Core's messages and its exit, restart timers and kills come at any
await.

What is hard: files are the only shared memory of processes that die between
any two file operations; a check and the use of what it said are two
operations; events of a child that has been replaced; timers nobody cancels;
three files that have to be moved as one.

What makes each part correct:

* Ownership lock: a claim upon a record that was observed removes no file of a
  live process, and the ways in which one is lost all the same are known; two
  serving owners do not last; what the dead left is taken over.
* Supervisor: it knows every Core it has, at most one; every operation ends.
* Release pointers: one release to fall back on, only ever replaced by one
  whose Core has come up; a start never executes another.

### The rest of the repository

| Part | Source | Hard behaviour | Here |
|---|---|---|---|
| Persistent RPC protocol | `packages/rpc/src/persistent-protocol.ts` | a replay buffer, acknowledgements, reconnection | not modelled: nothing in production constructs it (`docs/v4-refactor/design-review.md:15` and `:326`) |
| Call ledger of the node REPL, session life cycle, runtime task registry | `apps/zcode-cli/packages` | ownership of calls in flight | not modelled |
| Mesh | `packages/sunsam-mesh` | routing to other machines | not modelled: a client of HTTP servers |
| SQLite migrations | `packages/shared/src/sqlite-migrations` | partial failure | not modelled: one transaction each |
| Desktop shell, web and terminal interface, providers, bots, plugins | | presentation and I/O | not modelled |

`PROJECT.json` lists the hazards of all of these that were met, each at its
line, with the property that covers it or the reason why none does yet.

## 2. Modules

| Module | Models | State | Actions |
|---|---|---|---|
| `AdaptiveCap` | the controller class | none: a record and one operator per method | |
| `ConcurrencyController` | one controller and a well-behaved owner | `ctl`, the epoch each request carries, the clock | Signal, Admit, Succeed, Refuse, Fail, Retune, Tick |
| `ConcurrencyGovernor` | one bucket of the governor | `ctl`, tickets, queues, rotation, bounds, timer | TryAdmit, Admit, AdmitObserver, DrainStep, Succeed, Refuse, Fail, Abort, CooldownWake, SetRunBound, ClearRunBound, Tick |
| `SeatGate` | the seat gate with the scheduler's dispatch | the two accounts of one bound | Ask, AskStarted, SessionFailed, Park, AbortRequest, ToolStarts, ToolEnds, Settle, Retune, Stop, Drop |
| `ReplayOrder` | the replay gate over the lives of a run | rows and log (durable), table, cursor, parked, queue (of a life) | Begin, Ask, Flush, SettleRow, SettleEvent, Kill, Stop |
| `AskLedger` | what the engine promises of asks | a place and a verdict for each ask | Admit, Answer |
| `AskScheduler` | the scheduler over the lives of a run; implements `AskLedger` | rows (durable), admission, queues, sessions, budgets (of a life) | Ask, Release, Start, SessionFails, TurnEnds, Submits, DriverFails, Retune, Halt, Resume, Finish |
| `Fifo` | what becomes of a queue when one member leaves it | none: operators on sequences | |
| `OwnershipLock` | the lock, one file operation per step, several processes | inodes at the two paths, which are written; per process its next step, attempt, observation | Create, Write, WriteFails, Observe, Judge, Enter, WriteGate, PeekGate, JudgeGate, Claim, Compare, Discard, Restore, DropRead, DropMove, DropSettle, Release, Watch, Quiet, Wake, Exit, Kill |
| `ReleaseLedger` | what a server root promises of its releases | the committed release, the proven ones | Prove, Commit |
| `Supervisor` | the Supervisor, its Cores and the pointers on disk; implements `ReleaseLedger` | pointers (durable); state, Core, active release, operation, budget, timers, children | Announce, Die, DeliverReady, DeliverExit, Fire, Stop, Prepare, Update and its steps, Start, Recover, Forget, Load, KillTimesOut, Killed |
| `Engine_lemmas` | lemmas about `Fifo` and `AdaptiveCap` that the proofs about the engine share | | |
| `*_proofs` | theorems about `ConcurrencyController`, `ConcurrencyGovernor`, `SeatGate`, `AskScheduler`, `ReplayOrder`, `OwnershipLock`, `Supervisor` | | |
| `MC*` | instances for TLC | | |

`AdaptiveCap` is EXTENDed by both `ConcurrencyController` and
`ConcurrencyGovernor`: the same operators are checked under every sequence of
calls and under the calls the governor really makes.  `AskScheduler`
INSTANCEs `AskLedger` with a refinement mapping that reads only the journal.
`Fifo` is EXTENDed by `SeatGate` and `ConcurrencyGovernor`, which remove a
member from the middle of a queue in the same way, and by `ReplayOrder` for the
members of a line.  `Supervisor` INSTANCEs
`ReleaseLedger`; its mapping, too, reads only the disk: the committed release is
the marker's while there is a marker, and the pointer otherwise.

### How states and actions correspond to the code

* **One handler, one step.**  JavaScript runs a handler to completion.  The
  handler and every synchronous call it makes are one action: an admission of
  `AskScheduler` includes the drain of the recorded and live asks and the pump.
  Two loops are spread over several steps for brevity, and no other handler
  may run meanwhile: `drain` of the governor (`draining`) and `abortInFlight`
  in `SeatGate` (after `over`).
* **Waiting is a step of its own.**  A session's creation (`Start`,
  `AskStarted`), a microtask (`Flush`), a timer (`CooldownWake`), a wait
  (`Park`) end in a later action.
* **Two writes are two steps.**  A settlement writes its row and then its
  event with another statement (`SettleRow`, `SettleEvent`), and a `Kill` may
  come between.  `AskScheduler` keeps no log, so there the settlement is one
  step.
* **A crash keeps the journal only.**  `Halt`, `Kill` and `Stop` end a life,
  and the volatile variables start afresh.
* **The script is a relation.**  `After[q]` are the answers the script awaits
  before it makes `q`.  It is pure, so it makes the same asks in every life.
* **Numbers.**  An absent field is `-1` (`Absent`).  The success streak is
  only compared with `K` and with zero, so it saturates at `K`.  `Math.floor`
  of three quarters is `\div`.  No number of this code comes near 2^53.

### Simplifications

Several definitions name the same lines in the map when a
method is split into the ideas it contains.  Left out everywhere: change
events and their texts, statistics and usage, names and hashes.
`ConcurrencyGovernor` has one bucket, since buckets share only the bounds.
`SeatGate` lets the dispatch choose any set of idle agents that fits the
bound, which includes the order of registration.  `ReplayOrder` has asks
only: world reads and artifacts wait at the same gate.  An admission there is
immediate; the order within an actor is `AskScheduler`'s matter.

In `OwnershipLock` a file is the inode `<<creator, attempt>>`, and its content
is that inode once it is written: tokens are never shared, so comparing contents
is comparing inodes.  Process identities are exact, so a file of a dead process
is recognised as such; the fallback on a bare process number, which a later
process may get again, is left out.  A renamed file is out of everybody's way but
its creator's, which may have it open and write it: `claimStalePath` reads
(`Compare`) and removes or renames back (`Discard`, `Restore`) in steps of their
own.  In `releaseOwnedPath` the two are one step, because what is looked for is the
process's own complete record, which only it writes.  The reads of the processes in
`Flaky` may fail, which `readOwner` takes for a missing file and `claimStalePath`
for a mismatch; a rename or a removal that fails is left out.  An owner is
`owner` while it is a Supervisor whose Core talks to it, and `quiet` while nothing
makes it write a snapshot: crash-loop-stopped, stopped after a failed operation,
or a lifecycle command, which holds a lock and never looks at it (`Wake`, the look
in front of the next launch, may never come).

In `Supervisor` a manifest is its release, one Supervisor lives at a time, every
file operation may fail and every wait may time out.  An uninstall is a stop.
The window of the crash budget may end at any time: it starts at its first crash
and is not moved by later ones (`crashBudget.ts:11`), so that two full budgets
may be spent close together.  The Core of a Supervisor that was killed is
nobody's and leaves the model.  That a Supervisor which has lost its root steps
down is a step of `OwnershipLock` (`Watch`) only.  `launchCore` does not throw
here: in the code an exception of `fork` itself would end `applyUpdate` in its
catch, or between the rollback and its last snapshot, or in the restart timer
(`supervisor.ts:336`, `:374`, `:474`); a Core that cannot be spawned reports it by an
event, which is modelled as an exit.  Three commands move `current.json` without a
Supervisor and are not modelled: the installation of a first release, the offline
`update --from-archive` (`updateCommand.ts:128`, `:151-152`), and the rollback of a
handoff, which stops the daemon and restores the previous pointer
(`updateHandoff.ts:149`).

## 3. Runs

| Run | Instance | Shows |
|---|---|---|
| `controller` | 3 requests (symmetric), default 2, limits 2 and 4, K = 2, window 2, times 0..3, epochs 0..2 | `OneVerdictPerWave`, `LevelsOK`, `InFlightExact`, `GrowthIsDemanded`, `CooldownKept` |
| `governor` | two runs (interchangeable) with one request each and the observer, one bound, cooldowns of 1, aborts, window 2, times and epochs 0..2 | `WaitersFed`, `RotationExact`, `LimitTracksBounds`, `WakeKept`, `GateHolds` |
| `governor_liveness` | a run with two requests and a session pool with one, no aborts | `EveryoneServed` |
| `governor_abort` | two runs, one request may abort | `NobodyStranded` is violated |
| `governor_starvation` | two runs and the observer | `TurnsTaken` is violated |
| `seat_gate` | 3 agents, bounds 1 to 3 | `SeatsAccounted`, `NoFreeSeat`, `NoOvertaking`, `SeatsAreReal`, `BoundReached`, `Unparked` |
| `replay` | asks x, y and z (z after x), 4 lives | `ReleasedInOrder`, `TableClosed`, `UncancelledInSeenOrder`, `ReplayDrains` |
| `replay_third_life` | the same | `SameSchedule` is violated |
| `ask_scheduler` | two asks of one actor, the second after a typed ask of another; bounds 1 and 2; 3 lives | `RowsInSequence`, `NoIdleCapacity`, `ImplementsLedger`, `CapBindsDispatch`, `EveryAskAnswered` |
| `ownership_lock` | three processes with 2, 1 and 0 iterations of the loop, the second with failing reads, and one dead process with any files left | `LossesAccounted`, `OwnersConverge`, `StaleTakenOver` |
| `supervisor` | two releases, two child identities, a budget of 2 restarts, 2 pending timers, `Careful` and `Locked` | `CoresAccounted`, `UnfinishedUpdateShown`, `ImplementsReleaseLedger`, `ServerSettles` |
| `supervisor_rollback` | the same without `Careful`, a budget of 1 and 1 timer | `StartsProven` is violated |

Each run also checks the type invariant of its module (`governor_liveness`
has the one of `governor`).  Every property has a mutant of the code's
model, listed in `PROJECT.json`, that breaks it.

**Bounds and why they are enough.**

* `MaxNow`, `MaxEpoch` (controller, governor) stop the clock and the verdicts.
  Two epochs let a wave be cut, its late refusals arrive under the next epoch,
  and a request of that one be refused in turn.  The times let an idle window
  pass, and a cooldown be extended by another.  Three requests make a wave of
  two and a latecomer.  `governor_liveness` has one epoch after the first, no
  bounds and no idle reset, to keep the graph of the liveness check small: that a
  raised bound or an extended cooldown leaves nobody waiting is not covered there
  (the timer of an extended cooldown is, as an invariant, by `WakeKept`).
* Three agents: two can be parked while one works, so that a FIFO order and a
  retune that frees two seats at once both occur.
* Three asks: two in parallel and one behind an answer is the smallest script
  whose replay order matters.  The three lives of the violation (a stop, a
  resume that answers, a third life) and one more for the invariants.
* Three lives of the scheduler: a crash during the first admission, a crash
  during the replay of it, and a life that completes.  An actor with a recorded
  and a fresh ask and another actor whose answer lies between them is the
  smallest case in which recorded and fresh asks mix after a resume.
* The loop of `acquire` runs up to 100 times in the code.  What an iteration does
  depends on the files only, and a file left by a dead process costs one
  iteration.  Two let `p1` clear a gate left behind and then enter it, the
  longest way past what one dead process leaves; `p2` can be inside or claim
  meanwhile; `p3` only tries the exclusive creation, which makes it the
  latecomer whose fresh file a stale claim renames away.  Kills make each of
  the three one more dead process, with files at any stage.  Each of the losses
  that `LossesAccounted` names occurs in this instance, also when all reads
  succeed (ad hoc runs with `Flaky` empty).
* Two releases: one that works and one that does not, beside the bundle the
  daemon itself comes from (`None`).  Two child identities: the previous Core
  with events in flight and its successor; an identity is used again when
  nothing of it is left.  Two restarts in the budget and two timers: one timer
  of an earlier crash next to that of the last.
* `RepairAttempts = NudgeAttempts = 1`: a budget that is used and one that is
  exhausted.

Deadlock is not checked where the system may stop: a run has settled, the last
life is over, or the bounds of clock, epochs and lives are reached.
`controller` checks it.

### Fairness, and why the code justifies it

* Governor: the loop of `drain` goes on; time passes; a due timer fires; a
  request that was sent ends, because the model runner times out a silent
  provider.  The last three are strong, since a running loop disables them.
  Nothing is assumed of callers: nobody needs to ask, abort or retune.
* Seat gate: a session is created or fails, `abortInFlight` goes on, and a
  working agent comes to its next turn step (strong, as tools run in between).
  That a tool ends is a premise about the environment, which the code does not
  guarantee: `escalate` is a running tool to the gate, and it waits for the user
  without a timeout, by design (`workflow-driver.ts:430-433`).  `BoundReached` and
  `Unparked` hold as long as such questions are answered.  `Unparked` assumes in addition that an agent that gets to work
  again and again ends its ask, which its finite budgets justify; it is a
  premise of that property only.
* Replay gate: a microtask runs; a write is completed or the process dies; the
  script makes the asks again that it made in an earlier life, when it has the
  same answers (it is deterministic).
* Ownership lock: each process takes its steps; a process that is through ends; a
  *serving* owner looks at its lock again and again, because each message of its
  Core, a heartbeat every ten seconds among them, writes a snapshot of the status,
  and the look precedes the write (`supervisor.ts:110-123`, `:541`).  There is no
  such fairness for a quiet owner, nor for one whose reads may fail (`readLoss`
  takes an error for no loss), and `OwnersConverge` says nothing of them: such an
  owner may believe for ever.  Nobody has to release, to fall quiet, to wake, to
  fail or to be killed.
* Supervisor: file operations return, deadlines pass, timers fire, events of
  children are delivered.  No Core has to come up or to die.
* Scheduler: the driver reports on what it was handed; a session is created or
  fails; a held answer is released (which is what `ReplayDrains` shows of the
  gate); the script repeats itself.

### Findings

1. **An abort can strand the other waiters** (`governor_abort`).  After the idle
   window, the abort of one waiter resets the bucket and with it the cooldown;
   the timer is cancelled, and nobody drains the queue of a gate now open.
2. **The main agent can starve a run** (`governor_starvation`).  A grant to the
   main agent overwrites the rotation cursor with an identity that is no run of
   the rotation, which then starts again at the oldest run.
3. **A third life need not recover the schedule of the second**
   (`replay_third_life`).  The cancellations a stop records are read as
   settlements.  `UncancelledInSeenOrder` is what does hold, and `TableClosed`
   shows that the replay cannot lock even so.

4. **A second update forgets the fallback of the first** (`supervisor_rollback`).
   After an update whose rollback has failed, `applyUpdate` accepts another, and
   its marker names the release that never came up.  A kill in the second update
   then makes the next start execute that release.  The shortest such behaviour
   has 19 states.

The constant `Careful` is what keeps finding 4 out of the run `supervisor`: while
an update is unfinished nobody begins or prepares another.  `Locked` says that
the command which asked for an update lives, and holds `update.lock`, until the
update ends.  It is needed as well: if that command is killed, its lock is free,
and another command may replace `pending.json` after `applyUpdate` has read it
and before `applyPending` reads it again; the release made current is then not
the one that is launched and waited for.  Neither is enforced by the Supervisor.

**Mutual exclusion of the lock.**  That at most one process takes itself for the
owner at any moment is *not* an invariant of `OwnershipLock`, although
`docs/architecture/r2-server-cli-and-daemon-test-plan.md:91` asks that of several
processes that recover a lock only one succeeds and a loser never removes the
winner's.  There are two ways.  The lock is created empty and
written a moment later, so that a process that looks in between takes it for
stale, claims it, and creates its own while the first goes on to believe (13
states).  The claim itself may then remove a complete lock in use: the creator has
the file open and writes its record after the claimer has read the renamed file
(`lock.ts:202`) and before it removes it (`:204`; 13 states).  And `claimStalePath`
renames first and compares afterwards: a lock just written is away for a moment, a
third process creates and writes its own at the free path, and the file renamed
back (`:208`) destroys it (15 states), which the comment at `lock.ts:207` and the
test plan exclude.  The two figures for losses are from ad hoc runs of the same
instance with `Flaky` empty.

What holds, and is checked and proved, is `LossesAccounted`: these are the only
losses, beside a claimer or a releaser that is killed, or cannot read, in the middle
of it.  Above all a claim upon a complete record, of a process that is dead, never
removes a file in use, however stale it is.  And of two owners that serve one steps
down, because it does not find its lock (`OwnersConverge`).  Quiet owners are
the limit of that: a Supervisor in crash-loop-stopped and a lifecycle command that
have lost their lock do not learn it.  An owner that looks just while a claimer has
its lock out of the way finds it missing and steps down as well.

Three more observations without a run, since no document promises otherwise: a row
and its event are *not* written together, although a comment in
`replay-order.ts` says so (the models include the crash between them, and
`TableClosed` survives it); a session that could not be created fails every
later ask of its actor in that life; the versions of two publications of one
artifact in flight together are the same.

## 4. Proofs

`tlapm` proves the following for every number of requests or agents and every
value of the other constants that satisfies the named assumptions
(`CapAssumption`, `ControllerAssumption`, `GovernorAssumption`, `SeatAssumption`,
`SchedulerAssumption`, `ReplayAssumption`, `LockAssumption`,
`SupervisorAssumption`).  TLC evaluates each of these in the runs.

**`Engine_lemmas`** has what these proofs share.  Of the controller, one lemma
for each method: it keeps the record well-typed and its levels in order, says
what it does to the count and the epoch, and obeys the three laws behind the
action properties (a lower cap turns the epoch; a higher one is demanded or
unproven; a cooldown is shortened only when idle).  `Lawful` names these laws.
Of lines without repetition, `Pushed`, `Shifted` and `Spliced` say which members
are left and that the others keep their order.  The library's induction
theorems take a predicate, which the installed provers cannot be given; `LeastOf`
(a set of naturals has a least one) and `LineInduction` (a set of lines that has
the empty one, and each line one longer than one it has, has them all) take a
*set* and stand in their place.  The module needs the constants of `AdaptiveCap`,
so the proofs about the seat gate, the scheduler and the replay gate have them
as well, of any value and without using them.

**`ConcurrencyController_proofs`**: `Inv` is the conjunction of `TypeOK`,
`LevelsOK`, `InFlightExact` and `EpochsPast`.  None is inductive alone:
without the exact count the clamp at zero could hide a decrement; without
`EpochsPast` an epoch once turned could come back, and `OneVerdictPerWave`
would say nothing of later verdicts; a cut back to the proven level needs that
level below the cap.  `KeepsInv` reduces each action to the lemma of its
method.  `OneVerdict`, `GrowthDemanded` and `CooldownCorrect` follow from `Inv`
and the laws of the step.

**`SeatGate_proofs`**: `IInv` is `TypeOK /\ SeatsAccounted /\ NoFreeSeat`.
`NoFreeSeat` needs the disjointness and the absence of repetition in
`SeatsAccounted`, because it counts agents; that in turn needs the types.
Three lemmas on sequences (append, drop of a prefix, removal of one element)
say which agents a FIFO has afterwards; `SeatsGiven` says that an unpark either
empties the FIFO or fills the bound.  `NobodyOvertaken` is the theorem worth
most: the scheduler dispatches below the bound by *its* count, the gate parks
by another, and still no new ask starts while an agent is parked, since every
working or parked agent is a current one (`started \subseteq current`) and
somebody parked means the bound is reached by working agents alone.

**`ConcurrencyGovernor_proofs`**: `Inv` is the conjunction of the five invariants
of the run with four more.  `CountExact` (the controller's count is the number of
requests in flight) and `Apart` (nobody waits and is in flight) need each other:
a ticket counts itself out, and a drain may admit a waiter only once.
`QueuesOwn` says that a queue holds requests of its own run, each once, so that
a splice takes out the one member it means.  `LevelsOf` carries the order of
the levels over from `AdaptiveCap`.  `WakeKept` and `GateHolds` follow from the
exact count, since a gate that counts wrongly is open at the wrong time.
`LimitTracksBounds` needs that a finite set of bounds has a largest one, which the
module derives from `LeastOf`.

`NobodyStranded`, which `governor_abort` refutes, is not given up but delimited.
`OnlyAbortsStrand` is a theorem about every step: if the waiters had something to
wait for before it and have nothing after it, it is an abort, nothing is in flight,
the timer was armed, and no cooldown is left.  `DrainServes` is the part of it that
the code is meant to ensure (a loop of `drain` that stops leaves a full bucket,
which is not empty, or a cooldown with its timer); `AbortStrands` finds in which
state `onAbort` fails.  `NobodyStrandedWithoutAborts` is the promise of
`concurrency.md` itself, for callers that never cancel (`MayAbort = {}`).

**`AskScheduler_proofs`**: `SInv` is `TypeOK`, `RowsInSequence` and `NoIdleCapacity`
with what ties them together while a life runs.  `Admits` says how far the
admission of an actor has come: a fresh ask gets a row only when the next number
is the number of rows, which is why no number is given twice and none is left out;
after a resume that needs the count `seedRecordedAsks` takes.  `Lined` says that what
an actor runs and what is queued behind it are exactly its rows that are admitted
and running, in the order of their numbers, which is what the refinement needs: an
ask is settled only when all earlier ones are.  Between two lives nothing is left
(`Blank`).  The proof goes by what the two loops of the code achieve:
`DrainYields` and `DrainRows` for `drainAdmission` (its next number is the first
that nobody waiting has, found by `LeastOf` and a pigeonhole argument),
`BySeqSorts` for the asks that are run again, and `DispatchFills` for `pumpActor`
over all actors (it fills the free capacity or empties the idle queues, because the
ranks of the ready actors are an initial segment of the naturals).  From `SInv`
follow the three invariants, `CapBindsDispatch` and the refinement,
`SchedulerImplementsLedger`: an ask is an Admit of the ledger, a settlement an
Answer, and no other step, crash or resume touches the ledger.  The number of
lives is bounded by the constant `MaxLives`, of any value.

**`ReplayOrder_proofs`**: the table is what the recovery leaves of the log, and the
gate compares parts of three lines: the log, the table and what the script has
seen.  `Only(s, S)` is a recursive function, and the first part of the module makes
it a thing to reason with: `OnlyEmpty` and `OnlyAppend` are its two equations, and
`OnlyMembers`, `OnlySame`, `OnlyOnly`, `OnlyConcat` and `OnlyDistinct` follow by
`LineInduction`.

`RInv` has one part for each piece of state:

* `Journal`: an ask is logged once, and after the settled asks whose answers it
  awaited (`ClosedIn`); but for the cancelled ones the log is the order of the
  first answers.  It has to hold between lives as well, for it is all that is left.
* `Table`: the table is a part of the log *as the log has grown since*, closed, of
  settled asks.  That is what lets an answer in the middle of a life append to the
  log while the gate still works through the old table.
* `Answered`: nothing is asked before what it awaits is answered; only what is
  settled waits at the gate.  Without it a stop could cancel something answered, and
  a log entry could precede its premises.
* `Running`: what is being run is not settled, but for the one ask between its two
  writes, and never in the table: a running ask is not the one the gate waits for.
* `Gate`: what was answered of the table, with what is queued, is the table up to
  the cursor, and the entry at the cursor has not been asked for.

The step lemmas go by what `hold` does: `PassKeeps` (an ask outside the rest of the
table goes through), `HoldKeeps` (one inside waits, and the cursor goes as far as
`ReachExists` says), `RunKeeps`; `AnswerKeeps` and `LogGrows` do the same for each
write to the log.  From `RInv` follow the four invariants of the run, and two
theorems that no run states:
`GateWaitsForAskable` says that a gate which holds somebody and has nothing queued
waits for an ask that the script has not made yet and whose premises are all
answered, which is `ReplayDrains` less the fairness;
and `SameScheduleWithoutStops` says that what `replay_third_life` refutes does hold
of every life as long as no stop has cancelled an ask: kills alone never change the
schedule.

A second invariant, `OInv`, rests on the first: the first answers are once each,
settled and after what they awaited (`AnswersStand`), and an ask of a life is in one
place (`OnePlace`).  `EachAnsweredOnce` draws the conclusion: no promise is
resolved twice, and nothing that any life has answered is run again.  TLC has
checked `RInv`, `OInv` and `WaitsForAskable` on three scripts (the one of the run, a
chain, and no dependencies), and `Stranding`, `AloneNeverDenied` and `LossIsFinal` on
the instances of their runs, before they were proved.

**`OwnershipLock_proofs`**: `LInv` is `TypeOK` and `Justified`: whoever is about to
claim has observed the file of somebody dead, of nobody, or its own, and the dead
stay dead.  `pc` of the others cannot undo it, which `OthersKeep` says.  `Observed`
adds what is known between the read and the removal: what was observed is empty or
somebody's complete record, a file about to be removed is the observed one or was
observed empty, and a file about to be put back is neither, although its creator may
be writing it.  `LosingSteps` lists the steps after which a file is nowhere, and
`LossesKnown` concludes `LossesAccounted`, for any number of processes and attempts
and any set of processes whose reads fail.

Two more theorems are what is safe in the two liveness properties of the run.
`AloneNeverDenied` follows a process that is the only one left when it begins, and
can read the files, through the loop of `acquire` (`AtStart`, `AtGate`, `ClearingGate`, `InGate`, `Past`): whatever
lies at the two paths is a dead process's, at most one iteration goes to the gate and
one to the lock, so two are enough and it is never turned away.  It needs `Unborn`, that
a process at its start has no file anywhere.  `LossIsFinal` says of an owner whose lock
is at no path and under no private name that every look finds it lost: only its own
`create` could bring that inode back, and an owner does not create.

**`Supervisor_proofs`**: `CInv` has the types and `CoresAccounted`, and what is known
of a child at each stage of an operation; it holds whatever the users do.
`PInv` follows the three pointers and the locals of `applyUpdate` through the
update (`Pointers`) and says when there is evidence that a release works
(`Evidence`); it assumes `Careful` and `Locked`.  From both,
`MemoryFollowsDisk`, `StartsAreProven` and the refinement,
`SupervisorImplementsLedger`: every step of the Supervisor or of a kill is a step
of `ReleaseLedger` or leaves it unchanged.

**Only model-checked.**  Every invariant and every action property of a passing run
is a theorem.  What TLC alone checks is liveness, which depends on fairness and on
ENABLED: `EveryoneServed`, `BoundReached`, `Unparked`, `ReplayDrains`,
`EveryAskAnswered`, `OwnersConverge`, `StaleTakenOver` and `ServerSettles`.  For
`ReplayDrains` and `StaleTakenOver` the theorems named above say that the states in
which nothing more could happen do not occur, and for `OwnersConverge` that a loss,
once there, stays to be seen; that the steps are then taken stays with TLC.  The four violated
properties are counterexamples of TLC; for `governor_abort`, `replay_third_life` and
`supervisor_rollback` a theorem says under which condition the property does hold
(`OnlyAbortsStrand`, `SameScheduleWithoutStops`, `StartsAreProven`).
No module has a RECURSIVE operator.

## 5. Not modelled, and plan

* Imported answers: which earlier answers a revised script may take over turns on
  the identity of texts of asks and edits, which the models abstract.
* Artifacts, holes, reports and world reads: journalled like asks and held at
  the same replay gate.  Next, in this order: `Artifacts`, with two publications
  in flight; `ReplayOrder` with the other kinds at the gate; `ImportCache`.
* Persistent RPC protocol: nothing in production constructs it.
* The commands that move the pointers without a daemon (first installation, offline
  `update --from-archive`, rollback of a handoff), the uninstall marker and the
  control socket of the server.
* The script runtime (only its determinism is used), the SQLite statements (each
  is atomic and durable here), user interfaces, providers, bots, mesh and plugins.

Next, proofs: the safety halves of `BoundReached` and `Unparked` at the seat gate
and of `EveryoneServed` at the governor.

## 6. Running it

    tlc -workers 2 -config MCSeatGate.cfg MCSeatGate
    tlapm SeatGate_proofs.tla

Each run ends within a few minutes; the largest are `controller`, `governor` and
`ownership_lock`, with several hundred thousand states each.
