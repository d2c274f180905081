---------------------------- MODULE AskScheduler ----------------------------
(***************************************************************************)
(* The ask scheduler of the workflow engine (dynamic-workflow/src/engine/  *)
(* scheduler.ts, scheduler-submit.ts) over the lives of a run: admission   *)
(* in the recorded order, one serial queue per actor, dispatch under the   *)
(* run's bound, settlement, and what a resume rebuilds from the journal.   *)
(*                                                                         *)
(* The engine is single-threaded: each handler is one step.  A session is  *)
(* created asynchronously, so a dispatched ask starts in a later step.     *)
(*                                                                         *)
(* Abstracted: instructions and their hashes (the script is pure and asks  *)
(* the same thing in every life); the replay gate between a held answer    *)
(* and the script (ReplayOrder); imported answers; usage and statistics.   *)
(***************************************************************************)
EXTENDS Integers, FiniteSets, Sequences

CONSTANTS
    Asks,            \* ask instances, a site and an ordinal each
    Actors,          \* actors, numbered in the order the script creates them
    ActorOf,         \* the actor each ask is put to
    Typed,           \* the asks that want a result of a schema
    After,           \* the answers the script awaits before it makes each ask
    Caps,            \* the bounds the run may have
    RepairAttempts,  \* REPAIR_ATTEMPTS
    NudgeAttempts,   \* NUDGE_ATTEMPTS
    MaxLives         \* bound: resumes stop here

ASSUME SchedulerAssumption ==
    /\ IsFiniteSet(Asks)
    /\ Actors \subseteq Nat /\ IsFiniteSet(Actors)
    /\ ActorOf \in [Asks -> Actors]
    /\ Typed \subseteq Asks
    /\ After \in [Asks -> SUBSET Asks]
    /\ Caps \subseteq Nat \ {0}
    /\ RepairAttempts \in Nat /\ NudgeAttempts \in Nat
    /\ MaxLives \in Nat \ {0}

VARIABLES
    status, seq,     \* journal: the row of each ask, status "none" without one, and its actorSeq
    cap,             \* journal and caps.maxConcurrency
    life, lives,     \* "down", "running" or "over"; lives begun so far
    asked, answered, \* this life: the asks the script has made, and has had answered
    nextAdmitSeq, recordedCount,  \* of each actor
    pendingRecorded, \* asks with a row, waiting for their turn to be admitted
    pendingLive,     \* of each actor: fresh asks waiting for the recorded ones, by arrival
    liveQueue,       \* of each actor: asks admitted and not dispatched
    current,         \* of each actor: {} or the ask being run
    session,         \* of each actor: "none", "open" or "broken"
    started,         \* the current asks handed to the driver
    repairs, nudges, \* what is left of each ask's budgets
    held,            \* recorded answers on their way to the script
    activeAsks

rows == <<status, seq>>
script == <<asked, answered>>
admission == <<nextAdmitSeq, recordedCount, pendingRecorded, pendingLive>>
running == <<liveQueue, current, activeAsks>>
turns == <<session, started, repairs, nudges>>
vars == <<rows, cap, life, lives, script, admission, running, turns, held>>

Settled == {q \in Asks : status[q] \in {"completed", "failed"}}
Recorded == {q \in Asks : status[q] # "none"}
Of(x) == {q \in Asks : ActorOf[q] = x}

\* MUTANT of BySeq: the last recorded ask first.
BySeqDescending(S) ==
    [i \in 1..Cardinality(S) |->
        CHOOSE q \in S : Cardinality({p \in S : seq[p] > seq[q]}) = i - 1]

\* The asks of S in the order they were admitted in.
BySeq(S) ==
    [i \in 1..Cardinality(S) |->
        CHOOSE q \in S : Cardinality({p \in S : seq[p] < seq[q]}) = i - 1]

-----------------------------------------------------------------------------
(* Dispatch: pumpActor on every actor of S, in the order of registration.  *)

\* MUTANT of Dispatch: one more than the bound.
DispatchOneMore(S, queues, cur, active, bound) ==
    LET ready == {x \in S : cur[x] = {} /\ queues[x] # <<>>}
        go == {x \in ready : active + Cardinality({y \in ready : y < x}) <= bound}
    IN  /\ current' = [x \in Actors |-> IF x \in go THEN {Head(queues[x])} ELSE cur[x]]
        /\ liveQueue' = [x \in Actors |-> IF x \in go THEN Tail(queues[x]) ELSE queues[x]]
        /\ activeAsks' = active + Cardinality(go)

Dispatch(S, queues, cur, active, bound) ==
    LET ready == {x \in S : cur[x] = {} /\ queues[x] # <<>>}
        go == {x \in ready : active + Cardinality({y \in ready : y < x}) < bound}
    IN  /\ current' = [x \in Actors |-> IF x \in go THEN {Head(queues[x])} ELSE cur[x]]
        /\ liveQueue' = [x \in Actors |-> IF x \in go THEN Tail(queues[x]) ELSE queues[x]]
        /\ activeAsks' = active + Cardinality(go)

-----------------------------------------------------------------------------
(* Admission.  drainAdmission admits the recorded asks that are next in    *)
(* sequence, and once all recorded ones are, the fresh ones as they came.  *)
(* The arguments are pendingRecorded and pendingLive[x] with the new ask,  *)
(* and the actors that are pumped afterwards.                              *)

Drain(x, recorded, fresh, pumped) ==
    LET mine == {q \in recorded : ActorOf[q] = x}
        from == nextAdmitSeq[x]
        next == CHOOSE n \in from..(from + Cardinality(mine)) :
                    /\ \A i \in from..(n - 1) : \E q \in mine : seq[q] = i
                    /\ \A q \in mine : seq[q] # n
        released == {q \in mine : seq[q] < next}
        rerun == {q \in released : status[q] = "running"}
        admitted == IF next >= recordedCount[x] THEN fresh ELSE <<>>
        live == rerun \cup {admitted[i] : i \in 1..Len(admitted)}
    IN  /\ status' = [q \in Asks |-> IF q \in live THEN "running" ELSE status[q]]
        /\ seq' = [q \in Asks |-> IF \E i \in 1..Len(admitted) : admitted[i] = q
                                  THEN next - 1 + CHOOSE i \in 1..Len(admitted) : admitted[i] = q
                                  ELSE seq[q]]
        /\ nextAdmitSeq' = [nextAdmitSeq EXCEPT ![x] = next + Len(admitted)]
        /\ pendingRecorded' = recorded \ released
        /\ pendingLive' = [pendingLive EXCEPT ![x] = IF admitted = fresh THEN <<>> ELSE fresh]
        /\ held' = held \cup (released \ rerun)
        /\ repairs' = [q \in Asks |-> IF q \in live THEN RepairAttempts ELSE repairs[q]]
        /\ nudges' = [q \in Asks |-> IF q \in live THEN NudgeAttempts ELSE nudges[q]]
        /\ Dispatch(pumped, [liveQueue EXCEPT ![x] = @ \o BySeq(rerun) \o admitted], current,
                    activeAsks, cap)

\* admitAsk: an ask with a row waits for its recorded turn, one without for all of those.
Ask(q) ==
    LET x == ActorOf[q]
    IN  /\ life = "running" /\ q \notin asked /\ After[q] \subseteq answered
        /\ asked' = asked \cup {q}
        /\ \/ q \in Recorded /\ Drain(x, pendingRecorded \cup {q}, pendingLive[x], {x})
           \/ q \notin Recorded /\ Drain(x, pendingRecorded, Append(pendingLive[x], q), Actors)
        /\ UNCHANGED <<cap, life, lives, answered, recordedCount, session, started>>

\* A held answer reaches the script.
Release(q) ==
    /\ life = "running" /\ q \in held
    /\ held' = held \ {q}
    /\ answered' = answered \cup {q}
    /\ UNCHANGED <<rows, cap, life, lives, asked, admission, running, turns>>

-----------------------------------------------------------------------------
(* The run of an ask.                                                      *)

\* MUTANT of Settle: only the actor of the ask is pumped.
SettlePumpingOne(q, verdict) ==
    /\ status' = [status EXCEPT ![q] = verdict]
    /\ Dispatch({ActorOf[q]}, liveQueue, [current EXCEPT ![ActorOf[q]] = {}], activeAsks - 1, cap)
    /\ started' = started \ {q}
    /\ answered' = answered \cup {q}
    /\ UNCHANGED <<seq, cap, life, lives, asked, admission, repairs, nudges, held>>

\* settleOk and settleFailed: the row, the actor's place, the next dispatches, the answer.
Settle(q, verdict) ==
    /\ status' = [status EXCEPT ![q] = verdict]
    /\ Dispatch(Actors, liveQueue, [current EXCEPT ![ActorOf[q]] = {}], activeAsks - 1, cap)
    /\ started' = started \ {q}
    /\ answered' = answered \cup {q}
    /\ UNCHANGED <<seq, cap, life, lives, asked, admission, repairs, nudges, held>>

\* ensureSession succeeds: at once when the session exists, after creating it otherwise.
Start(x) ==
    /\ life = "running" /\ session[x] # "broken"
    /\ current[x] # {} /\ current[x] \cap started = {}
    /\ session' = [session EXCEPT ![x] = "open"]
    /\ started' = started \cup current[x]
    /\ UNCHANGED <<rows, cap, life, lives, script, admission, running, repairs, nudges, held>>

\* The promise of the session is cached: once it is rejected, every later ask of the actor
\* fails in this life.
SessionFails(x) ==
    /\ life = "running" /\ session[x] # "open"
    /\ session' = [session EXCEPT ![x] = "broken"]
    /\ \E q \in current[x] : Settle(q, "failed")

\* MUTANT of TurnEnds: nudged without end.
TurnEndsUnbudgeted(q) ==
    /\ life = "running" /\ q \in started
    /\ \/ q \notin Typed /\ Settle(q, "completed") /\ UNCHANGED session
       \/ /\ q \in Typed
          /\ nudges' = [nudges EXCEPT ![q] = @ - 1]
          /\ UNCHANGED <<rows, cap, life, lives, script, admission, running, session, started,
                         repairs, held>>

\* handleTurnEnded: a typed ask that ends without a result is nudged, or fails.
TurnEnds(q) ==
    /\ life = "running" /\ q \in started
    /\ \/ q \notin Typed /\ Settle(q, "completed") /\ UNCHANGED session
       \/ q \in Typed /\ nudges[q] = 0 /\ Settle(q, "failed") /\ UNCHANGED session
       \/ /\ q \in Typed /\ nudges[q] > 0
          /\ nudges' = [nudges EXCEPT ![q] = @ - 1]
          /\ UNCHANGED <<rows, cap, life, lives, script, admission, running, session, started,
                         repairs, held>>

\* handleSubmitAttempted: a valid result settles, another one is repaired, or the ask fails.
Submits(q) ==
    /\ life = "running" /\ q \in started \cap Typed
    /\ \/ Settle(q, "completed") /\ UNCHANGED session
       \/ repairs[q] = 0 /\ Settle(q, "failed") /\ UNCHANGED session
       \/ /\ repairs[q] > 0
          /\ repairs' = [repairs EXCEPT ![q] = @ - 1]
          /\ UNCHANGED <<rows, cap, life, lives, script, admission, running, session, started,
                         nudges, held>>

DriverFails(q) ==
    /\ life = "running" /\ q \in started
    /\ Settle(q, "failed") /\ UNCHANGED session

-----------------------------------------------------------------------------
(* The run.                                                                *)

\* MUTANT of Retune: nothing is dispatched before the next settlement.
RetuneSilent(c) ==
    /\ life = "running" /\ c # cap
    /\ cap' = c
    /\ UNCHANGED <<rows, life, lives, script, admission, running, turns, held>>

\* setMaxConcurrency: the bound is written to the journal; raising it dispatches.
Retune(c) ==
    /\ life = "running" /\ c # cap
    /\ cap' = c
    /\ IF c > cap THEN Dispatch(Actors, liveQueue, current, activeAsks, c) ELSE UNCHANGED running
    /\ UNCHANGED <<rows, life, lives, script, admission, turns, held>>

\* Nothing of a life outlives it but the journal.
Forget ==
    /\ asked' = {} /\ answered' = {}
    /\ nextAdmitSeq' = [x \in Actors |-> 0] /\ recordedCount' = [x \in Actors |-> 0]
    /\ pendingRecorded' = {} /\ pendingLive' = [x \in Actors |-> <<>>]
    /\ liveQueue' = [x \in Actors |-> <<>>] /\ current' = [x \in Actors |-> {}]
    /\ session' = [x \in Actors |-> "none"] /\ started' = {}
    /\ repairs' = [q \in Asks |-> 0] /\ nudges' = [q \in Asks |-> 0]
    /\ held' = {} /\ activeAsks' = 0

\* The process dies, or the run is stopped: abortInFlight leaves the rows as they are.
Halt ==
    /\ life = "running"
    /\ life' = "down"
    /\ Forget
    /\ UNCHANGED <<rows, cap, lives>>

\* MUTANT of Resume: recorded asks are not counted, so that fresh ones do not wait for them.
ResumeUnseeded ==
    /\ life = "down" /\ lives < MaxLives
    /\ life' = "running" /\ lives' = lives + 1
    /\ UNCHANGED <<rows, cap, script, admission, running, turns, held>>

\* restoreFromJournal and seedRecordedAsks.
Resume ==
    /\ life = "down" /\ lives < MaxLives
    /\ life' = "running" /\ lives' = lives + 1
    /\ recordedCount' = [x \in Actors |-> Cardinality(Of(x) \cap Recorded)]
    /\ UNCHANGED <<rows, cap, script, nextAdmitSeq, pendingRecorded, pendingLive, running, turns,
                   held>>

\* The script returns or throws; asks it did not wait for are abandoned.
Finish ==
    /\ life = "running"
    /\ life' = "over"
    /\ Forget
    /\ UNCHANGED <<rows, cap, lives>>

Init ==
    /\ status = [q \in Asks |-> "none"] /\ seq = [q \in Asks |-> 0]
    /\ cap \in Caps
    /\ life = "running" /\ lives = 1
    /\ asked = {} /\ answered = {}
    /\ nextAdmitSeq = [x \in Actors |-> 0] /\ recordedCount = [x \in Actors |-> 0]
    /\ pendingRecorded = {} /\ pendingLive = [x \in Actors |-> <<>>]
    /\ liveQueue = [x \in Actors |-> <<>>] /\ current = [x \in Actors |-> {}]
    /\ session = [x \in Actors |-> "none"] /\ started = {}
    /\ repairs = [q \in Asks |-> 0] /\ nudges = [q \in Asks |-> 0]
    /\ held = {} /\ activeAsks = 0

Reports(q) == TurnEnds(q) \/ Submits(q) \/ DriverFails(q)

Next ==
    \/ \E q \in Asks : Ask(q) \/ Release(q) \/ Reports(q)
    \/ \E x \in Actors : Start(x) \/ SessionFails(x)
    \/ \E c \in Caps : Retune(c)
    \/ Halt \/ Resume \/ Finish

Spec == Init /\ [][Next]_vars

\* A session is created or fails; the driver reports on every ask it was handed; a held answer
\* is released; and a script makes again the asks it made before.
Fairness ==
    /\ \A x \in Actors : /\ WF_vars(Start(x) \/ SessionFails(x))
                         /\ WF_vars(\E q \in current[x] : Reports(q))
    /\ WF_vars(\E q \in held : Release(q))
    /\ WF_vars(\E q \in Recorded : Ask(q))

FairSpec == Spec /\ Fairness

-----------------------------------------------------------------------------
(* Properties.                                                             *)

\* Type invariant.
TypeOK ==
    /\ status \in [Asks -> {"none", "running", "completed", "failed"}]
    /\ seq \in [Asks -> Nat]
    /\ cap \in Caps
    /\ life \in {"running", "down", "over"} /\ lives \in 1..MaxLives
    /\ asked \subseteq Asks /\ answered \subseteq Asks
    /\ nextAdmitSeq \in [Actors -> Nat] /\ recordedCount \in [Actors -> Nat]
    /\ pendingRecorded \subseteq Asks /\ pendingLive \in [Actors -> Seq(Asks)]
    /\ liveQueue \in [Actors -> Seq(Asks)] /\ current \in [Actors -> SUBSET Asks]
    /\ session \in [Actors -> {"none", "open", "broken"}] /\ started \subseteq Asks
    /\ repairs \in [Asks -> 0..RepairAttempts] /\ nudges \in [Asks -> 0..NudgeAttempts]
    /\ held \subseteq Asks
    /\ activeAsks \in Nat

\* The rows of an actor are numbered from zero without a gap and without a repetition, through
\* every interleaving of recorded and fresh asks and every crash.  A gap would hold every later
\* ask of the actor back for ever; a repetition would lose one.
RowsInSequence ==
    \A x \in Actors :
        LET mine == Of(x) \cap Recorded
        IN  {seq[q] : q \in mine} = 0..(Cardinality(mine) - 1)

\* The line of each actor as the journal has it.
Ledger == INSTANCE AskLedger WITH
    place <- [q \in Asks |-> IF q \in Recorded THEN seq[q] ELSE -1],
    verdict <- [q \in Asks |-> IF q \in Settled THEN status[q] ELSE "none"]

\* The scheduler with its journal, its crashes and its resumes implements a ledger that knows of
\* none: each actor answers the asks of its line one by one, in order, once and for all.
ImplementsLedger == Ledger!Spec

Busy == {x \in Actors : current[x] # {}}

\* No capacity stays idle: an ask waits in the queue of an idle actor only while the run is at
\* its bound, after every settlement, admission and retune; and the counter that decides this is
\* the number of asks being run.
NoIdleCapacity ==
    /\ activeAsks = Cardinality(Busy)
    /\ \A x \in Actors \ Busy : liveQueue[x] # <<>> => activeAsks >= cap

\* A step that puts an actor to work leaves the run within its bound, also when the bound was
\* lowered below the number of asks being run.
CapBindsDispatch ==
    [][(\E x \in Actors : current'[x] \notin {{}, current[x]}) => Cardinality(Busy') <= cap']_vars

\* Every ask is answered or its life ends: held back behind recorded asks, queued behind others
\* of its actor or short of capacity, nudged and repaired, it comes through.
EveryAskAnswered ==
    \A q \in Asks : q \in asked ~> q \in answered \/ life # "running"

=============================================================================
