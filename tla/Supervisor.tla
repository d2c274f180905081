----------------------------- MODULE Supervisor -----------------------------
(***************************************************************************)
(* The Supervisor of zcode-server-cli (supervisor/supervisor.ts) on its    *)
(* server root: start with recovery, crash restarts under a budget, stop,  *)
(* and apply-update with its rollback, next to the Core it has forked and  *)
(* the three release pointers it keeps on disk.                            *)
(*                                                                         *)
(* One Supervisor lives at a time (OwnershipLock is about that).  Its      *)
(* program runs from one await to the next as one step; between two of     *)
(* them a Core may come up or die, its messages and its exit may be        *)
(* delivered, a restart timer may fire, another command may prepare a      *)
(* release, and the Supervisor may be killed.  Every file operation may    *)
(* fail and every wait may time out.                                       *)
(*                                                                         *)
(* Abstracted: a manifest is its release.  An uninstall stops as a stop    *)
(* does.  The crash window ends at any time.  A Core whose Supervisor was  *)
(* killed is nobody's and leaves the model.                                *)
(***************************************************************************)
EXTENDS Integers, FiniteSets

CONSTANTS
    Release,       \* the releases that can be prepared
    None,          \* no pointer on disk: the release a daemon executes is its own bundle
    NoMarker,      \* no update-transaction.json
    Cores,         \* child processes; a number of them is used again once its events are through
    NoCore,
    Backoffs,      \* the length of CRASH_BACKOFF_MS: 5 in the code
    MaxTimers,     \* the number of pending restart timers that are told apart
    Careful,       \* no further update is begun or prepared after one whose rollback has failed
    Locked         \* the command that asked for an update lives, and holds update.lock, to its end

Manifest == Release \cup {None}

ASSUME SupervisorAssumption ==
    /\ NoMarker \notin Manifest
    /\ NoCore \notin Cores
    /\ Backoffs \in Nat
    /\ MaxTimers \in Nat \ {0}
    /\ Careful \in BOOLEAN /\ Locked \in BOOLEAN

VARIABLES
    current, pending,      \* current.json and pending.json
    marker,                \* update-transaction.json: the release to fall back on
    at,                    \* where the lifecycle operation of the Supervisor is
    state,                 \* what status reports
    core,                  \* this.core
    active,                \* this.activeRelease
    candidate, previous,   \* locals of applyUpdate
    crashes,               \* crashCount of the budget
    timers,                \* pending restart timers
    life,                  \* of each child, booting, up, dead and not yet observed, or free
    ready,                 \* children with a ready message in flight
    release,               \* the release each child executes
    proven                 \* releases a Core of which has come up

disk == <<current, pending, marker>>
locals == <<candidate, previous>>
budget == <<crashes, timers>>
children == <<life, ready, release>>
vars == <<disk, at, state, core, active, locals, budget, children, proven>>

Waits == {"stop", "replace", "withdraw", "abandon"}
UpdateSteps == {"read", "replace", "begin", "apply", "clear", "poll", "complete",
                "withdraw", "restore", "unmark", "pollOld", "abandon"}
BootSteps == {"recover", "forget", "load"}

-----------------------------------------------------------------------------
(* A Core.                                                                 *)

\* launchCore of release r: the new child takes the place of whatever this.core was.
Launch(r) ==
    \E c \in Cores \ (ready \cup {core}) :
        /\ life[c] = "free"
        /\ core' = c
        /\ life' = [life EXCEPT ![c] = "booting"]
        /\ release' = [release EXCEPT ![c] = r]
        /\ state' = "starting"
        /\ UNCHANGED ready

\* The Core listens and says so.
Announce(c) ==
    /\ life[c] = "booting"
    /\ life' = [life EXCEPT ![c] = "up"]
    /\ ready' = ready \cup {c}
    /\ proven' = proven \cup {release[c]}
    /\ UNCHANGED <<disk, at, state, core, active, locals, budget, release>>

\* It crashes, obeys a shutdown, is killed after the grace period or for its silence.
Die(c) ==
    /\ life[c] \in {"booting", "up"}
    /\ life' = [life EXCEPT ![c] = "dead"]
    /\ UNCHANGED <<disk, at, state, core, active, locals, budget, ready, release, proven>>

\* MUTANT of DeliverReady: the message is not bound to the child that sent it.
DeliverReadyOfAny(c) ==
    /\ c \in ready
    /\ ready' = ready \ {c}
    /\ state' = IF state = "starting" THEN "ready" ELSE state
    /\ UNCHANGED <<disk, at, core, active, locals, budget, life, release, proven>>

\* handleCoreMessage: only the current child, and only while it is starting.
DeliverReady(c) ==
    /\ c \in ready
    /\ ready' = ready \ {c}
    /\ state' = IF core = c /\ state = "starting" THEN "ready" ELSE state
    /\ UNCHANGED <<disk, at, core, active, locals, budget, life, release, proven>>

\* MUTANT of Crashed: the budget is one restart too large.
CrashedOnceMore ==
    \E counted \in {0, crashes} :
        /\ crashes' = IF counted <= Backoffs + 1 THEN counted + 1 ELSE counted
        /\ IF counted > Backoffs
           THEN state' = "crash-loop-stopped" /\ UNCHANGED timers
           ELSE state' = "crashed" /\ timers' = IF timers < MaxTimers THEN timers + 1 ELSE timers

\* recordCrash, in a new window or in the one already open, and what follows from it.  The count
\* stands still above Backoffs, where nothing tells one number from another.
Crashed ==
    \E counted \in {0, crashes} :
        /\ crashes' = IF counted <= Backoffs THEN counted + 1 ELSE counted
        /\ IF counted >= Backoffs
           THEN state' = "crash-loop-stopped" /\ UNCHANGED timers
           ELSE state' = "crashed" /\ timers' = IF timers < MaxTimers THEN timers + 1 ELSE timers

\* The wait of stopCore is over: what applyUpdate or stopInternal does up to its next await.
Stopped ==
    /\ core' = NoCore
    /\ \/ at = "stop" /\ at' = "down" /\ state' = "stopped"
       \/ at = "replace" /\ at' = "begin" /\ state' = "updating"
       \/ at = "withdraw" /\ at' = "restore" /\ UNCHANGED state
       \/ at = "abandon" /\ at' = "none" /\ state' = "stopped"

\* exit or close of a child: the wait of stopCore, handleTerminal, or nobody's concern any more.
DeliverExit(c) ==
    /\ life[c] = "dead" /\ at # "down"
    /\ life' = [life EXCEPT ![c] = "free"]
    /\ \/ /\ core = c /\ at \in Waits
          /\ Stopped /\ UNCHANGED budget
       \/ /\ core = c /\ at \notin Waits /\ state = "stop-failed"
          /\ core' = NoCore /\ UNCHANGED <<at, state, budget>>
       \/ /\ core = c /\ at \notin Waits /\ state # "stop-failed"
          /\ core' = NoCore /\ Crashed /\ UNCHANGED at
       \/ /\ core # c
          /\ UNCHANGED <<at, state, core, budget>>
    /\ UNCHANGED <<disk, active, locals, ready, release, proven>>

\* A restart timer fires, possibly one of an earlier crash.
Fire ==
    /\ timers > 0 /\ at # "down"
    /\ timers' = timers - 1
    /\ IF state = "crashed" THEN Launch(active) ELSE UNCHANGED <<state, core, children>>
    /\ UNCHANGED <<disk, at, active, locals, crashes, proven>>

-----------------------------------------------------------------------------
(* stopCore.                                                               *)

\* Up to its wait; s is where the caller goes when there is no Core.
StopCore(wait, s, st) ==
    IF core # NoCore THEN at' = wait /\ state' = "stopping"
                     ELSE at' = s /\ state' = st

\* MUTANT of KillTimesOut: a Core that does not go is taken for gone.
KillTimesOutTrusting ==
    /\ at \in Waits
    /\ Stopped
    /\ UNCHANGED <<disk, active, locals, budget, children, proven>>

\* No exit within the grace period nor after SIGKILL: the operation ends with its Core and its lock.
KillTimesOut ==
    /\ at \in Waits
    /\ at' = "none" /\ state' = "stop-failed"
    /\ UNCHANGED <<disk, core, active, locals, budget, children, proven>>

\* stop, uninstall or a signal.  With no Core left the process closes and releases its lock.
Stop ==
    /\ at = "none"
    /\ StopCore("stop", "down", "stopped")
    /\ UNCHANGED <<disk, core, active, locals, budget, children, proven>>

-----------------------------------------------------------------------------
(* applyUpdate.                                                            *)

\* Another command writes or withdraws pending.json.
Prepare ==
    /\ Careful => marker = NoMarker \/ at \in UpdateSteps
    /\ Locked => at \notin UpdateSteps
    /\ \E r \in Manifest \ {pending} : pending' = r
    /\ UNCHANGED <<current, marker, at, state, core, active, locals, budget, children, proven>>

Update ==
    /\ at = "none"
    /\ Careful => marker = NoMarker
    /\ at' = "read"
    /\ UNCHANGED <<disk, state, core, active, locals, budget, children, proven>>

\* readPending and readCurrent, then the old Core is stopped; nothing is pending, tasks are
\* running, or a manifest is broken: refused.
Read ==
    /\ at = "read"
    /\ \/ /\ pending # None
          /\ candidate' = pending /\ previous' = current
          /\ StopCore("replace", "begin", "updating")
       \/ at' = "none" /\ UNCHANGED <<state, locals>>
    /\ UNCHANGED <<disk, core, active, budget, children, proven>>

\* The catch block up to its first await: leave "crashed", so that no timer starts the candidate
\* again, and stop the candidate if it lives.
RollBack ==
    StopCore("withdraw", "restore", IF state = "crashed" THEN "updating" ELSE state)

Begin ==
    /\ at = "begin"
    /\ \/ marker' = previous /\ at' = "apply" /\ UNCHANGED state
       \/ RollBack /\ UNCHANGED marker
    /\ UNCHANGED <<current, pending, core, active, locals, budget, children, proven>>

\* applyPending reads pending.json again.
Apply ==
    /\ at = "apply"
    /\ \/ pending # None /\ current' = pending /\ at' = "clear" /\ UNCHANGED state
       \/ RollBack /\ UNCHANGED current
    /\ UNCHANGED <<pending, marker, core, active, locals, budget, children, proven>>

Clear ==
    /\ at = "clear"
    /\ \/ /\ pending' = None /\ active' = candidate
          /\ Launch(candidate) /\ at' = "poll"
       \/ /\ RollBack
          /\ UNCHANGED <<pending, active, core, children>>
    /\ UNCHANGED <<current, marker, locals, budget, proven>>

\* MUTANT of Poll: the new Core is waited for without a deadline.
PollForever ==
    /\ at = "poll"
    /\ \/ state = "ready" /\ at' = "complete" /\ UNCHANGED state
       \/ state \in {"crashed", "crash-loop-stopped"} /\ RollBack
    /\ UNCHANGED <<disk, core, active, locals, budget, children, proven>>

\* waitForUpdateReady: seen ready, seen crashed, or the deadline, which may pass between the
\* message and the next look at the state.
Poll ==
    /\ at = "poll"
    /\ \/ state = "ready" /\ at' = "complete" /\ UNCHANGED state
       \/ RollBack
    /\ UNCHANGED <<disk, core, active, locals, budget, children, proven>>

Complete ==
    /\ at = "complete"
    /\ \/ marker' = NoMarker /\ at' = "none" /\ UNCHANGED state
       \/ RollBack /\ UNCHANGED marker
    /\ UNCHANGED <<current, pending, core, active, locals, budget, children, proven>>

\* restoreCurrent; a failure leaves the marker for a later start.
Restore ==
    /\ at = "restore"
    /\ \/ current' = previous /\ at' = "unmark" /\ UNCHANGED state
       \/ at' = "none" /\ state' = "stop-failed" /\ UNCHANGED current
    /\ UNCHANGED <<pending, marker, core, active, locals, budget, children, proven>>

\* MUTANT of Unmark: the release in memory stays the candidate.
UnmarkKeepingActive ==
    /\ at = "unmark"
    /\ \/ /\ marker' = NoMarker /\ active' = active
          /\ \/ previous # None /\ Launch(previous) /\ at' = "pollOld"
             \/ previous = None /\ at' = "none" /\ state' = "stopped" /\ UNCHANGED <<core, children>>
       \/ /\ at' = "none" /\ state' = "stop-failed"
          /\ UNCHANGED <<marker, active, core, children>>
    /\ UNCHANGED <<current, pending, locals, budget, proven>>

\* The marker goes, and the previous release is started again if there is one.
Unmark ==
    /\ at = "unmark"
    /\ \/ /\ marker' = NoMarker /\ active' = previous
          /\ \/ previous # None /\ Launch(previous) /\ at' = "pollOld"
             \/ previous = None /\ at' = "none" /\ state' = "stopped" /\ UNCHANGED <<core, children>>
       \/ /\ at' = "none" /\ state' = "stop-failed"
          /\ UNCHANGED <<marker, active, core, children>>
    /\ UNCHANGED <<current, pending, locals, budget, proven>>

PollOld ==
    /\ at = "pollOld"
    /\ \/ state = "ready" /\ at' = "none" /\ UNCHANGED state
       \/ StopCore("abandon", "none", "stopped")
    /\ UNCHANGED <<disk, core, active, locals, budget, children, proven>>

-----------------------------------------------------------------------------
(* start, and the end of a Supervisor.                                     *)

Fresh ==
    /\ state' = "stopped" /\ core' = NoCore /\ active' = None
    /\ candidate' = None /\ previous' = None
    /\ crashes' = 0 /\ timers' = 0
    /\ life' = [c \in Cores |-> "free"] /\ ready' = {} /\ release' = [c \in Cores |-> None]

\* The lock is acquired; what was left unfinished is recovered first.
Start ==
    /\ at = "down"
    /\ at' = IF marker = NoMarker THEN "load" ELSE "recover"
    /\ Fresh
    /\ UNCHANGED <<disk, proven>>

\* recoverInterruptedUpdate: the pointer first, then the marker.
Recover ==
    /\ at = "recover"
    /\ \/ current' = marker /\ at' = "forget"
       \/ at' = "down" /\ UNCHANGED current
    /\ UNCHANGED <<pending, marker, state, core, active, locals, budget, children, proven>>

Forget ==
    /\ at = "forget"
    /\ \/ marker' = NoMarker /\ at' = "load"
       \/ at' = "down" /\ UNCHANGED marker
    /\ UNCHANGED <<current, pending, state, core, active, locals, budget, children, proven>>

\* The pointer is read and a Core launched, or the start fails and releases the lock.
Load ==
    /\ at = "load"
    /\ \/ at' = "none" /\ active' = current /\ Launch(current)
       \/ at' = "down" /\ UNCHANGED <<active, state, core, children>>
    /\ UNCHANGED <<disk, locals, budget, proven>>

\* kill -9 or power loss at any step.
Killed ==
    /\ at # "down"
    /\ at' = "down"
    /\ Fresh
    /\ UNCHANGED <<disk, proven>>

Init ==
    /\ current \in Manifest /\ pending = None /\ marker = NoMarker
    /\ at = "down" /\ state = "stopped" /\ core = NoCore /\ active = None
    /\ candidate = None /\ previous = None
    /\ crashes = 0 /\ timers = 0
    /\ life = [c \in Cores |-> "free"] /\ ready = {} /\ release = [c \in Cores |-> None]
    /\ proven = {current, None}

\* The steps of an operation under way.
Operation == \/ Read \/ Begin \/ Apply \/ Clear \/ Poll \/ Complete \/ Restore \/ Unmark
             \/ PollOld \/ KillTimesOut \/ Recover \/ Forget \/ Load

Delivery(c) == DeliverReady(c) \/ DeliverExit(c)

Next ==
    \/ Operation \/ Fire \/ Stop \/ Prepare \/ Update \/ Start \/ Killed
    \/ \E c \in Cores : Announce(c) \/ Die(c) \/ Delivery(c)

Spec == Init /\ [][Next]_vars

\* File operations return, deadlines pass, timers fire and events are delivered.  Nothing forces a
\* Core to come up or to die.
FairSpec ==
    Spec /\ WF_vars(Operation) /\ WF_vars(Fire) /\ \A c \in Cores : WF_vars(Delivery(c))

-----------------------------------------------------------------------------
(* Properties.                                                             *)

States == {"stopped", "starting", "ready", "stopping", "stop-failed", "updating", "crashed",
           "crash-loop-stopped"}

\* Type invariant.
TypeOK ==
    /\ current \in Manifest /\ pending \in Manifest /\ marker \in Manifest \cup {NoMarker}
    /\ at \in UpdateSteps \cup BootSteps \cup {"none", "down", "stop"}
    /\ state \in States
    /\ core \in Cores \cup {NoCore}
    /\ active \in Manifest /\ candidate \in Manifest /\ previous \in Manifest
    /\ crashes \in 0..(Backoffs + 1) /\ timers \in 0..MaxTimers
    /\ life \in [Cores -> {"free", "booting", "up", "dead"}]
    /\ ready \subseteq Cores
    /\ release \in [Cores -> Manifest]
    /\ proven \subseteq Manifest

Alive == {c \in Cores : life[c] \in {"booting", "up"}}

\* However stops, crashes, restarts and updates interleave, the Supervisor knows every Core it has:
\* at most one, none when it ends in order and its lock is released, none behind a state that says
\* so, and one behind a state that promises it (supervisor.ts:251-253, 346-347).
CoresAccounted ==
    /\ Alive \subseteq {core}
    /\ at = "down" => Alive = {}
    /\ state \in {"stopped", "updating", "crashed", "crash-loop-stopped"} => core = NoCore
    /\ state \in {"starting", "ready"} => core # NoCore

\* Between operations the release in memory is the one on disk, or an update is unfinished and the
\* state says that somebody has to look (supervisor.ts:142-144, 357-368).
UnfinishedUpdateShown ==
    at = "none" => IF marker = NoMarker THEN active = current ELSE state = "stop-failed"

\* The release the root falls back on.
Committed == IF marker = NoMarker THEN current ELSE marker

Ledger == INSTANCE ReleaseLedger WITH committed <- Committed

\* The two pointers and the marker, written one after the other by a process that may be killed in
\* between, implement one release that is only ever replaced by one whose Core came up.
ImplementsReleaseLedger == Ledger!Spec

\* Every operation ends, whatever its Core does, and a crash is followed by a restart, by another
\* operation or by the end of the process.
ServerSettles ==
    /\ at \notin {"none", "down"} ~> at \in {"none", "down"}
    /\ state = "crashed" ~> state # "crashed"

\* What recovery is for: a start never executes a release no Core of which has ever come up
\* (releaseManager.ts:94-97, supervisor.ts:357).
StartsProven == at = "load" => current \in proven
=============================================================================
