------------------------- MODULE Supervisor_proofs -------------------------
(***************************************************************************)
(* Proofs about Supervisor, for every set of releases and of child         *)
(* processes and every crash budget.                                       *)
(*                                                                         *)
(* CInv ties the place of the operation to the reported state and the      *)
(* handle of the Core; it holds however careless the operator is.  Ptrs    *)
(* ties the pointers on disk to the locals of applyUpdate and to what has  *)
(* come up; it needs both assumptions on the operator.                     *)
(***************************************************************************)
EXTENDS Supervisor, TLAPS

\* Where the operation is, and what that says of the state and the handle.
Control ==
    /\ at \in Waits => state = "stopping" /\ core # NoCore
    /\ at \in {"begin", "apply", "clear"} => state = "updating"
    /\ at \in {"restore", "unmark"} =>
           state \notin {"crashed", "starting", "ready"} /\ core = NoCore
    /\ at \in BootSteps \cup {"down"} => state = "stopped"
    /\ at \in {"recover", "forget"} => marker # NoMarker

CInv == TypeOK /\ CoresAccounted /\ Control

\* A launch gives the Supervisor exactly one Core, of the release asked for.
LEMMA LaunchOne ==
    ASSUME CInv, core = NoCore, NEW r \in Manifest, Launch(r)
    PROVE  /\ core' \in Cores /\ core' \notin ready /\ Alive' = {core'}
           /\ life' \in [Cores -> {"free", "booting", "up", "dead"}]
           /\ release' \in [Cores -> Manifest] /\ ready' \subseteq Cores
           /\ state' = "starting"
           /\ release'[core'] = r
           /\ \A c \in ready : release'[c] = release[c]
           /\ ready' = ready
  <1>1. PICK c \in Cores \ (ready \cup {core}) :
            /\ core' = c
            /\ life' = [life EXCEPT ![c] = "booting"]
            /\ release' = [release EXCEPT ![c] = r]
            /\ state' = "starting"
            /\ UNCHANGED ready
    BY DEF Launch
  <1>2. Alive = {}
    BY SupervisorAssumption DEF CInv, CoresAccounted, Alive
  <1>3. \A d \in Cores : d # c => life'[d] = life[d]
    BY <1>1 DEF CInv, TypeOK
  <1>4. life'[c] = "booting"
    BY <1>1 DEF CInv, TypeOK
  <1>5. Alive' = {c}
    BY <1>2, <1>3, <1>4 DEF Alive
  <1>6. QED
    BY <1>1, <1>5 DEF CInv, TypeOK

\* The steps that change neither the children nor who they are.
LEMMA QuietAlive == ASSUME UNCHANGED life PROVE Alive' = Alive
  BY DEF Alive

LEMMA CInvInit == Init => CInv
  <1> SUFFICES ASSUME Init PROVE CInv
    OBVIOUS
  <1> USE SupervisorAssumption DEF Init
  <1>1. TypeOK
    BY DEF TypeOK, Manifest, States
  <1>2. Alive = {}
    BY DEF Alive
  <1>3. CoresAccounted /\ Control
    BY <1>2 DEF CoresAccounted, Control, Waits, BootSteps
  <1>4. QED
    BY <1>1, <1>3 DEF CInv

-----------------------------------------------------------------------------
(* The steps in which a Core or its events are involved.                   *)

LEMMA AnnounceCInv == ASSUME CInv, NEW c \in Cores, Announce(c) PROVE CInv'
  <1> USE DEF CInv
  <1>1. Alive' = Alive
    BY DEF Announce, Alive, TypeOK
  <1>2. TypeOK'
    BY DEF Announce, TypeOK, disk, locals, budget
  <1>3. CoresAccounted' /\ Control'
    BY <1>1 DEF Announce, CoresAccounted, Control, disk
  <1>4. QED
    BY <1>2, <1>3

LEMMA DieCInv == ASSUME CInv, NEW c \in Cores, Die(c) PROVE CInv'
  <1> USE DEF CInv
  <1>1. Alive' \subseteq Alive
    BY DEF Die, Alive, TypeOK
  <1>2. TypeOK'
    BY DEF Die, TypeOK, disk, locals, budget
  <1>3. CoresAccounted' /\ Control'
    BY <1>1 DEF Die, CoresAccounted, Control, disk
  <1>4. QED
    BY <1>2, <1>3

LEMMA DeliverReadyCInv == ASSUME CInv, NEW c \in Cores, DeliverReady(c) PROVE CInv'
  <1> USE DEF CInv
  <1>1. Alive' = Alive
    BY QuietAlive DEF DeliverReady
  <1>2. TypeOK'
    BY DEF DeliverReady, TypeOK, States, disk, locals, budget
  <1>3. CoresAccounted'
    BY <1>1 DEF DeliverReady, CoresAccounted
  <1>4. Control'
    BY DEF DeliverReady, Control, Waits, BootSteps, disk
  <1>5. QED
    BY <1>2, <1>3, <1>4

\* What is left behind the wait of stopCore, whichever caller goes on.
LEMMA StoppedControl ==
    ASSUME CInv, Stopped
    PROVE  /\ core' = NoCore
           /\ at' \in {"down", "begin", "restore", "none"}
           /\ at' = "down" => state' = "stopped"
           /\ at' = "begin" => state' = "updating"
           /\ at' = "restore" => state' = "stopping"
           /\ at' = "none" => state' = "stopped"
  BY DEF CInv, Control, Stopped, Waits

LEMMA DeliverExitCInv == ASSUME CInv, NEW c \in Cores, DeliverExit(c) PROVE CInv'
  <1> USE DEF CInv
  <1>1. /\ life[c] = "dead" /\ at # "down" /\ life' = [life EXCEPT ![c] = "free"]
        /\ UNCHANGED <<disk, active, locals, ready, release, proven>>
    BY DEF DeliverExit
  <1>2. Alive' = Alive /\ c \notin Alive
    BY <1>1 DEF Alive, TypeOK
  <1>3. life' \in [Cores -> {"free", "booting", "up", "dead"}]
    BY <1>1 DEF TypeOK
  <1>4. CASE core = c /\ at \in Waits /\ Stopped /\ UNCHANGED budget
    <2>1. Alive = {}
      BY <1>2, <1>4 DEF CoresAccounted
    <2>2. TypeOK'
      BY <1>1, <1>3, <1>4, StoppedControl DEF TypeOK, States, disk, locals, budget, UpdateSteps
    <2>3. CoresAccounted'
      BY <1>2, <1>4, <2>1, StoppedControl DEF CoresAccounted
    <2>4. Control'
      BY <1>4, StoppedControl DEF Control, Waits, BootSteps
    <2>5. QED
      BY <2>2, <2>3, <2>4
  <1>5. CASE core = c /\ at \notin Waits /\ core' = NoCore /\ at' = at
             /\ state' \in {"stop-failed", "crashed", "crash-loop-stopped"}
             /\ crashes' \in 0..(Backoffs + 1) /\ timers' \in 0..MaxTimers
    <2>1. Alive = {}
      BY <1>2, <1>5 DEF CoresAccounted
    <2>2. TypeOK'
      BY <1>1, <1>3, <1>5 DEF TypeOK, States, disk, locals
    <2>3. CoresAccounted'
      BY <1>1, <1>2, <1>5, <2>1 DEF CoresAccounted
    <2>4. at \notin {"begin", "apply", "clear", "restore", "unmark"} \cup BootSteps \cup {"down"}
      BY <1>1, <1>5, SupervisorAssumption DEF Control, CoresAccounted, BootSteps
    <2>5. Control'
      BY <1>5, <2>4 DEF Control, BootSteps
    <2>6. QED
      BY <2>2, <2>3, <2>5
  <1>6. CASE core # c /\ UNCHANGED <<at, state, core, budget>>
    <2>1. TypeOK'
      BY <1>1, <1>3, <1>6 DEF TypeOK, disk, locals, budget
    <2>2. CoresAccounted' /\ Control'
      BY <1>1, <1>2, <1>6 DEF CoresAccounted, Control, disk
    <2>3. QED
      BY <2>1, <2>2
  <1>7. Crashed => /\ state' \in {"crashed", "crash-loop-stopped"}
                   /\ crashes' \in 0..(Backoffs + 1) /\ timers' \in 0..MaxTimers
    BY SupervisorAssumption DEF Crashed, TypeOK
  <1>8. UNCHANGED budget => crashes' \in 0..(Backoffs + 1) /\ timers' \in 0..MaxTimers
    BY DEF budget, TypeOK
  <1>9. \/ core = c /\ at \in Waits /\ Stopped /\ UNCHANGED budget
        \/ core = c /\ at \notin Waits /\ core' = NoCore /\ at' = at
               /\ ((state' = "stop-failed" /\ UNCHANGED budget) \/ Crashed)
        \/ core # c /\ UNCHANGED <<at, state, core, budget>>
    BY DEF DeliverExit
  <1>10. QED
    BY <1>4, <1>5, <1>6, <1>7, <1>8, <1>9

LEMMA FireCInv == ASSUME CInv, Fire PROVE CInv'
  <1> USE DEF CInv
  <1>1. /\ timers > 0 /\ at # "down" /\ timers' = timers - 1
        /\ UNCHANGED <<disk, at, active, locals, crashes, proven>>
    BY DEF Fire
  <1>2. timers' \in 0..MaxTimers
    BY <1>1, SupervisorAssumption DEF TypeOK
  <1>3. CASE state = "crashed"
    <2>1. core = NoCore /\ Launch(active) /\ active \in Manifest
      BY <1>3 DEF Fire, CoresAccounted, TypeOK
    <2>2. TypeOK'
      BY <1>1, <1>2, <2>1, LaunchOne DEF TypeOK, States, disk, locals
    <2>3. CoresAccounted'
      BY <1>1, <2>1, LaunchOne, SupervisorAssumption DEF CoresAccounted
    <2>4. Control'
      BY <1>1, <1>3, <2>1, LaunchOne DEF Control, Waits, BootSteps
    <2>5. QED
      BY <2>2, <2>3, <2>4
  <1>4. CASE state # "crashed"
    <2>1. UNCHANGED <<state, core, children>>
      BY <1>4 DEF Fire
    <2>2. TypeOK'
      BY <1>1, <1>2, <2>1 DEF TypeOK, disk, locals, children
    <2>3. Alive' = Alive
      BY <2>1, QuietAlive DEF children
    <2>4. CoresAccounted' /\ Control'
      BY <1>1, <2>1, <2>3 DEF CoresAccounted, Control, disk
    <2>5. QED
      BY <2>2, <2>4
  <1>5. QED
    BY <1>3, <1>4

-----------------------------------------------------------------------------
(* The steps of the operations.                                            *)

\* A step that launches nothing and keeps the handle and the children.
LEMMA QuietCInv ==
    ASSUME CInv, TypeOK', Control', UNCHANGED <<core, life>>,
           at' = "down" => core = NoCore,
           state' \in {"stopped", "updating", "crashed", "crash-loop-stopped"} => core = NoCore,
           state' \in {"starting", "ready"} => core # NoCore
    PROVE  CInv'
  <1>1. Alive' = Alive
    BY QuietAlive
  <1>2. core = NoCore => Alive = {}
    BY SupervisorAssumption DEF CInv, CoresAccounted, Alive
  <1>3. CoresAccounted'
    BY <1>1, <1>2 DEF CInv, CoresAccounted
  <1>4. QED
    BY <1>3 DEF CInv

LEMMA StopCInv == ASSUME CInv, Stop \/ KillTimesOut \/ Prepare \/ Update \/ Read PROVE CInv'
  <1> USE DEF CInv
  <1>1. TypeOK'
    BY DEF Stop, KillTimesOut, Prepare, Update, Read, StopCore, TypeOK, States, Waits, UpdateSteps,
           disk, locals, budget, children
  <1>2. Control'
    BY DEF Stop, KillTimesOut, Prepare, Update, Read, StopCore, Control, CoresAccounted, Waits,
           BootSteps
  <1>3. UNCHANGED <<core, life>>
    BY DEF Stop, KillTimesOut, Prepare, Update, Read, children
  <1>4. /\ at' = "down" => core = NoCore
        /\ state' \in {"stopped", "updating", "crashed", "crash-loop-stopped"} => core = NoCore
        /\ state' \in {"starting", "ready"} => core # NoCore
    BY DEF Stop, KillTimesOut, Prepare, Update, Read, StopCore, CoresAccounted, Control, BootSteps
  <1>5. QED
    BY <1>1, <1>2, <1>3, <1>4, QuietCInv

LEMMA WriteCInv ==
    ASSUME CInv, Begin \/ Apply \/ Poll \/ Complete \/ Restore \/ PollOld PROVE CInv'
  <1> USE DEF CInv
  <1>1. TypeOK'
    <2>1. /\ at' \in UpdateSteps \cup BootSteps \cup {"none", "down", "stop"}
          /\ state' \in States
          /\ current' \in Manifest /\ marker' \in Manifest \cup {NoMarker}
      BY DEF Begin, Apply, Poll, Complete, Restore, PollOld, StopCore, RollBack, TypeOK, States,
             UpdateSteps, disk
    <2>2. UNCHANGED <<pending, core, active, locals, budget, children, proven>>
      BY DEF Begin, Apply, Poll, Complete, Restore, PollOld, disk
    <2>3. QED
      BY <2>1, <2>2 DEF TypeOK, locals, budget, children
  <1>2. Control'
    BY DEF Begin, Apply, Poll, Complete, Restore, PollOld, StopCore, RollBack, Control,
           CoresAccounted, Waits, BootSteps
  <1>3. UNCHANGED <<core, life>>
    BY DEF Begin, Apply, Poll, Complete, Restore, PollOld, children
  <1>4. /\ at' = "down" => core = NoCore
        /\ state' \in {"stopped", "updating", "crashed", "crash-loop-stopped"} => core = NoCore
        /\ state' \in {"starting", "ready"} => core # NoCore
    BY DEF Begin, Apply, Poll, Complete, Restore, PollOld, StopCore, RollBack, CoresAccounted
  <1>5. QED
    BY <1>1, <1>2, <1>3, <1>4, QuietCInv

\* The three launches of an operation: of the candidate, of the previous release, at the start.
LEMMA LaunchCInv ==
    ASSUME CInv, NEW r \in Manifest, core = NoCore, Launch(r), at' \in {"poll", "pollOld", "none"},
           current' \in Manifest, pending' \in Manifest, marker' \in Manifest \cup {NoMarker},
           active' \in Manifest, UNCHANGED <<locals, budget, proven>>
    PROVE  CInv'
  <1>1. TypeOK'
    BY LaunchOne DEF CInv, TypeOK, States, UpdateSteps, locals, budget
  <1>2. CoresAccounted'
    BY LaunchOne, SupervisorAssumption DEF CoresAccounted
  <1>3. Control'
    BY LaunchOne DEF Control, Waits, BootSteps
  <1>4. QED
    BY <1>1, <1>2, <1>3 DEF CInv

LEMMA ClearCInv == ASSUME CInv, Clear PROVE CInv'
  <1> USE DEF CInv
  <1>1. core = NoCore /\ at = "clear" /\ state = "updating"
    BY DEF Clear, Control, CoresAccounted
  <1>2. CASE pending' = None /\ active' = candidate /\ Launch(candidate) /\ at' = "poll"
    BY <1>1, <1>2, LaunchCInv DEF Clear, TypeOK, Manifest
  <1>3. CASE RollBack /\ UNCHANGED <<pending, active, core, children>>
    <2>1. at' = "restore" /\ state' = "updating"
      BY <1>1, <1>3 DEF RollBack, StopCore
    <2>2. TypeOK'
      BY <1>3, <2>1 DEF Clear, TypeOK, UpdateSteps, States, locals, budget, children
    <2>3. Control'
      BY <1>1, <1>3, <2>1 DEF Control, Waits, BootSteps
    <2>4. QED
      BY <1>1, <1>3, <2>1, <2>2, <2>3, QuietCInv DEF children
  <1>4. QED
    BY <1>2, <1>3 DEF Clear

LEMMA UnmarkCInv == ASSUME CInv, Unmark PROVE CInv'
  <1> USE DEF CInv
  <1>1. core = NoCore /\ at = "unmark"
    BY DEF Unmark, Control
  <1>2. CASE marker' = NoMarker /\ active' = previous /\ Launch(previous) /\ at' = "pollOld"
    BY <1>1, <1>2, LaunchCInv DEF Unmark, TypeOK
  <1>3. CASE /\ at' = "none" /\ state' \in {"stopped", "stop-failed"}
             /\ marker' \in {marker, NoMarker} /\ active' \in {active, previous}
             /\ UNCHANGED <<core, children>>
    <2>1. TypeOK'
      BY <1>3 DEF Unmark, TypeOK, States, locals, budget, children
    <2>2. Control'
      BY <1>3 DEF Control, Waits, BootSteps
    <2>3. QED
      BY <1>1, <1>3, <2>1, <2>2, QuietCInv DEF children
  <1>4. QED
    BY <1>2, <1>3 DEF Unmark

LEMMA LoadCInv == ASSUME CInv, Load PROVE CInv'
  <1> USE DEF CInv
  <1>1. core = NoCore /\ at = "load" /\ state = "stopped"
    BY DEF Load, Control, CoresAccounted, BootSteps
  <1>2. CASE at' = "none" /\ active' = current /\ Launch(current)
    BY <1>1, <1>2, LaunchCInv DEF Load, TypeOK, disk
  <1>3. CASE at' = "down" /\ UNCHANGED <<active, state, core, children>>
    <2>1. TypeOK'
      BY <1>3 DEF Load, TypeOK, disk, locals, budget, children
    <2>2. Control'
      BY <1>1, <1>3 DEF Control, Waits, BootSteps
    <2>3. QED
      BY <1>1, <1>3, <2>1, <2>2, QuietCInv DEF children
  <1>4. QED
    BY <1>2, <1>3 DEF Load

LEMMA RecoverCInv == ASSUME CInv, Recover \/ Forget PROVE CInv'
  <1> USE DEF CInv
  <1>1. core = NoCore /\ state = "stopped"
    BY DEF Recover, Forget, Control, CoresAccounted, BootSteps
  <1>2. TypeOK'
    <2>1. current' \in Manifest
      BY DEF Recover, Forget, Control, TypeOK
    <2>2. /\ at' \in {"forget", "load", "down"} /\ marker' \in Manifest \cup {NoMarker}
          /\ UNCHANGED <<pending, state, core, active, locals, budget, children, proven>>
      BY DEF Recover, Forget, TypeOK
    <2>3. QED
      BY <2>1, <2>2 DEF TypeOK, BootSteps, locals, budget, children
  <1>3. Control'
    BY <1>1 DEF Recover, Forget, Control, Waits, BootSteps
  <1>4. QED
    BY <1>1, <1>2, <1>3, QuietCInv DEF Recover, Forget, children

LEMMA FreshCInv == ASSUME CInv, Start \/ Killed PROVE CInv'
  <1> USE DEF CInv
  <1>1. Fresh /\ UNCHANGED <<disk, proven>> /\ at' \in {"load", "recover", "down"}
    BY DEF Start, Killed
  <1>2. TypeOK'
    BY <1>1, SupervisorAssumption
    DEF Fresh, TypeOK, States, BootSteps, Manifest, disk
  <1>3. Alive' = {}
    BY <1>1 DEF Fresh, Alive
  <1>4. CoresAccounted' /\ Control'
    BY <1>1, <1>3 DEF Start, Killed, Fresh, CoresAccounted, Control, Waits, BootSteps, disk
  <1>5. QED
    BY <1>2, <1>4

-----------------------------------------------------------------------------
(* What holds of every Supervisor.                                         *)

LEMMA CInvStep == ASSUME CInv, [Next]_vars PROVE CInv'
  <1>1. CASE Operation
    BY <1>1, StopCInv, WriteCInv, ClearCInv, UnmarkCInv, LoadCInv, RecoverCInv DEF Operation
  <1>2. CASE Fire \/ Stop \/ Prepare \/ Update \/ Start \/ Killed
    BY <1>2, FireCInv, StopCInv, FreshCInv
  <1>3. CASE \E c \in Cores : Announce(c) \/ Die(c) \/ Delivery(c)
    BY <1>3, AnnounceCInv, DieCInv, DeliverReadyCInv, DeliverExitCInv DEF Delivery
  <1>4. CASE UNCHANGED vars
    <2>1. Alive' = Alive
      BY <1>4, QuietAlive DEF vars, children
    <2>2. TypeOK' /\ CoresAccounted' /\ Control'
      BY <1>4, <2>1
      DEF CInv, TypeOK, CoresAccounted, Control, vars, disk, locals, budget, children
    <2>3. QED
      BY <2>2 DEF CInv
  <1>5. QED
    BY <1>1, <1>2, <1>3, <1>4 DEF Next

LEMMA CInvAlways == Spec => []CInv
  BY CInvInit, CInvStep, PTL DEF Spec

\* The variables keep their types, whatever the order of crashes, stops and updates.
THEOREM SupervisorTypeCorrect == Spec => []TypeOK
  BY CInvAlways, PTL DEF CInv

\* The Supervisor knows every Core it has (the at most one of supervisor.ts:346-347), and has none
\* when it releases its lock after a stop (supervisor.ts:251-253).
THEOREM CoresAreAccounted == Spec => []CoresAccounted
  BY CInvAlways, PTL DEF CInv

-----------------------------------------------------------------------------
(* The pointers, the locals of applyUpdate and the evidence that a release *)
(* works, under a careful operator whose commands hold update.lock.        *)

Pointers ==
    /\ at \in {"read", "replace", "begin", "pollOld", "abandon"} =>
           marker = NoMarker /\ active = current
    /\ at \in {"replace", "begin"} => previous = current
    /\ at \in {"replace", "begin", "apply"} => pending = candidate
    /\ at \in {"apply", "clear", "poll", "complete"} => marker = previous
    /\ at \in {"clear", "poll", "complete"} => current = candidate
    /\ at \in {"poll", "complete"} => active = candidate
    /\ at \in {"withdraw", "restore"} =>
           marker = previous \/ (marker = NoMarker /\ current = previous /\ active = current)
    /\ at = "unmark" =>
           current = previous /\ (marker = previous \/ (marker = NoMarker /\ active = current))
    /\ at = "stop" /\ marker = NoMarker => active = current
    /\ at = "forget" => current = marker
    /\ at = "load" => marker = NoMarker

Evidence ==
    /\ \A c \in ready : release[c] \in proven
    /\ state \in {"starting", "ready"} => release[core] = active
    /\ state = "ready" => active \in proven
    /\ at = "complete" => current \in proven

PInv == Pointers /\ UnfinishedUpdateShown /\ Evidence

LEMMA PInvInit == Init => PInv
  BY DEF Init, PInv, Pointers, UnfinishedUpdateShown, Evidence

\* What a launch leaves of the evidence, when the release launched is the one kept in memory.
LEMMA LaunchEvidence ==
    ASSUME CInv, Evidence, NEW r \in Manifest, core = NoCore, Launch(r), active' = r,
           at' # "complete", UNCHANGED proven
    PROVE  Evidence'
  BY LaunchOne DEF Evidence

LEMMA AnnouncePInv == ASSUME CInv, PInv, NEW c \in Cores, Announce(c) PROVE PInv'
  BY DEF PInv, Announce, Pointers, UnfinishedUpdateShown, Evidence, disk, locals

LEMMA DiePInv == ASSUME CInv, PInv, NEW c \in Cores, Die(c) PROVE PInv'
  BY DEF PInv, Die, Pointers, UnfinishedUpdateShown, Evidence, disk, locals

LEMMA DeliverReadyPInv == ASSUME CInv, PInv, NEW c \in Cores, DeliverReady(c) PROVE PInv'
  BY DEF PInv, DeliverReady, Pointers, UnfinishedUpdateShown, Evidence, disk, locals

LEMMA DeliverExitPInv == ASSUME CInv, PInv, NEW c \in Cores, DeliverExit(c) PROVE PInv'
  <1> USE DEF PInv
  <1>1. UNCHANGED <<current, pending, marker, active, candidate, previous, ready, release, proven>>
    BY DEF DeliverExit, disk, locals
  <1>2. CASE core = c /\ at \in Waits /\ Stopped
    <2>1. Pointers'
      BY <1>1, <1>2 DEF Pointers, Stopped, Waits
    <2>2. UnfinishedUpdateShown'
      BY <1>1, <1>2 DEF Pointers, UnfinishedUpdateShown, Stopped, Waits
    <2>3. Evidence'
      BY <1>1, <1>2 DEF Evidence, Stopped, Waits, CInv, Control
    <2>4. QED
      BY <2>1, <2>2, <2>3
  <1>3. CASE /\ at' = at /\ core' = NoCore
             /\ state' \in {"crashed", "crash-loop-stopped"} /\ state # "stop-failed"
    BY <1>1, <1>3 DEF Pointers, UnfinishedUpdateShown, Evidence
  <1>4. CASE UNCHANGED <<at, state>> /\ (core' = core \/ state = "stop-failed")
    BY <1>1, <1>4 DEF Pointers, UnfinishedUpdateShown, Evidence
  <1>5. QED
    BY <1>2, <1>3, <1>4 DEF DeliverExit, Crashed

LEMMA FirePInv == ASSUME CInv, PInv, Fire PROVE PInv'
  <1> USE DEF PInv
  <1>1. UNCHANGED <<current, pending, marker, at, active, candidate, previous, proven>>
    BY DEF Fire, disk, locals
  <1>2. CASE state = "crashed"
    <2>1. core = NoCore /\ Launch(active) /\ active \in Manifest /\ state' = "starting"
      BY <1>2 DEF Fire, Launch, CInv, CoresAccounted, TypeOK
    <2>2. Pointers' /\ UnfinishedUpdateShown'
      BY <1>1, <1>2 DEF Pointers, UnfinishedUpdateShown
    <2>3. Evidence'
      BY <1>1, <2>1, LaunchOne DEF Evidence
    <2>4. QED
      BY <2>2, <2>3
  <1>3. CASE state # "crashed"
    BY <1>1, <1>3 DEF Fire, children, Pointers, UnfinishedUpdateShown, Evidence
  <1>4. QED
    BY <1>2, <1>3

LEMMA PreparePInv == ASSUME CInv, PInv, Locked, Prepare PROVE PInv'
  BY DEF PInv, Prepare, Pointers, UnfinishedUpdateShown, Evidence, UpdateSteps, locals, children

LEMMA StopPInv == ASSUME CInv, PInv, Stop PROVE PInv'
  BY DEF PInv, Stop, StopCore, Pointers, UnfinishedUpdateShown, Evidence, disk, locals, children

LEMMA KillTimesOutPInv == ASSUME CInv, PInv, KillTimesOut PROVE PInv'
  BY SupervisorAssumption
  DEF PInv, CInv, TypeOK, KillTimesOut, Waits, Pointers, UnfinishedUpdateShown, Evidence, disk, locals, children

LEMMA UpdatePInv == ASSUME CInv, PInv, Careful, Update PROVE PInv'
  BY DEF PInv, Update, Pointers, UnfinishedUpdateShown, Evidence, disk, locals, children

LEMMA ReadPInv == ASSUME CInv, PInv, Read PROVE PInv'
  BY DEF PInv, Read, StopCore, Pointers, UnfinishedUpdateShown, Evidence, disk, children

LEMMA WritePInv ==
    ASSUME CInv, PInv, Begin \/ Apply \/ Poll \/ Complete \/ Restore \/ PollOld PROVE PInv'
  <1> USE DEF PInv, disk, locals, children
  <1>1. CASE Begin
    BY <1>1, SupervisorAssumption
    DEF Begin, RollBack, StopCore, Pointers, UnfinishedUpdateShown, Evidence
  <1>2. CASE Apply
    BY <1>2 DEF Apply, RollBack, StopCore, Pointers, UnfinishedUpdateShown, Evidence
  <1>3. CASE Poll
    BY <1>3 DEF Poll, RollBack, StopCore, Pointers, UnfinishedUpdateShown, Evidence
  <1>4. CASE Complete
    BY <1>4 DEF Complete, RollBack, StopCore, Pointers, UnfinishedUpdateShown, Evidence
  <1>5. CASE Restore
    BY <1>5, SupervisorAssumption
    DEF Restore, Pointers, UnfinishedUpdateShown, Evidence, CInv, Control, TypeOK
  <1>6. CASE PollOld
    BY <1>6 DEF PollOld, StopCore, Pointers, UnfinishedUpdateShown, Evidence
  <1>7. QED
    BY <1>1, <1>2, <1>3, <1>4, <1>5, <1>6

LEMMA ClearPInv == ASSUME CInv, PInv, Clear PROVE PInv'
  <1> USE DEF PInv, locals
  <1>1. at = "clear" /\ core = NoCore /\ state = "updating"
    BY DEF Clear, CInv, Control, CoresAccounted
  <1>2. CASE active' = candidate /\ Launch(candidate) /\ at' = "poll"
    <2>1. Pointers' /\ UnfinishedUpdateShown'
      BY <1>1, <1>2 DEF Clear, Pointers, UnfinishedUpdateShown
    <2>2. candidate \in Manifest
      BY DEF CInv, TypeOK
    <2>3. Evidence'
      BY <1>1, <1>2, <2>2, LaunchEvidence DEF Clear
    <2>4. QED
      BY <2>1, <2>3
  <1>3. CASE RollBack /\ UNCHANGED <<pending, active, core, children>>
    BY <1>1, <1>3
    DEF Clear, RollBack, StopCore, Pointers, UnfinishedUpdateShown, Evidence, children
  <1>4. QED
    BY <1>2, <1>3 DEF Clear

LEMMA UnmarkPInv == ASSUME CInv, PInv, Unmark PROVE PInv'
  <1> USE DEF PInv, locals
  <1>1. at = "unmark" /\ core = NoCore
    BY DEF Unmark, CInv, Control
  <1>2. CASE /\ marker' = NoMarker /\ active' = previous
             /\ Launch(previous) /\ at' = "pollOld"
    <2>1. Pointers' /\ UnfinishedUpdateShown'
      BY <1>1, <1>2 DEF Unmark, Pointers, UnfinishedUpdateShown
    <2>2. previous \in Manifest
      BY DEF CInv, TypeOK
    <2>3. Evidence'
      BY <1>1, <1>2, <2>2, LaunchEvidence DEF Unmark
    <2>4. QED
      BY <2>1, <2>3
  <1>3. CASE /\ at' = "none" /\ UNCHANGED <<core, children>>
             /\ \/ marker' = NoMarker /\ active' = previous /\ state' = "stopped"
                \/ UNCHANGED <<marker, active>> /\ state' = "stop-failed"
    BY <1>1, <1>3, SupervisorAssumption
    DEF Unmark, Pointers, UnfinishedUpdateShown, Evidence, children, CInv, TypeOK
  <1>4. QED
    BY <1>2, <1>3 DEF Unmark

LEMMA BootPInv ==
    ASSUME CInv, PInv, Start \/ Killed \/ Recover \/ Forget \/ Load PROVE PInv'
  <1> USE DEF PInv, disk, locals, children
  <1>1. CASE Start \/ Killed
    BY <1>1 DEF Start, Killed, Fresh, Pointers, UnfinishedUpdateShown, Evidence
  <1>2. CASE Recover \/ Forget
    BY <1>2 DEF Recover, Forget, Pointers, UnfinishedUpdateShown, Evidence
  <1>3. CASE Load /\ at' = "none" /\ active' = current /\ Launch(current)
    <2>1. core = NoCore
      BY <1>3 DEF Load, CInv, Control, CoresAccounted, BootSteps
    <2>2. Pointers' /\ UnfinishedUpdateShown'
      BY <1>3 DEF Load, Pointers, UnfinishedUpdateShown
    <2>3. current \in Manifest
      BY DEF CInv, TypeOK
    <2>4. Evidence'
      BY <1>3, <2>1, <2>3, LaunchEvidence DEF Load
    <2>5. QED
      BY <2>2, <2>4
  <1>4. CASE Load /\ at' = "down" /\ UNCHANGED <<active, state, core, children>>
    BY <1>4 DEF Load, Pointers, UnfinishedUpdateShown, Evidence
  <1>5. QED
    BY <1>1, <1>2, <1>3, <1>4 DEF Load

LEMMA PInvStep == ASSUME CInv, PInv, Careful, Locked, [Next]_vars PROVE PInv'
  <1>1. CASE Operation
    BY <1>1, ReadPInv, WritePInv, ClearPInv, UnmarkPInv, KillTimesOutPInv, BootPInv DEF Operation
  <1>2. CASE Fire \/ Stop \/ Prepare \/ Update \/ Start \/ Killed
    BY <1>2, FirePInv, StopPInv, PreparePInv, UpdatePInv, BootPInv
  <1>3. CASE \E c \in Cores : Announce(c) \/ Die(c) \/ Delivery(c)
    BY <1>3, AnnouncePInv, DiePInv, DeliverReadyPInv, DeliverExitPInv DEF Delivery
  <1>4. CASE UNCHANGED vars
    BY <1>4
    DEF PInv, Pointers, UnfinishedUpdateShown, Evidence, vars, disk, locals, children
  <1>5. QED
    BY <1>1, <1>2, <1>3, <1>4 DEF Next

\* Memory and disk name the same release between operations, or the state is stop-failed and the
\* marker waits for a start (supervisor.ts:142-144, 357-368).
THEOREM MemoryFollowsDisk == ASSUME Careful, Locked PROVE Spec => []UnfinishedUpdateShown
  <1>1. CInv /\ PInv /\ [Next]_vars => PInv'
    BY PInvStep
  <1>2. PInv => UnfinishedUpdateShown
    BY DEF PInv
  <1>3. QED
    BY <1>1, <1>2, PInvInit, CInvAlways, PTL DEF Spec

-----------------------------------------------------------------------------
(* The refinement.                                                         *)

LEMMA LedgerInit == Init => Ledger!Init
  BY DEF Init, Ledger!Init, Committed, Manifest

\* The one step that changes the release to fall back on, and the one that proves a release.
LEMMA CompleteCommits == ASSUME CInv, PInv, Complete PROVE [Ledger!Next]_(Ledger!vars)
  <1>1. CASE marker' = NoMarker
    <2>1. Committed' = current /\ current \in proven /\ current \in Manifest
      BY <1>1 DEF Complete, Committed, PInv, Evidence, CInv, TypeOK
    <2>2. Ledger!Commit(current)
      BY <2>1 DEF Complete, Ledger!Commit
    <2>3. QED
      BY <2>1, <2>2 DEF Ledger!Next, Manifest
  <1>2. CASE UNCHANGED marker
    BY <1>2 DEF Complete, Committed, Ledger!vars
  <1>3. QED
    BY <1>1, <1>2 DEF Complete

LEMMA AnnounceProves ==
    ASSUME CInv, NEW c \in Cores, Announce(c) PROVE [Ledger!Next]_(Ledger!vars)
  <1>1. release[c] \in Release \cup {None}
    BY DEF CInv, TypeOK, Manifest
  <1>2. Ledger!Prove(release[c])
    BY DEF Announce, disk, Committed, Ledger!Prove
  <1>3. QED
    BY <1>1, <1>2 DEF Ledger!Next

\* The marker is written, put into force and removed without moving the release to fall back on.
LEMMA LedgerStutters ==
    ASSUME CInv, PInv,
           \/ Begin \/ Apply \/ Clear \/ Restore \/ Unmark \/ Recover \/ Forget
           \/ Read \/ Poll \/ PollOld \/ KillTimesOut \/ Load
    PROVE  UNCHANGED Ledger!vars
  <1>1. proven' = proven
    BY DEF Begin, Apply, Clear, Restore, Unmark, Recover, Forget, Read, Poll, PollOld,
           KillTimesOut, Load
  <1>2. Committed' = Committed
    <2> USE SupervisorAssumption DEF PInv, Pointers, CInv, TypeOK, Committed
    <2>1. CASE Begin
      BY <2>1 DEF Begin
    <2>2. CASE Apply \/ Clear
      BY <2>2 DEF Apply, Clear
    <2>3. CASE Restore
      BY <2>3 DEF Restore
    <2>4. CASE Unmark
      BY <2>4 DEF Unmark
    <2>5. CASE Recover \/ Forget
      BY <2>5 DEF Recover, Forget, Control
    <2>6. CASE Read \/ Poll \/ PollOld \/ KillTimesOut \/ Load
      BY <2>6 DEF Read, Poll, PollOld, KillTimesOut, Load, disk
    <2>7. QED
      BY <2>1, <2>2, <2>3, <2>4, <2>5, <2>6
  <1>3. QED
    BY <1>1, <1>2 DEF Ledger!vars

LEMMA LedgerStep == ASSUME CInv, PInv, [Next]_vars PROVE [Ledger!Next]_(Ledger!vars)
  <1>1. CASE Operation
    BY <1>1, CompleteCommits, LedgerStutters DEF Operation
  <1>2. CASE Fire \/ Stop \/ Prepare \/ Update \/ Start \/ Killed \/ UNCHANGED vars
    BY <1>2 DEF Fire, Stop, Prepare, Update, Start, Killed, vars, disk, Committed, Ledger!vars
  <1>3. CASE \E c \in Cores : Announce(c) \/ Die(c) \/ Delivery(c)
    <2>1. PICK c \in Cores : Announce(c) \/ Die(c) \/ Delivery(c)
      BY <1>3
    <2>2. CASE Announce(c)
      BY <2>2, AnnounceProves
    <2>3. CASE Die(c) \/ Delivery(c)
      BY <2>3 DEF Die, Delivery, DeliverReady, DeliverExit, disk, Committed, Ledger!vars
    <2>4. QED
      BY <2>1, <2>2, <2>3
  <1>4. QED
    BY <1>1, <1>2, <1>3 DEF Next

\* The Supervisor with its two pointers, its marker, its kills and its failing file operations
\* implements one release that is replaced only by one whose Core came up.
THEOREM SupervisorImplementsLedger ==
    ASSUME Careful, Locked PROVE Spec => ImplementsReleaseLedger
  <1>1. CInv /\ PInv /\ [Next]_vars => PInv'
    BY PInvStep
  <1>2. CInv /\ PInv /\ [Next]_vars => [Ledger!Next]_(Ledger!vars)
    BY LedgerStep
  <1>3. QED
    BY <1>1, <1>2, PInvInit, LedgerInit, CInvAlways, PTL
    DEF Spec, ImplementsReleaseLedger, Ledger!Spec

\* Under the same assumptions, and only under them, a start executes nothing that has never come up
\* (releaseManager.ts:94-97).
THEOREM StartsAreProven == ASSUME Careful, Locked PROVE Spec => []StartsProven
  <1> DEFINE Backed == Committed \in proven
  <1>1. Init => Backed
    BY DEF Init, Committed
  <1>2. Backed /\ [Ledger!Next]_(Ledger!vars) => Backed'
    BY DEF Ledger!Next, Ledger!Prove, Ledger!Commit, Ledger!vars
  <1>3. CInv /\ PInv /\ [Next]_vars => PInv' /\ [Ledger!Next]_(Ledger!vars)
    BY PInvStep, LedgerStep
  <1>4. PInv /\ Backed => StartsProven
    BY DEF PInv, Pointers, StartsProven, Committed
  <1>5. QED
    <2>1. CInv /\ PInv /\ Backed /\ [Next]_vars => PInv' /\ Backed'
      BY <1>2, <1>3
    <2> HIDE DEF Backed
    <2>2. QED
      BY <1>1, <1>4, <2>1, PInvInit, CInvAlways, PTL DEF Spec
=============================================================================
