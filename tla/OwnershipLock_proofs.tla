------------------------ MODULE OwnershipLock_proofs ------------------------
(***************************************************************************)
(* Proofs about OwnershipLock, for any number of processes, any bound on   *)
(* their attempts and whatever the dead have left behind.                  *)
(*                                                                         *)
(* That two processes exclude each other is not a theorem, because it is   *)
(* not true, and neither is that a claim spares every lock in use (see the *)
(* README).  What is proved is which losses there are.  Nobody removes the *)
(* lock of a live process upon a record it has observed: the record named  *)
(* a dead process, the dead stay so, and the comparison tells a latecomer. *)
(*                                                                         *)
(* Two theorems say what is safe in two liveness properties: a process     *)
(* left alone is not turned away, and an owner that has lost its lock      *)
(* keeps finding it lost.                                                  *)
(***************************************************************************)
EXTENDS OwnershipLock, TLAPS

\* What a claim is made upon, and that nothing is left of the dead.
Justified ==
    /\ \A p \in Process : pc[p] \in {"claim", "settle", "discard"} =>
           seen[p] = Blank \/ seen[p][1] = p \/ ~Alive(seen[p][1])
    /\ \A p \in Process : pc[p] \in {"gone", "killed"} => after[p] = "retry" /\ ~inside[p]

LInv == TypeOK /\ Justified

LEMMA OwnFiles == ASSUME TypeOK, NEW p \in Process PROVE LockOf(p) \in Inode /\ GateOf(p) \in Inode
  BY DEF TypeOK, LockOf, GateOf, Inode

LEMMA RetryType ==
    ASSUME TypeOK, NEW p \in Process, Retry(p)
    PROVE  /\ pc' \in [Process -> Stages] /\ attempt' \in [Process -> Nat]
           /\ \A q \in Process : attempt'[q] <= Attempts[q]
           /\ \A q \in Process \ {p} : pc'[q] = pc[q]
           /\ pc'[p] \in {"observe", "denied"}
  BY LockAssumption DEF TypeOK, Retry, Stages

LEMMA RawType == ASSUME NEW f \in Inode PROVE Raw(f) \in Inode \cup {Blank}
  BY DEF Raw

LEMMA LInvInit == Init => LInv
  BY LockAssumption DEF Init, LInv, TypeOK, Justified, Inode, Path, Stages

-----------------------------------------------------------------------------
(* Types.                                                                  *)

LEMMA AcquireType ==
    ASSUME TypeOK, NEW p \in Process,
           Create(p) \/ Write(p) \/ WriteFails(p) \/ Observe(p) \/ Judge(p)
    PROVE  TypeOK'
  <1> USE DEF Path, Stages
  <1>1. CASE Create(p)
    BY <1>1, OwnFiles, RetryType DEF Create, LeaveGate, TypeOK
  <1>2. CASE Write(p)
    BY <1>2, OwnFiles DEF Write, LeaveGate, TypeOK
  <1>3. CASE WriteFails(p)
    BY <1>3 DEF WriteFails, LeaveGate, TypeOK
  <1>4. CASE Observe(p)
    BY <1>4, RawType DEF Observe, ReadsNothing, TypeOK
  <1>5. CASE Judge(p)
    BY <1>5 DEF Judge, LeaveGate, KeepsForClaim, TypeOK
  <1>6. QED
    BY <1>1, <1>2, <1>3, <1>4, <1>5

LEMMA GateType ==
    ASSUME TypeOK, NEW p \in Process,
           Enter(p) \/ WriteGate(p) \/ PeekGate(p) \/ JudgeGate(p)
    PROVE  TypeOK'
  <1> USE DEF Path, Stages
  <1>1. CASE Enter(p)
    BY <1>1, OwnFiles DEF Enter, TypeOK
  <1>2. CASE WriteGate(p)
    BY <1>2, OwnFiles DEF WriteGate, TypeOK
  <1>3. CASE PeekGate(p)
    BY <1>3, RetryType, RawType DEF PeekGate, TypeOK
  <1>4. CASE JudgeGate(p)
    BY <1>4, RetryType DEF JudgeGate, KeepsForClaim, TypeOK
  <1>5. QED
    BY <1>1, <1>2, <1>3, <1>4

LEMMA ClaimType ==
    ASSUME TypeOK, NEW p \in Process, Claim(p) \/ Compare(p) \/ Discard(p) \/ Restore(p)
    PROVE  TypeOK'
  <1> USE LockAssumption DEF Path, Stages
  <1>1. Target(p) \in Path
    BY DEF Target
  <1>2. Claimed(p) =>
            /\ pc' \in [Process -> Stages] /\ attempt' \in [Process -> Nat]
            /\ \A q \in Process : attempt'[q] <= Attempts[q]
            /\ \A q \in Process \ {p} : pc'[q] = pc[q]
            /\ pc'[p] \notin {"settle", "discard", "restore", "dropSettle"}
    BY RetryType DEF Claimed, TypeOK
  <1>3. CASE Claim(p)
    BY <1>1, <1>2, <1>3 DEF Claim, TypeOK
  <1>4. CASE Compare(p)
    BY <1>4 DEF Compare, TypeOK
  <1>5. CASE Discard(p)
    BY <1>2, <1>5 DEF Discard, TypeOK
  <1>6. CASE Restore(p)
    BY <1>1, <1>2, <1>6 DEF Restore, TypeOK
  <1>7. QED
    BY <1>3, <1>4, <1>5, <1>6

LEMMA DropType ==
    ASSUME TypeOK, NEW p \in Process, DropRead(p) \/ DropMove(p) \/ DropSettle(p)
    PROVE  TypeOK'
  <1> USE LockAssumption DEF Path, Stages
  <1>1. Place(p) \in Path
    BY DEF Place
  <1>2. Dropped(p) =>
            /\ pc' \in [Process -> Stages] /\ attempt' \in [Process -> Nat]
            /\ \A q \in Process : attempt'[q] <= Attempts[q]
            /\ \A q \in Process \ {p} : pc'[q] = pc[q]
            /\ pc'[p] \notin {"settle", "discard", "restore", "dropSettle"}
            /\ inside' \in [Process -> BOOLEAN]
            /\ after' \in [Process -> {"retry", "owner", "denied", "failed", "released"}]
    BY RetryType DEF Dropped, TypeOK
  <1>3. CASE DropRead(p)
    BY <1>2, <1>3 DEF DropRead, TypeOK
  <1>4. CASE DropMove(p)
    BY <1>1, <1>2, <1>4 DEF DropMove, TypeOK
  <1>5. CASE DropSettle(p)
    BY <1>1, <1>2, <1>5 DEF DropSettle, TypeOK
  <1>6. QED
    BY <1>3, <1>4, <1>5

LEMMA LifeType ==
    ASSUME TypeOK, NEW p \in Process,
           Release(p) \/ Watch(p) \/ Quiet(p) \/ Wake(p) \/ Exit(p) \/ Kill(p)
    PROVE  TypeOK'
  <1> USE LockAssumption DEF Path, Stages
  <1>1. CASE Release(p) \/ Watch(p) \/ Quiet(p) \/ Wake(p)
    BY <1>1 DEF Release, Watch, Quiet, Wake, TypeOK
  <1>2. CASE Exit(p) \/ Kill(p)
    <2>1. PICK s \in {"gone", "killed"} : Ended(p, s)
      BY <1>2 DEF Exit, Kill
    <2>2. /\ pc' = [pc EXCEPT ![p] = s] /\ attempt' = [attempt EXCEPT ![p] = 0]
          /\ inside' = [inside EXCEPT ![p] = FALSE] /\ seen' = [seen EXCEPT ![p] = Blank]
          /\ moved' = [moved EXCEPT ![p] = NoFile] /\ after' = [after EXCEPT ![p] = "retry"]
          /\ UNCHANGED <<file, written>>
      BY <2>1 DEF Ended
    <2>3. \A q \in Process : attempt'[q] <= Attempts[q]
      BY <2>2 DEF TypeOK
    <2>4. \A q \in Process :
              moved'[q] # NoFile <=> pc'[q] \in {"settle", "discard", "restore", "dropSettle"}
      BY <2>2 DEF TypeOK
    <2>5. QED
      BY <2>2, <2>3, <2>4 DEF TypeOK
  <1>3. QED
    BY <1>1, <1>2

LEMMA StepType == ASSUME TypeOK, NEW p \in Process, Step(p) PROVE TypeOK'
  BY AcquireType, GateType, ClaimType, DropType, LifeType DEF Step, Acquire

-----------------------------------------------------------------------------
(* The dead stay dead, and what was observed of them stays true.           *)

LEMMA OthersKeep ==
    ASSUME TypeOK, NEW p \in Process, Step(p)
    PROVE  \A q \in Process \ {p} :
               /\ pc'[q] = pc[q] /\ seen'[q] = seen[q]
               /\ after'[q] = after[q] /\ inside'[q] = inside[q] /\ moved'[q] = moved[q]
  <1> USE DEF TypeOK
  <1>1. CASE Create(p) \/ Write(p) \/ WriteFails(p) \/ Observe(p) \/ Judge(p)
    BY <1>1 DEF Create, Write, WriteFails, Observe, Judge, KeepsForClaim, LeaveGate, Retry
  <1>2. CASE Enter(p) \/ WriteGate(p) \/ PeekGate(p) \/ JudgeGate(p)
    BY <1>2 DEF Enter, WriteGate, PeekGate, JudgeGate, KeepsForClaim, Retry
  <1>3. CASE Claim(p) \/ Compare(p) \/ Discard(p) \/ Restore(p)
    BY <1>3 DEF Claim, Compare, Discard, Restore, Claimed, Retry
  <1>4. CASE DropRead(p) \/ DropMove(p) \/ DropSettle(p)
    BY <1>4 DEF DropRead, DropMove, DropSettle, Dropped, Retry
  <1>5. CASE Release(p) \/ Watch(p) \/ Quiet(p) \/ Wake(p) \/ Exit(p) \/ Kill(p)
    BY <1>5 DEF Release, Watch, Quiet, Wake, Exit, Kill, Ended
  <1>6. QED
    BY <1>1, <1>2, <1>3, <1>4, <1>5 DEF Step, Acquire

\* A process that takes a step is alive.
LEMMA StepAlive == ASSUME TypeOK, NEW p \in Process, Step(p) PROVE Alive(p)
  BY DEF Step, Acquire, Create, Write, WriteFails, Observe, Judge, Enter, WriteGate, PeekGate,
         JudgeGate, Claim, Compare, Discard, Restore, DropRead, DropMove, DropSettle, Release,
         Watch, Quiet, Wake, Exit, Kill, Through, Alive

LEMMA DeadStay ==
    ASSUME TypeOK, NEW p \in Process, Step(p), NEW q, ~Alive(q)
    PROVE  ~(q \in Process /\ pc'[q] \notin {"gone", "killed"})
  BY OthersKeep, StepAlive DEF Alive

\* p goes to claim only upon a judgement it has just made.
LEMMA ClaimJustified ==
    ASSUME LInv, NEW p \in Process, Step(p), pc'[p] \in {"claim", "settle", "discard"}
    PROVE  seen'[p] = Blank \/ seen'[p][1] = p \/ ~Alive(seen'[p][1])
  <1> USE DEF LInv, TypeOK
  <1>1. CASE Judge(p) \/ JudgeGate(p)
    <2>1. ~HolderAlive(p, seen[p]) /\ seen'[p] = seen[p]
      BY <1>1 DEF Judge, JudgeGate, KeepsForClaim, LeaveGate, Retry
    <2>2. QED
      BY <2>1 DEF HolderAlive
  <1>2. CASE Claim(p) \/ Compare(p)
    BY <1>2 DEF Claim, Compare, Justified
  <1>3. CASE Create(p) \/ Write(p) \/ WriteFails(p) \/ Observe(p) \/ Enter(p) \/ WriteGate(p)
             \/ PeekGate(p)
    BY <1>3
    DEF Create, Write, WriteFails, Observe, Enter, WriteGate, PeekGate, LeaveGate, Retry
  <1>4. CASE Discard(p) \/ Restore(p)
    BY <1>4 DEF Discard, Restore, Claimed, Retry
  <1>5. CASE DropRead(p) \/ DropMove(p) \/ DropSettle(p)
    BY <1>5 DEF DropRead, DropMove, DropSettle, Dropped, Retry
  <1>6. CASE Release(p) \/ Watch(p) \/ Quiet(p) \/ Wake(p) \/ Exit(p) \/ Kill(p)
    BY <1>6 DEF Release, Watch, Quiet, Wake, Exit, Kill, Ended
  <1>7. QED
    BY <1>1, <1>2, <1>3, <1>4, <1>5, <1>6 DEF Step, Acquire

\* Only the end of a process makes it one of the dead.
LEMMA DeadLeaveNothing ==
    ASSUME LInv, NEW p \in Process, Step(p), pc'[p] \in {"gone", "killed"}
    PROVE  after'[p] = "retry" /\ ~inside'[p]
  <1> USE DEF LInv, TypeOK
  <1>1. CASE Exit(p) \/ Kill(p)
    BY <1>1 DEF Exit, Kill, Ended
  <1>2. CASE Acquire(p)
    BY <1>2
    DEF Acquire, Create, Write, Observe, Judge, Enter, WriteGate, PeekGate, JudgeGate, Claim,
        Compare, Discard, Restore, Claimed, DropRead, DropMove, DropSettle, Dropped, LeaveGate,
        Retry
  <1>3. CASE WriteFails(p) \/ Release(p) \/ Watch(p) \/ Quiet(p) \/ Wake(p)
    BY <1>3 DEF WriteFails, Release, Watch, Quiet, Wake, LeaveGate
  <1>4. QED
    BY <1>1, <1>2, <1>3 DEF Step

LEMMA LInvStep == ASSUME LInv, [Next]_vars PROVE LInv'
  <1>1. CASE \E p \in Process : Step(p)
    <2>1. PICK p \in Process : Step(p)
      BY <1>1
    <2>2. TypeOK'
      BY <2>1, StepType DEF LInv
    <2>3. ASSUME NEW q \in Process, pc'[q] \in {"claim", "settle", "discard"}
          PROVE  \/ seen'[q] = Blank \/ seen'[q][1] = q
                 \/ ~(seen'[q][1] \in Process /\ pc'[seen'[q][1]] \notin {"gone", "killed"})
      <3>1. seen'[q] = Blank \/ seen'[q][1] = q \/ ~Alive(seen'[q][1])
        BY <2>1, <2>3, ClaimJustified, OthersKeep DEF LInv, Justified
      <3>2. QED
        BY <2>1, <3>1, DeadStay DEF LInv
    <2>4. ASSUME NEW q \in Process, pc'[q] \in {"gone", "killed"}
          PROVE  after'[q] = "retry" /\ ~inside'[q]
      BY <2>1, <2>4, DeadLeaveNothing, OthersKeep DEF LInv, Justified
    <2>5. QED
      BY <2>2, <2>3, <2>4 DEF LInv, Justified, Alive
  <1>2. CASE UNCHANGED vars
    BY <1>2 DEF LInv, TypeOK, Justified, Alive, vars
  <1>3. QED
    BY <1>1, <1>2 DEF Next

LEMMA LInvAlways == Spec => []LInv
  BY LInvInit, LInvStep, PTL DEF Spec

\* The variables keep their types and the loop of acquire its bound.
THEOREM LockTypeCorrect == Spec => []TypeOK
  BY LInvAlways, PTL DEF LInv

-----------------------------------------------------------------------------
(* What a claim removes.                                                   *)

LEMMA NotInUseIfUnwritten == ASSUME NEW i, i \notin written PROVE ~InUse(i)
  BY DEF InUse

\* A complete file that is in use has a live creator.
LEMMA InUseAlive == ASSUME LInv, NEW i, InUse(i) PROVE Alive(i[1])
  <1>1. i[1] \in Process /\ (Believes(i[1]) \/ inside[i[1]])
    BY DEF InUse
  <1>2. QED
    BY <1>1 DEF LInv, Justified, Believes, Alive

\* What a process has observed is a record somebody has written; the record it removes is the one
\* it has observed, and the file it puts back is not.
Observed ==
    /\ \A p \in Process : seen[p] = Blank \/ seen[p] \in written
    /\ \A p \in Process : pc[p] = "discard" => seen[p] = Blank \/ seen[p] = moved[p]
    /\ \A p \in Process \ Flaky : pc[p] = "restore" => Raw(moved[p]) # seen[p]

LEMMA WrittenGrows == ASSUME NEW p \in Process, Step(p) PROVE written \subseteq written'
  BY DEF Step, Acquire, Create, Write, WriteFails, Observe, Judge, Enter, WriteGate, PeekGate,
         JudgeGate, Claim, Compare, Discard, Restore, DropRead, DropMove, DropSettle, Release,
         Watch, Quiet, Wake, Exit, Kill, Ended

\* What p knows after a step of its own.
LEMMA ObservesStep ==
    ASSUME LInv, Observed, NEW p \in Process, Step(p)
    PROVE  /\ seen'[p] = Blank \/ seen'[p] \in written'
           /\ pc'[p] = "discard" => seen'[p] = Blank \/ seen'[p] = moved'[p]
           /\ pc'[p] = "restore" /\ p \notin Flaky => Raw(moved[p])' # seen'[p]
  <1> USE DEF LInv, TypeOK, Observed
  <1>1. seen'[p] = seen[p] => seen'[p] = Blank \/ seen'[p] \in written'
    BY WrittenGrows
  <1>2. \A s : pc' = [pc EXCEPT ![p] = s] => pc'[p] = s
    OBVIOUS
  <1>3. Retry(p) => pc'[p] \in {"observe", "denied"}
    BY DEF Retry
  <1>4. CASE Observe(p) \/ PeekGate(p)
    BY <1>1, <1>3, <1>4 DEF Observe, PeekGate, Raw
  <1>5. CASE Compare(p)
    BY <1>1, <1>5 DEF Compare, Raw
  <1>6. CASE Discard(p) \/ Restore(p)
    BY <1>3, <1>6 DEF Discard, Restore, Claimed
  <1>7. CASE Judge(p) \/ JudgeGate(p)
    BY <1>1, <1>3, <1>7 DEF Judge, JudgeGate, LeaveGate, KeepsForClaim
  <1>8. CASE Create(p) \/ Write(p) \/ WriteFails(p) \/ Enter(p) \/ WriteGate(p) \/ Claim(p)
    BY <1>1, <1>3, <1>8 DEF Create, Write, WriteFails, Enter, WriteGate, Claim, Claimed, LeaveGate
  <1>9. CASE DropRead(p) \/ DropMove(p) \/ DropSettle(p)
    BY <1>1, <1>3, <1>9 DEF DropRead, DropMove, DropSettle, Dropped
  <1>10. CASE Release(p) \/ Watch(p) \/ Quiet(p) \/ Wake(p) \/ Exit(p) \/ Kill(p)
    BY <1>1, <1>10 DEF Release, Watch, Quiet, Wake, Exit, Kill, Ended
  <1>11. QED
    BY <1>4, <1>5, <1>6, <1>7, <1>8, <1>9, <1>10 DEF Step, Acquire

LEMMA ObservedStep == ASSUME LInv, Observed, [Next]_vars PROVE Observed'
  <1>1. CASE \E p \in Process : Step(p)
    <2>1. PICK p \in Process : Step(p)
      BY <1>1
    <2>2. ASSUME NEW q \in Process
          PROVE  /\ seen'[q] = Blank \/ seen'[q] \in written'
                 /\ pc'[q] = "discard" => seen'[q] = Blank \/ seen'[q] = moved'[q]
                 /\ pc'[q] = "restore" /\ q \notin Flaky => Raw(moved[q])' # seen'[q]
      <3>1. CASE q = p
        BY <2>1, <3>1, ObservesStep
      <3>2. CASE q # p
        <4>1. pc'[q] = pc[q] /\ seen'[q] = seen[q] /\ moved'[q] = moved[q]
          BY <2>1, <3>2, OthersKeep DEF LInv
        <4>2. written \subseteq written'
          BY <2>1, WrittenGrows
        <4>3. pc[q] = "restore" => moved[q] \in Inode
          BY DEF LInv, TypeOK
        <4>4. QED
          BY <4>1, <4>2, <4>3, LockAssumption DEF Observed, Raw
      <3>3. QED
        BY <3>1, <3>2
    <2>3. QED
      BY <2>2 DEF Observed, Raw
  <1>2. CASE UNCHANGED vars
    BY <1>2 DEF Observed, Raw, vars
  <1>3. QED
    BY <1>1, <1>2 DEF Next

LEMMA ObservedAlways == Spec => []Observed
  <1>1. Init => Observed
    BY DEF Init, Observed
  <1>2. QED
    BY <1>1, ObservedStep, LInvAlways, PTL DEF Spec

\* A step that loses a file is one of three, or the death of the process that holds it.
LEMMA LosingSteps ==
    ASSUME LInv, NEW p \in Process, Step(p), NEW i \in Present, i \notin Present'
    PROVE  \/ Discard(p) /\ i = moved[p]
           \/ Restore(p) /\ i # moved[p]
           \/ DropSettle(p) /\ (i = moved[p] => Raw(moved[p]) = Own(p))
           \/ Kill(p) /\ i = moved[p]
  <1> USE DEF LInv, TypeOK, Present
  <1>1. Target(p) \in Path /\ Place(p) \in Path
    BY DEF Target, Place, Path
  <1>2. pc[p] \notin {"settle", "discard", "restore", "dropSettle"} => moved[p] = NoFile
    OBVIOUS
  <1>3. CASE Create(p) \/ Enter(p)
    BY <1>3 DEF Create, Enter
  <1>4. CASE Claim(p)
    BY <1>1, <1>2, <1>4 DEF Claim
  <1>5. CASE DropMove(p)
    BY <1>1, <1>2, <1>5 DEF DropMove
  <1>6. CASE Discard(p)
    BY <1>6 DEF Discard
  <1>7. CASE Restore(p)
    BY <1>1, <1>7 DEF Restore
  <1>8. CASE DropSettle(p)
    BY <1>1, <1>8 DEF DropSettle
  <1>9. CASE Exit(p) \/ Kill(p)
    BY <1>2, <1>9 DEF Exit, Kill, Ended, Through
  <1>10. CASE Write(p) \/ WriteFails(p) \/ Observe(p) \/ Judge(p) \/ WriteGate(p) \/ PeekGate(p)
               \/ JudgeGate(p) \/ Compare(p) \/ DropRead(p) \/ Release(p) \/ Watch(p) \/ Quiet(p)
               \/ Wake(p)
    BY <1>10
    DEF Write, WriteFails, Observe, Judge, WriteGate, PeekGate, JudgeGate, Compare, DropRead,
        Release, Watch, Quiet, Wake
  <1>11. QED
    BY <1>3, <1>4, <1>5, <1>6, <1>7, <1>8, <1>9, <1>10 DEF Step, Acquire

LEMMA LossAccounted ==
    ASSUME LInv, Observed, NEW p \in Process, Step(p),
           NEW i \in Present, i \notin Present', InUse(i)
    PROVE  pc'[p] # pc[p] /\ Destroys(p, i)
  <1> USE DEF LInv, TypeOK
  <1>1. Retry(p) => pc'[p] \in {"observe", "denied"}
    BY DEF Retry
  <1>2. CASE Discard(p) /\ i = moved[p]
    <2>1. pc[p] = "discard" /\ pc'[p] # "discard"
      BY <1>1, <1>2 DEF Discard, Claimed
    <2>2. CASE seen[p] = Blank
      BY <1>2, <2>1, <2>2 DEF Destroys
    <2>3. CASE seen[p] # Blank
      <3>1. seen[p] = i /\ (i[1] = p \/ ~Alive(i[1]))
        BY <1>2, <2>1, <2>3 DEF Observed, Justified
      <3>2. QED
        BY <2>1, <3>1, InUseAlive DEF Destroys
    <2>4. QED
      BY <2>2, <2>3
  <1>3. CASE Restore(p) /\ i # moved[p]
    <2>1. pc[p] = "restore" /\ pc'[p] # "restore"
      BY <1>1, <1>3 DEF Restore, Claimed
    <2>2. QED
      BY <1>3, <2>1 DEF Destroys, Observed
  <1>4. CASE DropSettle(p) /\ (i = moved[p] => Raw(moved[p]) = Own(p))
    <2>1. pc[p] = "dropSettle" /\ pc'[p] # "dropSettle"
      BY <1>1, <1>4 DEF DropSettle, Dropped
    <2>2. CASE i = moved[p]
      <3>1. Raw(i) = i
        BY <2>2 DEF InUse, Raw
      <3>2. i[1] = p
        BY <1>4, <2>2, <3>1 DEF Own, LockOf, GateOf
      <3>3. QED
        BY <2>1, <3>2 DEF Destroys
    <2>3. CASE i # moved[p]
      <3>1. Raw(moved[p]) # Own(p) \/ p \in Flaky
        BY <1>4, <2>3 DEF DropSettle, Present
      <3>2. QED
        BY <2>1, <2>3, <3>1 DEF Destroys
    <2>4. QED
      BY <2>2, <2>3
  <1>5. CASE Kill(p) /\ i = moved[p]
    BY <1>5 DEF Kill, Ended, Alive, Destroys
  <1>6. QED
    BY <1>2, <1>3, <1>4, <1>5, LosingSteps

\* A complete file that a live process relies on is lost only as its creator's own, as one that was
\* observed empty, under another file put back over it, or with a process killed in the middle of a
\* claim, for any number of processes and whatever was left behind (lock.ts:194-226).
THEOREM LossesKnown == Spec => LossesAccounted
  <1>1. ASSUME LInv, Observed, [Next]_vars, NEW i \in Present \ Present', InUse(i)
        PROVE  \E p \in Process : pc'[p] # pc[p] /\ Destroys(p, i)
    <2>1. PICK p \in Process : Step(p)
      BY <1>1 DEF Next, Present, vars
    <2>2. QED
      BY <1>1, <2>1, LossAccounted
  <1>2. LInv /\ Observed /\ [Next]_vars
            => [\A i \in Present \ Present' :
                    InUse(i) => \E p \in Process : pc'[p] # pc[p] /\ Destroys(p, i)]_vars
    BY <1>1
  <1>3. QED
    BY <1>2, LInvAlways, ObservedAlways, PTL DEF Spec, LossesAccounted

-----------------------------------------------------------------------------
(* The only process left is never turned away: the safety half of          *)
(* StaleTakenOver.  Its phases, and what the files are in each.            *)

\* The file f, if any, is not one p has created.
Foreign(f, p) == f # NoFile => f[1] # p

AtStart(p) ==
    /\ pc[p] = "create" /\ ~inside[p] /\ attempt[p] = 0
    /\ Foreign(file["lock"], p) /\ Foreign(file["gate"], p)

\* In front of the gate.  It comes by twice at most: the second time the gate is free.
AtGate(p) ==
    /\ pc[p] \in {"observe", "judge", "enter"} /\ ~inside[p]
    /\ attempt[p] = 1 \/ file["gate"] = NoFile
    /\ Foreign(file["lock"], p) /\ Foreign(file["gate"], p)
    /\ pc[p] = "judge" => seen[p] = Raw(file["lock"]) /\ file["lock"] # NoFile

\* Busy with a gate that was left behind.
ClearingGate(p) ==
    /\ ~inside[p] /\ attempt[p] = 1
    /\ Foreign(file["lock"], p) /\ Foreign(file["gate"], p)
    /\ \/ pc[p] = "peekGate"
       \/ /\ pc[p] \in {"judgeGate", "claim"}
          /\ file["gate"] # NoFile /\ seen[p] = Raw(file["gate"])
       \/ pc[p] = "settle" /\ file["gate"] = NoFile /\ seen[p] = Raw(moved[p])
       \/ pc[p] = "discard" /\ file["gate"] = NoFile

\* Inside the gate, busy with a lock that was left behind.
InGate(p) ==
    \/ pc[p] = "writeGate" /\ ~inside[p] /\ Foreign(file["lock"], p)
    \/ pc[p] = "observe" /\ inside[p] /\ Foreign(file["lock"], p)
    \/ /\ pc[p] \in {"judge", "claim"} /\ inside[p]
       /\ Foreign(file["lock"], p) /\ file["lock"] # NoFile /\ seen[p] = Raw(file["lock"])
    \/ pc[p] = "settle" /\ inside[p] /\ file["lock"] = NoFile /\ seen[p] = Raw(moved[p])
    \/ pc[p] = "discard" /\ inside[p] /\ file["lock"] = NoFile
    \/ pc[p] = "create" /\ inside[p] /\ file["lock"] = NoFile

\* It has created the lock, or cannot write a file.
Past(p) ==
    \/ /\ pc[p] \in {"dropRead", "dropMove", "dropSettle"}
       /\ after[p] \in {"owner", "failed", "released"}
    \/ pc[p] \in {"write", "owner", "quiet", "leaving", "released", "failed", "gone", "killed"}

Alone(p) == \A q \in Process \ {p} : ~Alive(q)
Undisturbed(p) == Alone(p) /\ (AtStart(p) \/ AtGate(p) \/ ClearingGate(p) \/ InGate(p) \/ Past(p))

\* A process is at its start once, before it has created any file.
Unborn ==
    \A p \in Process :
        /\ pc[p] \in {"observe", "judge", "enter", "writeGate", "peekGate", "judgeGate"} \/ inside[p]
               => attempt[p] > 0
        /\ pc[p] = "create" /\ ~inside[p] =>
               /\ attempt[p] = 0
               /\ \A x \in Path : Foreign(file[x], p)
               /\ \A q \in Process : Foreign(moved[q], p)

\* Nobody is there to be respected when p looks at a file of another process.
LEMMA DeadHolder ==
    ASSUME LInv, NEW p \in Process, Alone(p), NEW f, f # NoFile, Foreign(f, p)
    PROVE  ~HolderAlive(p, Raw(f))
  BY DEF Alone, Foreign, HolderAlive, Raw, Alive

LEMMA RetryAlone ==
    ASSUME LInv, NEW p \in Process, Attempts[p] > 1, attempt[p] \in {0, 1}, Retry(p)
    PROVE  /\ pc' = [pc EXCEPT ![p] = "observe"]
           /\ attempt'[p] = attempt[p] + 1
  BY LockAssumption DEF LInv, TypeOK, Retry

LEMMA StartUndisturbed ==
    ASSUME LInv, NEW p \in Process, Attempts[p] > 1, Alone(p), AtStart(p), Step(p)
    PROVE  AtGate(p)' \/ Past(p)'
  <1> USE DEF LInv, TypeOK
  <1>1. pc[p] = "create" /\ ~inside[p] /\ attempt[p] = 0
    BY DEF AtStart
  <1>2. CASE Create(p)
    <2>1. CASE file["lock"] = NoFile
      BY <1>1, <1>2, <2>1 DEF Create, Past
    <2>2. CASE file["lock"] # NoFile
      <3>1. Retry(p) /\ UNCHANGED <<file, inside>>
        BY <1>1, <1>2, <2>2 DEF Create
      <3>2. QED
        BY <1>1, <3>1, RetryAlone DEF AtStart, AtGate, Foreign
    <2>3. QED
      BY <2>1, <2>2
  <1>3. CASE Kill(p)
    BY <1>3 DEF Kill, Ended, Past
  <1>4. QED
    BY <1>1, <1>2, <1>3
    DEF Step, Acquire, Write, WriteFails, Observe, Judge, Enter, WriteGate, PeekGate, JudgeGate,
        Claim, Compare, Discard, Restore, DropRead, DropMove, DropSettle, Release, Watch, Quiet,
        Wake, Exit, Through

LEMMA AtGateUndisturbed ==
    ASSUME LInv, NEW p \in Process \ Flaky, Attempts[p] > 1, Alone(p), AtGate(p), attempt[p] > 0,
           Step(p)
    PROVE  AtGate(p)' \/ ClearingGate(p)' \/ InGate(p)' \/ Past(p)'
  <1> USE DEF LInv, TypeOK
  <1>1. pc[p] \in {"observe", "judge", "enter"} /\ ~inside[p]
    BY DEF AtGate
  <1>2. CASE Observe(p)
    <2>1. CASE file["lock"] = NoFile
      BY <1>1, <1>2, <2>1 DEF Observe, AtGate, Foreign
    <2>2. CASE file["lock"] # NoFile
      BY <1>1, <1>2, <2>2 DEF Observe, ReadsNothing, AtGate, Foreign, Raw
    <2>3. QED
      BY <2>1, <2>2
  <1>3. CASE Judge(p)
    <2>1. ~HolderAlive(p, seen[p])
      BY <1>3, DeadHolder DEF Judge, AtGate
    <2>2. /\ pc' = [pc EXCEPT ![p] = "enter"]
          /\ UNCHANGED <<file, attempt, inside>>
      BY <1>1, <1>3, <2>1 DEF Judge
    <2>3. QED
      BY <1>1, <2>2 DEF AtGate, Foreign
  <1>4. CASE Enter(p)
    <2>1. CASE file["gate"] = NoFile
      <3>1. /\ file' = [file EXCEPT !["gate"] = GateOf(p)] /\ pc' = [pc EXCEPT ![p] = "writeGate"]
            /\ UNCHANGED inside
        BY <1>4, <2>1 DEF Enter
      <3>2. file'["lock"] = file["lock"]
        BY <3>1 DEF Path
      <3>3. QED
        BY <1>1, <3>1, <3>2 DEF AtGate, InGate, Foreign
    <2>2. CASE file["gate"] # NoFile
      BY <1>1, <1>4, <2>2 DEF Enter, AtGate, ClearingGate, Foreign
    <2>3. QED
      BY <2>1, <2>2
  <1>5. CASE Kill(p)
    BY <1>5 DEF Kill, Ended, Past
  <1>6. QED
    BY <1>1, <1>2, <1>3, <1>4, <1>5
    DEF Step, Acquire, Create, Write, WriteFails, WriteGate, PeekGate, JudgeGate, Claim, Compare,
        Discard, Restore, DropRead, DropMove, DropSettle, Release, Watch, Quiet, Wake, Exit, Through

LEMMA ClearingUndisturbed ==
    ASSUME LInv, NEW p \in Process \ Flaky, Attempts[p] > 1, Alone(p), ClearingGate(p), Step(p)
    PROVE  AtGate(p)' \/ ClearingGate(p)' \/ Past(p)'
  <1> USE DEF LInv, TypeOK
  <1>1. /\ pc[p] \in {"peekGate", "judgeGate", "claim", "settle", "discard"}
        /\ ~inside[p] /\ attempt[p] = 1
        /\ Target(p) = "gate"
    BY DEF ClearingGate, Target
  <1>2. CASE PeekGate(p)
    <2>1. CASE file["gate"] = NoFile
      <3>1. Retry(p) /\ UNCHANGED <<file, inside>>
        BY <1>2, <2>1 DEF PeekGate
      <3>2. QED
        BY <1>1, <2>1, <3>1, RetryAlone DEF AtGate, ClearingGate, Foreign
    <2>2. CASE file["gate"] # NoFile
      BY <1>1, <1>2, <2>2 DEF PeekGate, ReadsNothing, ClearingGate, Foreign, Raw
    <2>3. QED
      BY <2>1, <2>2
  <1>3. CASE JudgeGate(p)
    <2>1. ~HolderAlive(p, seen[p])
      BY <1>3, DeadHolder DEF JudgeGate, ClearingGate
    <2>2. /\ pc' = [pc EXCEPT ![p] = "claim"]
          /\ UNCHANGED <<file, written, attempt, inside, moved>> /\ seen'[p] = seen[p]
      BY <1>3, <2>1 DEF JudgeGate, KeepsForClaim
    <2>3. QED
      BY <1>1, <1>3, <2>2 DEF JudgeGate, ClearingGate, Foreign, Raw
  <1>4. CASE Claim(p)
    <2>1. file["gate"] # NoFile /\ seen[p] = Raw(file["gate"])
      BY <1>4 DEF Claim, ClearingGate
    <2>2. /\ moved' = [moved EXCEPT ![p] = file["gate"]]
          /\ file' = [file EXCEPT !["gate"] = NoFile]
          /\ pc' = [pc EXCEPT ![p] = "settle"]
          /\ UNCHANGED <<written, attempt, inside, seen>>
      BY <1>1, <1>4, <2>1 DEF Claim
    <2>3. /\ file'["gate"] = NoFile /\ file'["lock"] = file["lock"] /\ moved'[p] = file["gate"]
      BY <2>2 DEF Path
    <2>4. QED
      BY <1>1, <2>1, <2>2, <2>3 DEF ClearingGate, Foreign, Raw
  <1>5. CASE Compare(p)
    <2>1. file["gate"] = NoFile /\ seen[p] = Raw(moved[p])
      BY <1>5 DEF Compare, ClearingGate
    <2>2. pc' = [pc EXCEPT ![p] = "discard"] /\ UNCHANGED <<file, inside, attempt>>
      BY <1>5, <2>1 DEF Compare
    <2>3. QED
      BY <1>1, <2>1, <2>2 DEF ClearingGate, Foreign
  <1>6. CASE Discard(p)
    <2>1. file["gate"] = NoFile
      BY <1>6 DEF Discard, ClearingGate
    <2>2. Retry(p) /\ UNCHANGED <<file, inside>>
      BY <1>1, <1>6 DEF Discard, Claimed
    <2>3. QED
      BY <1>1, <2>1, <2>2, RetryAlone DEF AtGate, ClearingGate, Foreign
  <1>7. CASE Kill(p)
    BY <1>7 DEF Kill, Ended, Past
  <1>8. QED
    BY <1>1, <1>2, <1>3, <1>4, <1>5, <1>6, <1>7
    DEF Step, Acquire, Create, Write, WriteFails, Observe, Judge, Enter, WriteGate, Restore,
        DropRead, DropMove, DropSettle, Release, Watch, Quiet, Wake, Exit, Through

LEMMA InGateUndisturbed ==
    ASSUME LInv, NEW p \in Process \ Flaky, Alone(p), InGate(p), Step(p)
    PROVE  InGate(p)' \/ Past(p)'
  <1> USE DEF LInv, TypeOK
  <1>1. pc[p] \in {"writeGate", "observe", "judge", "claim", "settle", "discard", "create"}
    BY DEF InGate
  <1>2. CASE WriteGate(p)
    BY <1>2 DEF WriteGate, InGate, Foreign
  <1>3. CASE WriteFails(p)
    BY <1>1, <1>3 DEF WriteFails, Past
  <1>4. CASE Observe(p)
    <2>1. inside[p] /\ Foreign(file["lock"], p)
      BY <1>4 DEF Observe, InGate
    <2>2. CASE file["lock"] = NoFile
      BY <1>4, <2>1, <2>2 DEF Observe, InGate
    <2>3. CASE file["lock"] # NoFile
      BY <1>4, <2>1, <2>3 DEF Observe, ReadsNothing, InGate, Foreign, Raw
    <2>4. QED
      BY <2>2, <2>3
  <1>5. CASE Judge(p)
    <2>1. /\ inside[p] /\ Foreign(file["lock"], p) /\ file["lock"] # NoFile
          /\ seen[p] = Raw(file["lock"])
      BY <1>5 DEF Judge, InGate
    <2>2. /\ pc' = [pc EXCEPT ![p] = "claim"]
          /\ UNCHANGED <<file, written, inside>> /\ seen'[p] = seen[p]
      BY <1>5, <2>1, DeadHolder DEF Judge, KeepsForClaim
    <2>3. QED
      BY <2>1, <2>2 DEF InGate, Foreign, Raw
  <1>6. CASE Claim(p)
    <2>1. inside[p] /\ file["lock"] # NoFile /\ seen[p] = Raw(file["lock"]) /\ Target(p) = "lock"
      BY <1>6 DEF Claim, InGate, Target
    <2>2. /\ moved' = [moved EXCEPT ![p] = file["lock"]]
          /\ file' = [file EXCEPT !["lock"] = NoFile]
          /\ pc' = [pc EXCEPT ![p] = "settle"]
          /\ UNCHANGED <<written, inside, seen>>
      BY <1>6, <2>1 DEF Claim
    <2>3. file'["lock"] = NoFile /\ moved'[p] = file["lock"]
      BY <2>2 DEF Path
    <2>4. QED
      BY <2>1, <2>2, <2>3 DEF InGate, Raw
  <1>7. CASE Compare(p)
    <2>1. inside[p] /\ file["lock"] = NoFile /\ seen[p] = Raw(moved[p])
      BY <1>7 DEF Compare, InGate
    <2>2. pc' = [pc EXCEPT ![p] = "discard"] /\ UNCHANGED <<file, inside>>
      BY <1>7, <2>1 DEF Compare
    <2>3. QED
      BY <2>1, <2>2 DEF InGate
  <1>8. CASE Discard(p)
    <2>1. inside[p] /\ file["lock"] = NoFile
      BY <1>8 DEF Discard, InGate
    <2>2. pc' = [pc EXCEPT ![p] = "create"] /\ UNCHANGED <<file, inside>>
      BY <1>8, <2>1 DEF Discard, Claimed
    <2>3. QED
      BY <2>1, <2>2 DEF InGate
  <1>9. CASE Create(p)
    <2>1. inside[p] /\ file["lock"] = NoFile
      BY <1>9 DEF Create, InGate
    <2>2. QED
      BY <1>9, <2>1 DEF Create, Past
  <1>10. CASE Kill(p)
    BY <1>10 DEF Kill, Ended, Past
  <1>11. CASE Enter(p) \/ PeekGate(p) \/ JudgeGate(p) \/ Write(p)
    BY <1>1, <1>11 DEF Enter, PeekGate, JudgeGate, Write
  <1>12. CASE DropRead(p) \/ DropMove(p) \/ DropSettle(p) \/ Restore(p) \/ Release(p) \/ Watch(p)
               \/ Quiet(p) \/ Wake(p) \/ Exit(p)
    BY <1>1, <1>12
    DEF DropRead, DropMove, DropSettle, Restore, Release, Watch, Quiet, Wake, Exit, Through
  <1>13. QED
    BY <1>2, <1>3, <1>4, <1>5, <1>6, <1>7, <1>8, <1>9, <1>10, <1>11, <1>12 DEF Step, Acquire

LEMMA PastUndisturbed ==
    ASSUME LInv, NEW p \in Process, Past(p), Step(p)
    PROVE  Past(p)'
  <1> USE DEF LInv, TypeOK
  <1>1. CASE Write(p) \/ WriteFails(p)
    BY <1>1 DEF Write, WriteFails, LeaveGate, Past
  <1>2. CASE DropRead(p) \/ DropMove(p) \/ DropSettle(p)
    <2>1. after[p] \in {"owner", "failed", "released"}
      BY <1>2 DEF Past, DropRead, DropMove, DropSettle
    <2>2. Dropped(p) => Past(p)'
      BY <2>1 DEF Dropped, Past
    <2>3. QED
      BY <1>2, <2>1, <2>2 DEF DropRead, DropMove, DropSettle, Past
  <1>3. CASE Release(p) \/ Watch(p) \/ Quiet(p) \/ Wake(p) \/ Exit(p) \/ Kill(p)
    BY <1>3 DEF Release, Watch, Quiet, Wake, Exit, Kill, Ended, Past
  <1>4. CASE Create(p) \/ Observe(p) \/ Judge(p) \/ Enter(p) \/ WriteGate(p) \/ PeekGate(p)
               \/ JudgeGate(p) \/ Claim(p) \/ Compare(p) \/ Discard(p) \/ Restore(p)
    BY <1>4
    DEF Create, Observe, Judge, Enter, WriteGate, PeekGate, JudgeGate, Claim, Compare, Discard,
        Restore, Past
  <1>5. QED
    BY <1>1, <1>2, <1>3, <1>4 DEF Step, Acquire

\* What a step of p puts at a path or under its private name it found there, or it is p's own.
LEMMA FilesMove ==
    ASSUME LInv, NEW p \in Process, Step(p), NEW o, o # p,
           \A x \in Path : Foreign(file[x], o), \A q \in Process : Foreign(moved[q], o)
    PROVE  (\A x \in Path : Foreign(file'[x], o)) /\ (\A q \in Process : Foreign(moved'[q], o))
  <1> USE DEF LInv, TypeOK, Foreign
  <1>1. LockOf(p)[1] = p /\ GateOf(p)[1] = p /\ Target(p) \in Path /\ Place(p) \in Path
    BY DEF LockOf, GateOf, Target, Place, Path
  <1>2. CASE Create(p)
    BY <1>1, <1>2 DEF Create
  <1>3. CASE Enter(p)
    BY <1>1, <1>3 DEF Enter
  <1>4. CASE Claim(p) \/ Compare(p) \/ Discard(p) \/ Restore(p)
    BY <1>1, <1>4 DEF Claim, Compare, Discard, Restore
  <1>5. CASE DropMove(p) \/ DropSettle(p)
    BY <1>1, <1>5 DEF DropMove, DropSettle
  <1>6. CASE Exit(p) \/ Kill(p)
    BY <1>6 DEF Exit, Kill, Ended
  <1>7. CASE Write(p) \/ WriteFails(p) \/ Observe(p) \/ Judge(p) \/ WriteGate(p) \/ PeekGate(p)
               \/ JudgeGate(p) \/ DropRead(p) \/ Release(p) \/ Watch(p) \/ Quiet(p) \/ Wake(p)
    BY <1>7
    DEF Write, WriteFails, Observe, Judge, WriteGate, PeekGate, JudgeGate, DropRead, Release,
        Watch, Quiet, Wake
  <1>8. QED
    BY <1>2, <1>3, <1>4, <1>5, <1>6, <1>7 DEF Step, Acquire

\* Nobody comes back to its start, and who is in the loop has begun an iteration.
LEMMA LeftForGood ==
    ASSUME LInv, Unborn, NEW p \in Process, Step(p)
    PROVE  /\ ~(pc'[p] = "create" /\ ~inside'[p])
           /\ pc'[p] \in {"observe", "judge", "enter", "writeGate", "peekGate", "judgeGate"} \/ inside'[p]
                  => attempt'[p] > 0
  <1> USE DEF LInv, TypeOK
  <1>1. attempt[p] \in Nat /\ (inside[p] => attempt[p] > 0)
    BY DEF Unborn
  <1>2. Retry(p) => attempt'[p] \in Nat /\ (attempt'[p] > 0 \/ attempt'[p] = attempt[p])
                    /\ pc'[p] \in {"observe", "denied"} /\ (pc'[p] = "observe" => attempt'[p] > 0)
    BY <1>1 DEF Retry
  <1>3. CASE Create(p)
    BY <1>1, <1>2, <1>3 DEF Create, LeaveGate
  <1>4. CASE Write(p) \/ WriteFails(p)
    BY <1>1, <1>4 DEF Write, WriteFails, LeaveGate
  <1>5. CASE Observe(p) \/ Judge(p) \/ Enter(p) \/ WriteGate(p)
    BY <1>1, <1>5 DEF Observe, Judge, Enter, WriteGate, LeaveGate, Unborn
  <1>6. CASE PeekGate(p) \/ JudgeGate(p)
    BY <1>1, <1>2, <1>6 DEF PeekGate, JudgeGate, Unborn
  <1>7. CASE Claim(p) \/ Compare(p) \/ Discard(p) \/ Restore(p)
    BY <1>1, <1>2, <1>7 DEF Claim, Compare, Discard, Restore, Claimed
  <1>8. CASE DropRead(p) \/ DropMove(p) \/ DropSettle(p)
    <2>1. Dropped(p) => /\ ~inside'[p] /\ pc'[p] # "create"
                        /\ pc'[p] \in {"observe", "judge", "enter", "writeGate", "peekGate", "judgeGate"}
                               => attempt'[p] > 0
      BY <1>2 DEF Dropped
    <2>2. QED
      BY <1>1, <1>8, <2>1 DEF DropRead, DropMove, DropSettle
  <1>9. CASE Release(p) \/ Watch(p) \/ Quiet(p) \/ Wake(p) \/ Exit(p) \/ Kill(p)
    BY <1>1, <1>9 DEF Release, Watch, Quiet, Wake, Exit, Kill, Ended
  <1>10. QED
    BY <1>3, <1>4, <1>5, <1>6, <1>7, <1>8, <1>9 DEF Step, Acquire

LEMMA AttemptKept ==
    ASSUME LInv, NEW p \in Process, Step(p), NEW q \in Process \ {p}
    PROVE  attempt'[q] = attempt[q]
  <1> USE DEF LInv, TypeOK
  <1>1. Retry(p) => attempt'[q] = attempt[q]
    BY DEF Retry
  <1>2. QED
    BY <1>1
    DEF Step, Acquire, Create, Write, WriteFails, Observe, Judge, Enter, WriteGate, PeekGate,
        JudgeGate, Claim, Compare, Discard, Restore, Claimed, DropRead, DropMove,
        DropSettle, Dropped, Release, Watch, Quiet, Wake, Exit, Kill, Ended

LEMMA UnbornStep == ASSUME LInv, Unborn, [Next]_vars PROVE Unborn'
  <1>1. CASE \E p \in Process : Step(p)
    <2>1. PICK p \in Process : Step(p)
      BY <1>1
    <2>2. ASSUME NEW q \in Process
          PROVE  /\ pc'[q] \in {"observe", "judge", "enter", "writeGate", "peekGate", "judgeGate"}
                        \/ inside'[q] => attempt'[q] > 0
                 /\ pc'[q] = "create" /\ ~inside'[q] =>
                        /\ attempt'[q] = 0
                        /\ \A x \in Path : Foreign(file'[x], q)
                        /\ \A r \in Process : Foreign(moved'[r], q)
      <3>1. CASE q = p
        BY <2>1, <3>1, LeftForGood
      <3>2. CASE q # p
        <4>1. pc'[q] = pc[q] /\ inside'[q] = inside[q] /\ attempt'[q] = attempt[q]
          BY <2>1, <3>2, OthersKeep, AttemptKept DEF LInv
        <4>2. QED
          BY <2>1, <3>2, <4>1, FilesMove DEF Unborn
      <3>3. QED
        BY <3>1, <3>2
    <2>3. QED
      BY <2>2 DEF Unborn, Foreign
  <1>2. CASE UNCHANGED vars
    BY <1>2 DEF Unborn, Foreign, vars
  <1>3. QED
    BY <1>1, <1>2 DEF Next

LEMMA UnbornAlways == Spec => []Unborn
  <1>1. Init => Unborn
    BY LockAssumption DEF Init, Unborn, Foreign, Path
  <1>2. QED
    BY <1>1, UnbornStep, LInvAlways, PTL DEF Spec

LEMMA UndisturbedStep ==
    ASSUME LInv, Unborn, NEW p \in Process \ Flaky, Attempts[p] > 1, Undisturbed(p), [Next]_vars
    PROVE  Undisturbed(p)'
  <1>1. CASE \E q \in Process : Step(q)
    <2>1. PICK q \in Process : Step(q)
      BY <1>1
    <2>2. q = p
      BY <2>1, StepAlive DEF LInv, Undisturbed, Alone
    <2>3. Alone(p)'
      BY <2>1, <2>2, OthersKeep DEF LInv, Undisturbed, Alone, Alive
    <2>4. AtGate(p) => attempt[p] > 0
      BY DEF AtGate, Unborn
    <2>5. AtStart(p)' \/ AtGate(p)' \/ ClearingGate(p)' \/ InGate(p)' \/ Past(p)'
      BY <2>1, <2>2, <2>4, StartUndisturbed, AtGateUndisturbed, ClearingUndisturbed,
         InGateUndisturbed, PastUndisturbed DEF Undisturbed
    <2>6. QED
      BY <2>3, <2>5 DEF Undisturbed
  <1>2. CASE UNCHANGED vars
    BY <1>2
    DEF vars, Undisturbed, Alone, Alive, AtStart, AtGate, ClearingGate, InGate, Past, Foreign, Raw
  <1>3. QED
    BY <1>1, <1>2 DEF Next

\* Whatever the dead have left at the lock and at the gate, a process that is the only one left
\* when it begins, and can read the files, is never turned away: two iterations of the loop in
\* acquire suffice, one that clears the gate and one that clears the lock (lock.ts:57-87).  This is
\* what StaleTakenOver promises less that the steps are taken.
THEOREM AloneNeverDenied ==
    ASSUME NEW p \in Process \ Flaky, Attempts[p] > 1
    PROVE  Spec => [](pc[p] = "create" /\ attempt[p] = 0 /\ Alone(p) => [](pc[p] # "denied"))
  <1>1. LInv /\ Unborn /\ pc[p] = "create" /\ attempt[p] = 0 /\ Alone(p) => Undisturbed(p)
    BY DEF Unborn, Undisturbed, AtStart, Path
  <1>2. LInv /\ Unborn /\ Undisturbed(p) /\ [Next]_vars => Undisturbed(p)'
    BY UndisturbedStep
  <1>3. Undisturbed(p) => pc[p] # "denied"
    BY DEF Undisturbed, AtStart, AtGate, ClearingGate, InGate, Past
  <1>4. QED
    BY <1>1, <1>2, <1>3, LInvAlways, UnbornAlways, PTL DEF Spec

-----------------------------------------------------------------------------
(* The watch can rely on what it sees: the safety half of OwnersConverge.   *)

\* The file i is at no path and under no private name.
Nowhere(i) == (\A x \in Path : file[x] # i) /\ (\A q \in Process : moved[q] # i)

\* p has taken itself for the owner and is not past that for good.
Reigned(p) ==
    \/ pc[p] \in {"owner", "quiet", "leaving", "released", "gone", "killed"}
    \/ pc[p] \in {"dropRead", "dropMove", "dropSettle"} /\ after[p] = "released"

LEMMA ReignEnds == ASSUME LInv, NEW p \in Process, Reigned(p), Step(p) PROVE Reigned(p)'
  <1> USE DEF LInv, TypeOK
  <1>1. CASE DropRead(p) \/ DropMove(p) \/ DropSettle(p)
    <2>1. after[p] = "released"
      BY <1>1 DEF Reigned, DropRead, DropMove, DropSettle
    <2>2. Dropped(p) => Reigned(p)'
      BY <2>1 DEF Dropped, Reigned
    <2>3. QED
      BY <1>1, <2>1, <2>2 DEF DropRead, DropMove, DropSettle, Reigned
  <1>2. CASE Release(p) \/ Watch(p) \/ Quiet(p) \/ Wake(p) \/ Exit(p) \/ Kill(p)
    BY <1>2 DEF Release, Watch, Quiet, Wake, Exit, Kill, Ended, Reigned
  <1>3. QED
    BY <1>1, <1>2
    DEF Step, Acquire, Create, Write, WriteFails, Observe, Judge, Enter, WriteGate, PeekGate,
        JudgeGate, Claim, Compare, Discard, Restore, Reigned

\* A file that is nowhere comes back only by being created.
LEMMA NowhereStays ==
    ASSUME LInv, NEW p \in Process, Step(p), NEW o \in Process, Nowhere(LockOf(o)),
           o = p => Reigned(p)
    PROVE  Nowhere(LockOf(o))'
  <1> USE DEF LInv, TypeOK
  <1> DEFINE i == LockOf(o)
  <1>1. i # NoFile /\ i' = i
    BY OwnFiles, LockAssumption DEF LockOf
  <1>2. /\ \A x \in Path : file[x] # i
        /\ \A q \in Process : moved[q] # i
    BY DEF Nowhere
  <1>3. o # p => LockOf(p) # i /\ GateOf(p) # i
    BY DEF LockOf, GateOf
  <1>4. Target(p) \in Path /\ Place(p) \in Path
    BY DEF Target, Place, Path
  <1> HIDE DEF i
  <1>5. QED
    <2>1. CASE ~Create(p) /\ ~Enter(p)
      <3>1. /\ \A x \in Path : file'[x] \in {file[y] : y \in Path} \cup {NoFile, moved[p]}
            /\ \A q \in Process : moved'[q] \in {moved[q], NoFile} \cup {file[y] : y \in Path}
        <4>1. CASE Claim(p) \/ Compare(p) \/ Discard(p) \/ Restore(p)
          BY <1>4, <4>1 DEF Claim, Compare, Discard, Restore
        <4>2. CASE DropMove(p) \/ DropSettle(p)
          BY <1>4, <4>2 DEF DropMove, DropSettle
        <4>3. CASE Exit(p) \/ Kill(p)
          BY <4>3 DEF Exit, Kill, Ended
        <4>4. QED
          BY <2>1, <4>1, <4>2, <4>3
          DEF Step, Acquire, Write, WriteFails, Observe, Judge, WriteGate, PeekGate, JudgeGate,
              DropRead, Release, Watch, Quiet, Wake
      <3>2. (\A x \in Path : file'[x] # i) /\ (\A q \in Process : moved'[q] # i)
        BY <1>1, <1>2, <3>1
      <3>3. QED
        BY <3>2 DEF Nowhere, i, LockOf
    <2>2. CASE Create(p) \/ Enter(p)
      <3>1. (\A x \in Path : file'[x] # i) /\ (\A q \in Process : moved'[q] # i)
        BY <1>2, <1>3, <2>2 DEF Create, Enter, Reigned
      <3>2. QED
        BY <3>1 DEF Nowhere, i, LockOf
    <2>3. QED
      BY <2>1, <2>2

\* Once the lock of an owner is at no path and under no private name, the owner, serving or quiet,
\* sees the loss whenever it looks, for as long as it takes itself for the owner: no late rename
\* brings the lock back (supervisor.ts:107-135 acts on one look).
THEOREM LossIsFinal ==
    ASSUME NEW p \in Process
    PROVE  Spec => [](pc[p] \in {"owner", "quiet"} /\ Nowhere(LockOf(p))
                    => [](pc[p] \in {"owner", "quiet"} => Lost(p)))
  <1> DEFINE Gone == Reigned(p) /\ Nowhere(LockOf(p))
  <1>1. pc[p] \in {"owner", "quiet"} /\ Nowhere(LockOf(p)) => Gone
    BY DEF Reigned
  <1>2. LInv /\ Gone /\ [Next]_vars => Gone'
    <2>1. SUFFICES ASSUME LInv, Gone, [Next]_vars PROVE Gone'
      OBVIOUS
    <2>2. CASE \E q \in Process : Step(q)
      <3>1. PICK q \in Process : Step(q)
        BY <2>2
      <3>2. Nowhere(LockOf(p))'
        BY <2>1, <3>1, NowhereStays
      <3>3. Reigned(p)'
        BY <2>1, <3>1, ReignEnds, OthersKeep DEF Reigned, LInv
      <3>4. QED
        BY <3>2, <3>3
    <2>3. CASE UNCHANGED vars
      BY <2>1, <2>3 DEF vars, Reigned, Nowhere, LockOf
    <2>4. QED
      BY <2>1, <2>2, <2>3 DEF Next
  <1>3. LInv /\ Gone => (pc[p] \in {"owner", "quiet"} => Lost(p))
    <2>1. LInv => LockOf(p) # Blank
      BY OwnFiles, LockAssumption DEF LInv
    <2>2. QED
      BY <2>1 DEF Nowhere, Lost, Raw, Path
  <1> HIDE DEF Gone
  <1>4. QED
    BY <1>1, <1>2, <1>3, LInvAlways, PTL DEF Spec
=============================================================================
