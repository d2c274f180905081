--------------------------- MODULE OwnershipLock ---------------------------
(***************************************************************************)
(* The data-root lock of zcode-server-cli (runtime/lock.ts): the file that *)
(* makes one Supervisor, or one lifecycle command, the owner of a server   *)
(* root.                                                                   *)
(*                                                                         *)
(* Every process runs acquire() once, owns the root for a while and ends.  *)
(* Each file operation is one step: between any two of them every other    *)
(* process may move, and a process may be killed.  A file is created empty *)
(* and written in a second step.  A stale lock is claimed inside a         *)
(* recovery gate, itself a file of the same kind: renamed to a private     *)
(* name, compared with what was observed, and removed or renamed back.     *)
(*                                                                         *)
(* Abstracted: a file is an inode <<creator, attempt>>; its content is     *)
(* that inode once written (tokens are never shared) and Blank before.     *)
(* Process identities are exact, so that a holder is alive exactly as long *)
(* as its process is.  A private name keeps no one out: the creator of the *)
(* file may still hold it open and write it, between the reading of the    *)
(* renamed file and its removal too, so these are two steps.               *)
(***************************************************************************)
EXTENDS Integers, FiniteSets

CONSTANTS
    Process,       \* the processes that will try to own the root
    Former,        \* a process that was killed and may have left its files behind
    Attempts,      \* the bound of the loop in acquire, for each process: 100 in the code
    Flaky,         \* the processes whose reads may fail, once or for ever (permissions, I/O)
    NoFile, Blank  \* no file at a path; the content of a file not yet written

Inode == (Process \cup {Former}) \X Nat

ASSUME LockAssumption ==
    /\ Former \notin Process
    /\ Attempts \in [Process -> Nat]
    /\ Flaky \subseteq Process
    /\ NoFile \notin Inode
    /\ Blank \notin Inode
    /\ NoFile # Blank

Path == {"lock", "gate"}

Stages == {"create", "write", "observe", "judge", "enter", "writeGate", "peekGate", "judgeGate",
           "claim", "settle", "discard", "restore", "dropRead", "dropMove", "dropSettle",
           "owner", "quiet", "leaving", "released", "denied", "failed", "gone", "killed"}

VARIABLES
    file,          \* the inode at each path, or NoFile
    written,       \* the inodes whose content has been written
    pc,            \* the next step of each process
    attempt,       \* the iterations of the loop each process has begun
    inside,        \* whether it holds the recovery gate
    seen,          \* the content it observed last
    moved,         \* the inode under its private name, or NoFile
    after          \* where it goes once a file of its own is dropped

vars == <<file, written, pc, attempt, inside, seen, moved, after>>

Alive(q) == q \in Process /\ pc[q] \notin {"gone", "killed"}
Raw(f) == IF f \in written THEN f ELSE Blank
LockOf(p) == <<p, 0>>
GateOf(p) == <<p, attempt[p]>>

\* Whether p takes its own instance for the holder: ownerToken is set.  A serving owner is a
\* Supervisor whose Core talks to it; a quiet one writes no snapshot of its status.
Believes(p) == pc[p] \in {"owner", "quiet"} \/ after[p] = "owner"

\* heldOwnerTokens: the tokens of the files p has created and not given up.
Held(p) ==
    {t \in {LockOf(p)} : pc[p] = "write" \/ Believes(p) \/ after[p] = "released"}
        \cup {t \in {GateOf(p)} : inside[p] \/ pc[p] = "writeGate"}

\* isHolderAlive, asked by p about the content raw it has read.
HolderAlive(p, raw) ==
    /\ raw # Blank
    /\ IF raw[1] = p THEN raw \in Held(p) ELSE Alive(raw[1])

-----------------------------------------------------------------------------
(* acquire                                                                 *)

\* MUTANT of Retry: the loop runs once more than its bound.
RetryOnceMore(p) ==
    IF attempt[p] <= Attempts[p]
    THEN pc' = [pc EXCEPT ![p] = "observe"] /\ attempt' = [attempt EXCEPT ![p] = @ + 1]
    ELSE pc' = [pc EXCEPT ![p] = "denied"] /\ UNCHANGED attempt

\* The next iteration of the loop, or its end.
Retry(p) ==
    IF attempt[p] < Attempts[p]
    THEN pc' = [pc EXCEPT ![p] = "observe"] /\ attempt' = [attempt EXCEPT ![p] = @ + 1]
    ELSE pc' = [pc EXCEPT ![p] = "denied"] /\ UNCHANGED attempt

\* The end of the try block: the gate is released before acquire goes on to s.
LeaveGate(p, s) ==
    /\ pc' = [pc EXCEPT ![p] = "dropRead"]
    /\ after' = [after EXCEPT ![p] = s]

\* tryAcquireOnce up to the exclusive creation, before the loop and inside the gate.
Create(p) ==
    /\ pc[p] = "create"
    /\ \/ /\ file["lock"] = NoFile
          /\ file' = [file EXCEPT !["lock"] = LockOf(p)]
          /\ pc' = [pc EXCEPT ![p] = "write"]
          /\ UNCHANGED <<attempt, after>>
       \/ /\ file["lock"] # NoFile /\ ~inside[p]
          /\ Retry(p)
          /\ UNCHANGED <<file, after>>
       \/ /\ file["lock"] # NoFile /\ inside[p]
          /\ LeaveGate(p, "retry")
          /\ UNCHANGED <<file, attempt>>
    /\ UNCHANGED <<written, inside, seen, moved>>

\* The content is written wherever the file is by now; the instance then takes itself for the owner.
Write(p) ==
    /\ pc[p] = "write"
    /\ written' = written \cup {LockOf(p)}
    /\ IF inside[p] THEN LeaveGate(p, "owner")
                    ELSE pc' = [pc EXCEPT ![p] = "owner"] /\ UNCHANGED after
    /\ UNCHANGED <<file, attempt, inside, seen, moved>>

\* The write fails: the path does not hold the token, so that the empty file is left behind.
WriteFails(p) ==
    /\ \/ /\ pc[p] = "write" /\ inside[p]
          /\ LeaveGate(p, "failed")
       \/ /\ pc[p] \in {"write", "writeGate"} /\ ~inside[p]
          /\ pc' = [pc EXCEPT ![p] = "failed"] /\ UNCHANGED after
    /\ UNCHANGED <<file, written, attempt, inside, seen, moved>>

\* readOwner finds nothing: the file f is missing, or it cannot be read, which is the same to it.
ReadsNothing(p, f) == f = NoFile \/ p \in Flaky

\* readOwner of the lock, at the head of the loop and again inside the gate.
Observe(p) ==
    /\ pc[p] = "observe"
    /\ \/ /\ ReadsNothing(p, file["lock"])
          /\ pc' = [pc EXCEPT ![p] = IF inside[p] THEN "create" ELSE "enter"] /\ UNCHANGED seen
       \/ /\ file["lock"] # NoFile
          /\ pc' = [pc EXCEPT ![p] = "judge"]
          /\ seen' = [seen EXCEPT ![p] = Raw(file["lock"])]
    /\ UNCHANGED <<file, written, attempt, inside, moved, after>>

\* What was observed is a local variable: it outlives the judgement only for a claim.
KeepsForClaim(p) == seen' = [seen EXCEPT ![p] = IF pc'[p] = "claim" THEN @ ELSE Blank]

\* isHolderAlive of what was read, a moment later: a live holder ends acquire with an error.
Judge(p) ==
    /\ pc[p] = "judge"
    /\ \/ /\ HolderAlive(p, seen[p]) /\ ~inside[p]
          /\ pc' = [pc EXCEPT ![p] = "denied"] /\ UNCHANGED after
       \/ /\ HolderAlive(p, seen[p]) /\ inside[p]
          /\ LeaveGate(p, "denied")
       \/ /\ ~HolderAlive(p, seen[p])
          /\ pc' = [pc EXCEPT ![p] = IF inside[p] THEN "claim" ELSE "enter"] /\ UNCHANGED after
    /\ KeepsForClaim(p)
    /\ UNCHANGED <<file, written, attempt, inside, moved>>

\* tryAcquireRecoveryGate: the exclusive creation of the gate.
Enter(p) ==
    /\ pc[p] = "enter"
    /\ \/ /\ file["gate"] = NoFile
          /\ file' = [file EXCEPT !["gate"] = GateOf(p)]
          /\ pc' = [pc EXCEPT ![p] = "writeGate"]
       \/ /\ file["gate"] # NoFile
          /\ pc' = [pc EXCEPT ![p] = "peekGate"]
          /\ UNCHANGED file
    /\ UNCHANGED <<written, attempt, inside, seen, moved, after>>

WriteGate(p) ==
    /\ pc[p] = "writeGate"
    /\ written' = written \cup {GateOf(p)}
    /\ inside' = [inside EXCEPT ![p] = TRUE]
    /\ pc' = [pc EXCEPT ![p] = "observe"]
    /\ UNCHANGED <<file, attempt, seen, moved, after>>

\* The gate is taken: look who has it.
PeekGate(p) ==
    /\ pc[p] = "peekGate"
    /\ \/ /\ ReadsNothing(p, file["gate"])
          /\ Retry(p) /\ UNCHANGED seen
       \/ /\ file["gate"] # NoFile
          /\ pc' = [pc EXCEPT ![p] = "judgeGate"]
          /\ seen' = [seen EXCEPT ![p] = Raw(file["gate"])]
          /\ UNCHANGED attempt
    /\ UNCHANGED <<file, written, inside, moved, after>>

\* MUTANT of JudgeGate: a gate left behind by a dead process is respected for ever.
JudgeGateTrusting(p) ==
    /\ pc[p] = "judgeGate"
    /\ Retry(p)
    /\ KeepsForClaim(p)
    /\ UNCHANGED <<file, written, inside, moved, after>>

JudgeGate(p) ==
    /\ pc[p] = "judgeGate"
    /\ \/ HolderAlive(p, seen[p]) /\ Retry(p)
       \/ ~HolderAlive(p, seen[p]) /\ pc' = [pc EXCEPT ![p] = "claim"] /\ UNCHANGED attempt
    /\ KeepsForClaim(p)
    /\ UNCHANGED <<file, written, inside, moved, after>>

-----------------------------------------------------------------------------
(* claimStalePath: the lock from inside the gate, the gate from outside.   *)

Target(p) == IF inside[p] THEN "lock" ELSE "gate"

\* What follows a claim: the exclusive creation inside the gate, the next iteration outside.
Claimed(p) ==
    IF inside[p] THEN pc' = [pc EXCEPT ![p] = "create"] /\ UNCHANGED attempt ELSE Retry(p)

\* rename to the private name; ENOENT means somebody was faster.
Claim(p) ==
    /\ pc[p] = "claim"
    /\ \/ /\ file[Target(p)] = NoFile
          /\ Claimed(p) /\ UNCHANGED <<file, moved>>
       \/ /\ file[Target(p)] # NoFile
          /\ moved' = [moved EXCEPT ![p] = file[Target(p)]]
          /\ file' = [file EXCEPT ![Target(p)] = NoFile]
          /\ pc' = [pc EXCEPT ![p] = "settle"] /\ UNCHANGED attempt
    /\ UNCHANGED <<written, inside, seen, after>>

\* MUTANT of Compare: whatever was renamed away is taken for what was observed.
CompareUnseen(p) ==
    /\ pc[p] = "settle"
    /\ pc' = [pc EXCEPT ![p] = "discard"]
    /\ UNCHANGED <<file, written, attempt, inside, seen, moved, after>>

\* The file under the private name is read.  A read that fails is null, which equals nothing.
Compare(p) ==
    /\ pc[p] = "settle"
    /\ \/ Raw(moved[p]) = seen[p] /\ pc' = [pc EXCEPT ![p] = "discard"]
       \/ /\ Raw(moved[p]) # seen[p] \/ p \in Flaky
          /\ pc' = [pc EXCEPT ![p] = "restore"]
    /\ UNCHANGED <<file, written, attempt, inside, seen, moved, after>>

\* What was observed is removed, whatever its creator has written in the meantime.
Discard(p) ==
    /\ pc[p] = "discard"
    /\ moved' = [moved EXCEPT ![p] = NoFile]
    /\ seen' = [seen EXCEPT ![p] = Blank]
    /\ Claimed(p)
    /\ UNCHANGED <<file, written, inside, after>>

\* A latecomer is renamed back, over whatever is at the path by now.
Restore(p) ==
    /\ pc[p] = "restore"
    /\ file' = [file EXCEPT ![Target(p)] = moved[p]]
    /\ moved' = [moved EXCEPT ![p] = NoFile]
    /\ seen' = [seen EXCEPT ![p] = Blank]
    /\ Claimed(p)
    /\ UNCHANGED <<written, inside, after>>

-----------------------------------------------------------------------------
(* releaseOwnedPath: the lock on release(), the gate otherwise.            *)

Own(p) == IF after[p] = "released" THEN LockOf(p) ELSE GateOf(p)
Place(p) == IF after[p] = "released" THEN "lock" ELSE "gate"

Dropped(p) ==
    /\ inside' = [inside EXCEPT ![p] = FALSE]
    /\ after' = [after EXCEPT ![p] = "retry"]
    /\ IF after[p] = "retry" THEN Retry(p)
                             ELSE pc' = [pc EXCEPT ![p] = after[p]] /\ UNCHANGED attempt

DropRead(p) ==
    /\ pc[p] = "dropRead"
    /\ \/ /\ file[Place(p)] # NoFile /\ Raw(file[Place(p)]) = Own(p)
          /\ pc' = [pc EXCEPT ![p] = "dropMove"]
          /\ UNCHANGED <<inside, after, attempt>>
       \/ /\ ReadsNothing(p, file[Place(p)]) \/ Raw(file[Place(p)]) # Own(p)
          /\ Dropped(p)
    /\ UNCHANGED <<file, written, seen, moved>>

DropMove(p) ==
    /\ pc[p] = "dropMove"
    /\ \/ /\ file[Place(p)] = NoFile
          /\ Dropped(p) /\ UNCHANGED <<file, moved>>
       \/ /\ file[Place(p)] # NoFile
          /\ moved' = [moved EXCEPT ![p] = file[Place(p)]]
          /\ file' = [file EXCEPT ![Place(p)] = NoFile]
          /\ pc' = [pc EXCEPT ![p] = "dropSettle"]
          /\ UNCHANGED <<inside, after, attempt>>
    /\ UNCHANGED <<written, seen>>

\* Here the reading and what follows it are one step: whether the renamed file holds p's own
\* complete record cannot change in between, since only p writes that record.
DropSettle(p) ==
    /\ pc[p] = "dropSettle"
    /\ \/ Raw(moved[p]) = Own(p) /\ UNCHANGED file
       \/ /\ Raw(moved[p]) # Own(p) \/ p \in Flaky
          /\ file' = [file EXCEPT ![Place(p)] = moved[p]]
    /\ moved' = [moved EXCEPT ![p] = NoFile]
    /\ Dropped(p)
    /\ UNCHANGED <<written, seen>>

-----------------------------------------------------------------------------
(* The owner's life.                                                       *)

\* release(): the token is forgotten first, then the path is cleared if it is still its own.
Release(p) ==
    /\ pc[p] \in {"owner", "quiet"}
    /\ pc' = [pc EXCEPT ![p] = "dropRead"]
    /\ after' = [after EXCEPT ![p] = "released"]
    /\ UNCHANGED <<file, written, attempt, inside, seen, moved>>

\* MUTANT of Lost: a foreign owner at the path is not counted as a loss.
LostMissing(p) == file["lock"] = NoFile

\* readLoss: the path is empty, or holds something that is not the content p has written.
Lost(p) == file["lock"] = NoFile \/ Raw(file["lock"]) # LockOf(p)

\* A message of the Core makes the Supervisor write a snapshot of its status, and it looks at its
\* lock first: it steps down without touching the path.
Watch(p) ==
    /\ pc[p] = "owner" /\ Lost(p)
    /\ pc' = [pc EXCEPT ![p] = "leaving"]
    /\ UNCHANGED <<file, written, attempt, inside, seen, moved, after>>

\* The owner has no Core that talks: it has not started one yet, or the Core has crashed too often,
\* was stopped, or could not be brought back; a lifecycle command never has one.
Quiet(p) ==
    /\ pc[p] = "owner"
    /\ pc' = [pc EXCEPT ![p] = "quiet"]
    /\ UNCHANGED <<file, written, attempt, inside, seen, moved, after>>

\* An operation starts the Core of a quiet Supervisor again, if there ever is one: it writes a
\* snapshot first, and looks.
Wake(p) ==
    /\ pc[p] = "quiet"
    /\ pc' = [pc EXCEPT ![p] = IF Lost(p) THEN "leaving" ELSE "owner"]
    /\ UNCHANGED <<file, written, attempt, inside, seen, moved, after>>

\* The memory of a process goes with it; a file under a private name is out of the way for ever.
Ended(p, s) ==
    /\ pc' = [pc EXCEPT ![p] = s]
    /\ attempt' = [attempt EXCEPT ![p] = 0]
    /\ inside' = [inside EXCEPT ![p] = FALSE]
    /\ seen' = [seen EXCEPT ![p] = Blank]
    /\ moved' = [moved EXCEPT ![p] = NoFile]
    /\ after' = [after EXCEPT ![p] = "retry"]
    /\ UNCHANGED <<file, written>>

Through == {"leaving", "released", "denied", "failed"}

\* The process of an instance that is through ends.
Exit(p) == pc[p] \in Through /\ Ended(p, "gone")

\* kill -9 or power loss at any step.
Kill(p) == Alive(p) /\ pc[p] \notin Through /\ Ended(p, "killed")

Acquire(p) == \/ Create(p) \/ Write(p) \/ Observe(p) \/ Judge(p) \/ Enter(p) \/ WriteGate(p)
              \/ PeekGate(p) \/ JudgeGate(p) \/ Claim(p) \/ Compare(p)
              \/ Discard(p) \/ Restore(p) \/ DropRead(p) \/ DropMove(p) \/ DropSettle(p)

Step(p) == \/ Acquire(p) \/ WriteFails(p) \/ Release(p) \/ Watch(p) \/ Quiet(p) \/ Wake(p)
           \/ Exit(p) \/ Kill(p)

Next == \E p \in Process : Step(p)

\* Files a dead process may leave: none, an empty or a complete lock, and the same for the gate.
Init ==
    /\ file \in [Path -> {NoFile, <<Former, 0>>}]
    /\ written \in SUBSET ({file[x] : x \in Path} \ {NoFile})
    /\ pc = [p \in Process |-> "create"]
    /\ attempt = [p \in Process |-> 0]
    /\ inside = [p \in Process |-> FALSE]
    /\ seen = [p \in Process |-> Blank]
    /\ moved = [p \in Process |-> NoFile]
    /\ after = [p \in Process |-> "retry"]

Spec == Init /\ [][Next]_vars

\* Every process takes its steps and ends when it is through, and a serving owner that can read its
\* lock looks at it again and again: each message of its Core, a heartbeat every ten seconds among
\* them, writes a snapshot.  Nothing forces a quiet owner to look, a release, a failure or a kill.
FairSpec ==
    /\ Spec
    /\ \A p \in Process : WF_vars(Acquire(p) \/ Exit(p))
    /\ \A p \in Process \ Flaky : WF_vars(Watch(p))

-----------------------------------------------------------------------------
(* Properties.                                                             *)

\* Type invariant; beside the types, the loop keeps its bound and a private name is in use only
\* between a rename and what follows it.
TypeOK ==
    /\ file \in [Path -> Inode \cup {NoFile}]
    /\ written \subseteq Inode
    /\ pc \in [Process -> Stages]
    /\ attempt \in [Process -> Nat] /\ \A p \in Process : attempt[p] <= Attempts[p]
    /\ inside \in [Process -> BOOLEAN]
    /\ seen \in [Process -> Inode \cup {Blank}]
    /\ moved \in [Process -> Inode \cup {NoFile}]
    /\ after \in [Process -> {"retry", "owner", "denied", "failed", "released"}]
    /\ \A p \in Process :
           moved[p] # NoFile <=> pc[p] \in {"settle", "discard", "restore", "dropSettle"}

\* The complete file of a process that lives on it: an owner's lock or the gate of one inside.
InUse(i) ==
    /\ i \in written
    /\ i[1] \in Process
    /\ \/ i = LockOf(i[1]) /\ Believes(i[1])
       \/ i = GateOf(i[1]) /\ inside[i[1]]

\* The files that are at a path or under a private name.
Present == ({file[x] : x \in Path} \cup {moved[q] : q \in Process}) \ {NoFile}

\* The ways in which a step of p destroys the file i: it is a file of its own; p claimed it as an
\* empty file; p puts another one back over it, which is not the one it meant to claim or to
\* release, or which it cannot read; p is killed after it has renamed i away.
Destroys(p, i) ==
    \/ i[1] = p
    \/ pc[p] = "discard" /\ moved[p] = i /\ seen[p] = Blank
    \/ /\ pc[p] = "restore" /\ moved[p] # i
       /\ Raw(moved[p]) # seen[p] \/ p \in Flaky
    \/ /\ pc[p] = "dropSettle" /\ moved[p] # i
       /\ Raw(moved[p]) # Own(p) \/ p \in Flaky
    \/ pc'[p] = "killed" /\ moved[p] = i

\* A complete file that a live process relies on is lost in these ways only.  In particular nobody
\* who has observed a complete record removes a file in use: the record named a dead process, or
\* the comparison tells the latecomer's file from it (lock.ts:194-226).
LossesAccounted ==
    [][\A i \in Present \ Present' :
           InUse(i) => \E p \in Process : pc'[p] # pc[p] /\ Destroys(p, i)]_vars

\* Two processes may both take themselves for the owner; the watch on the lock leaves at most one
\* that serves and can read it (supervisor.ts:107-135).  A quiet owner may believe for ever.
OwnersConverge ==
    <>[](\A p, q \in Process \ Flaky : pc[p] = "owner" /\ pc[q] = "owner" => p = q)

\* Whatever the dead have left behind, at whichever step they were killed, the only process left
\* becomes the owner, unless it cannot write its own file or read the others', or is killed as
\* well (lock.ts:57-87).
StaleTakenOver ==
    \A p \in {q \in Process \ Flaky : Attempts[q] > 1} :
        pc[p] = "create" /\ attempt[p] = 0 /\ (\A q \in Process \ {p} : ~Alive(q))
            ~> Believes(p) \/ pc[p] \in {"failed", "killed"}
=============================================================================
