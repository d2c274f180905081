---------------------------- MODULE ReplayOrder ----------------------------
(***************************************************************************)
(* The settle-order gate of a resumed workflow run                         *)
(* (dynamic-workflow/src/engine/replay-order.ts), over the lives of a run. *)
(*                                                                         *)
(* A life runs the script from its beginning.  An ask whose row is already *)
(* settled is answered from the journal, but only when the asks that       *)
(* settled before it in earlier lives have been; an ask whose row is still *)
(* running is run again.  A life ends when the process is killed or the    *)
(* run is stopped; the journal survives, the gate does not.                *)
(*                                                                         *)
(* Abstracted: the admission of asks and their dispatch (AskScheduler);    *)
(* the rows that never wait at the gate; and every event of an instance    *)
(* after its first settlement event, which the recovery skips.             *)
(***************************************************************************)
EXTENDS Fifo

CONSTANTS
    Asks,          \* the instances the script asks
    After,         \* the answers the script awaits before it asks each of them
    MaxLives       \* bound: resumes stop here

ASSUME ReplayAssumption ==
    /\ After \in [Asks -> SUBSET Asks]
    /\ MaxLives \in Nat

VARIABLES
    row,           \* journal: each ask's status, "none", "running" or "settled"
    log,           \* journal: the first settlement event of each ask, in order
    life,          \* the number of the life, 0 while the run is down
    lives,         \* lives begun so far
    inFlight,      \* this life: the asks being run, in admission order
    writing,       \* this life: {} or the ask whose row is written and whose event is not yet
    seen,          \* this life: the asks answered to the script, in order
    order,         \* this life: the recovered table
    cursor,        \* this life: how much of the table has been released
    parked,        \* this life: the asks waiting for their place in the table
    queue,         \* this life: the releases waiting for their microtask
    firstSeen      \* history: the asks in the order any life first answered them

journal == <<row, log>>
memory == <<inFlight, writing, seen, order, cursor, parked, queue>>
vars == <<journal, life, lives, memory, firstSeen>>

\* What is left of a line when only the members of S, or all others, may stay.
Only(s, S) ==
    LET kept[n \in 0..Len(s)] ==
            IF n = 0 THEN <<>>
            ELSE IF s[n] \in S THEN Append(kept[n - 1], s[n]) ELSE kept[n - 1]
    IN  kept[Len(s)]
Except(s, S) == Only(s, Members(s) \ S)

\* The asks the log has events of, in order, and those among them that were cancelled.
Logbook == [i \in 1..Len(log) |-> log[i].ask]
Cancelled == {log[i].ask : i \in {j \in 1..Len(log) : log[j].outcome = "cancelled"}}

Settled == {q \in Asks : row[q] = "settled"}
Asked == Members(inFlight) \cup Members(seen) \cup parked \cup Members(queue)

\* The log with a settlement event for each ask of the sequence s that has none yet.
Logged(s, outcome) ==
    LET fresh == Except(s, Members(Logbook))
    IN  log \o [i \in 1..Len(fresh) |-> [ask |-> fresh[i], outcome |-> outcome]]

\* The asks of s are answered: the event is recorded, then the promise resolved.
Answer(s) ==
    /\ log' = Logged(s, "answered")
    /\ seen' = seen \o s
    /\ firstSeen' = firstSeen \o Except(s, Members(firstSeen))

-----------------------------------------------------------------------------
(* The gate.                                                               *)

\* MUTANT of Recovered: rows still running stand in the table.
RecoveredUnfiltered == Logbook

\* MUTANT of Recovered: the events are read newest first.
RecoveredNewestFirst ==
    LET asks == [i \in 1..Len(log) |-> log[Len(log) + 1 - i].ask]
    IN  Only(asks, Settled)

\* recoverSettleOrder: the events of the asks whose rows are settled; their outcome is not read.
Recovered == Only(Logbook, Settled)

\* The furthest the cursor goes when the asks `held` have arrived.
Reach(held) ==
    CHOOSE n \in cursor..Len(order) :
        /\ \A i \in (cursor + 1)..n : order[i] \in held
        /\ n < Len(order) => order[n + 1] \notin held

\* MUTANT of Hold: an answer leaves as soon as it is asked for.
HoldNothing(q) == Answer(<<q>>) /\ UNCHANGED <<cursor, parked, queue>>

\* MUTANT of Hold: an answer that passes straight through is not recorded.
HoldUnrecorded(q) ==
    IF q \notin Members(SubSeq(order, cursor + 1, Len(order)))
    THEN /\ seen' = Append(seen, q)
         /\ firstSeen' = firstSeen \o Except(<<q>>, Members(firstSeen))
         /\ UNCHANGED <<log, cursor, parked, queue>>
    ELSE LET n == Reach(parked \cup {q})
             released == SubSeq(order, cursor + 1, n)
         IN  /\ cursor' = n
             /\ queue' = queue \o released
             /\ parked' = (parked \cup {q}) \ Members(released)
             /\ UNCHANGED <<log, seen, firstSeen>>

Hold(q) ==
    IF q \notin Members(SubSeq(order, cursor + 1, Len(order)))
    THEN Answer(<<q>>) /\ UNCHANGED <<cursor, parked, queue>>
    ELSE LET n == Reach(parked \cup {q})
             released == SubSeq(order, cursor + 1, n)
         IN  /\ cursor' = n
             /\ queue' = queue \o released
             /\ parked' = (parked \cup {q}) \ Members(released)
             /\ UNCHANGED <<log, seen, firstSeen>>

-----------------------------------------------------------------------------
(* The steps of a life.                                                    *)

Init ==
    /\ row = [q \in Asks |-> "none"]
    /\ log = <<>>
    /\ life = 0 /\ lives = 0
    /\ inFlight = <<>> /\ writing = {} /\ seen = <<>>
    /\ order = <<>> /\ cursor = 0 /\ parked = {} /\ queue = <<>>
    /\ firstSeen = <<>>

\* MUTANT of Begin: the resume is not counted.
BeginUncounted ==
    /\ life = 0 /\ lives < MaxLives
    /\ life' = lives + 1
    /\ order' = Recovered
    /\ inFlight' = <<>> /\ writing' = {} /\ seen' = <<>>
    /\ cursor' = 0 /\ parked' = {} /\ queue' = <<>>
    /\ UNCHANGED <<journal, lives, firstSeen>>

Begin ==
    /\ life = 0 /\ lives < MaxLives
    /\ lives' = lives + 1 /\ life' = lives + 1
    /\ order' = Recovered
    /\ inFlight' = <<>> /\ writing' = {} /\ seen' = <<>>
    /\ cursor' = 0 /\ parked' = {} /\ queue' = <<>>
    /\ UNCHANGED <<journal, firstSeen>>

Ask(q) ==
    /\ life # 0 /\ writing = {}
    /\ q \notin Asked /\ After[q] \subseteq Members(seen)
    /\ \/ /\ row[q] = "settled"
          /\ Hold(q)
          /\ UNCHANGED <<row, inFlight>>
       \/ /\ row[q] # "settled"
          /\ row' = [row EXCEPT ![q] = "running"]
          /\ inFlight' = Append(inFlight, q)
          /\ UNCHANGED <<log, seen, firstSeen, cursor, parked, queue>>
    /\ UNCHANGED <<life, lives, writing, order>>

\* The microtask that delivers what the gate has released.
Flush ==
    /\ life # 0 /\ writing = {} /\ queue # <<>>
    /\ Answer(queue)
    /\ queue' = <<>>
    /\ UNCHANGED <<row, life, lives, inFlight, writing, order, cursor, parked>>

\* A running ask ends, which takes a macrotask: the queued releases have run.  Its row is written
\* first ...
SettleRow(q) ==
    /\ life # 0 /\ writing = {} /\ queue = <<>>
    /\ q \in Members(inFlight)
    /\ row' = [row EXCEPT ![q] = "settled"]
    /\ writing' = {q}
    /\ UNCHANGED <<log, life, lives, inFlight, seen, order, cursor, parked, queue, firstSeen>>

\* ... and then its event, with another statement of the database.
SettleEvent ==
    /\ life # 0
    /\ \E q \in writing : Answer(<<q>>) /\ inFlight' = Except(inFlight, {q})
    /\ writing' = {}
    /\ UNCHANGED <<row, life, lives, order, cursor, parked, queue>>

Down ==
    /\ life' = 0
    /\ UNCHANGED <<row, lives, memory, firstSeen>>

\* The process is killed, between the two writes of a settlement if it so happens.
Kill == life # 0 /\ Down /\ UNCHANGED log

\* The run is stopped: abortInFlight records a cancellation of every ask still being run.
Stop == life # 0 /\ writing = {} /\ Down /\ log' = Logged(inFlight, "cancelled")

Next ==
    \/ Begin
    \/ \E q \in Asks : Ask(q) \/ SettleRow(q)
    \/ Flush \/ SettleEvent
    \/ Kill \/ Stop

Spec == Init /\ [][Next]_vars

\* The script is deterministic: what it asked in one life it asks in the next.  Microtasks run.
Fairness ==
    /\ WF_vars(Flush)
    /\ WF_vars(SettleEvent)
    /\ \A q \in Asks : WF_vars(row[q] # "none" /\ Ask(q))

FairSpec == Spec /\ Fairness

-----------------------------------------------------------------------------
(* Properties.                                                             *)

\* Type invariant.
TypeOK ==
    /\ row \in [Asks -> {"none", "running", "settled"}]
    /\ log \in Seq([ask : Asks, outcome : {"answered", "cancelled"}])
    /\ life \in 0..lives /\ lives \in 0..MaxLives
    /\ inFlight \in Seq(Asks) /\ seen \in Seq(Asks) /\ queue \in Seq(Asks)
    /\ writing \subseteq Asks /\ parked \subseteq Asks
    /\ order \in Seq(Asks) /\ cursor \in 0..Len(order)
    /\ firstSeen \in Seq(Asks)

\* What the script has been told of the table, with what is queued for its microtask, is the
\* table up to the cursor and in its order, whatever order the script asked in.
ReleasedInOrder ==
    life # 0 => Only(seen, Members(order)) \o queue = SubSeq(order, 1, cursor)

\* "The induction underneath it" (execution-engine.md, "Replaying the settle order"): all the
\* answers a table entry was asked after stand before it in the table, kills between the two
\* writes and cancelled asks notwithstanding.  Without it the gate would wait for an ask the
\* script cannot make.
TableClosed ==
    \A i \in 1..Len(order) : After[order[i]] \subseteq Members(SubSeq(order, 1, i - 1))

\* Asks never cancelled stand in the table in the order the script first saw their answers.
UncancelledInSeenOrder ==
    life # 0 => Except(order, Cancelled) = Except(Only(firstSeen, Members(order)), Cancelled)

\* "A third life recovers the same schedule" (execution-engine.md, "Replaying the settle order";
\* the comment of recoverSettleOrder says so too): the table lists the asks whose answers the
\* script has seen in the order it first saw them.
SameSchedule == life # 0 => Only(order, Members(firstSeen)) = Only(firstSeen, Members(order))

\* The gate never locks a replay: every ask answered from the journal is answered, or the life
\* ends.
ReplayDrains ==
    \A q \in Asks : life # 0 /\ q \in parked ~> life = 0 \/ q \in Members(seen)

=============================================================================
