--------------------------- MODULE JobQueueProofs ---------------------------
(***************************************************************************)
(* Proofs about JobQueue, for every set of jobs, machines and handlers and  *)
(* every budget and cap.                                                    *)
(*                                                                          *)
(* Every step of the queue is first shown to do one of a dozen named things *)
(* to each row (RowStep), with at most one machine gaining a row in it      *)
(* (Shapes).  What the properties need then follows row by row: from the    *)
(* rows alone (RowOK), or with what an open handler may still rely on when  *)
(* it comes to write (TxOK).                                                *)
(***************************************************************************)
EXTENDS JobQueue, FiniteSetTheorems, TLAPS

-----------------------------------------------------------------------------
(* What a step may do to a row *)

Born(j) == jobs[j].state = "absent" /\ \E from \in Jobs \cup {NoJob} : jobs'[j] = Queued(from)
StoppedWaiting(j) ==
    jobs[j].state = "queued" /\ jobs'[j] = [jobs[j] EXCEPT !.state = "failed", !.cancel = TRUE]
AskedToStop(j) ==
    /\ Held(jobs[j]) \/ jobs[j].state = "pinned"
    /\ jobs'[j] = [jobs[j] EXCEPT !.cancel = TRUE]
GivenTo(j, m) ==
    jobs[j].state = "queued" /\ ~jobs[j].cancel /\ jobs'[j] = Claimed(jobs[j], m)
Beats(j) == Held(jobs[j]) /\ jobs'[j] = [jobs[j] EXCEPT !.state = "running"]
Expires(j) ==
    /\ Held(jobs[j]) /\ jobs'[j] = [jobs[j] EXCEPT !.lease = "lapsed"]
    /\ tx' = tx /\ \A t \in Threads : tx[t].op = "claim" => j \notin tx[t].ids
Finishes(j) ==
    Held(jobs[j]) /\ jobs'[j] = [jobs[j] EXCEPT !.state = "done", !.lease = "none"]
OwnFailure(j) ==
    \E t \in Threads : /\ tx[t].op = "fail" /\ tx[t].who = jobs[j].holder
                       /\ j \in tx[t].ids /\ tx'[t] = Idle
GivenUp(j) ==
    /\ Lapsed(jobs[j]) \/ (Held(jobs[j]) /\ OwnFailure(j))
    /\ \E read \in Row, pin \in BOOLEAN, final \in BOOLEAN :
          /\ read.attempts = jobs[j].attempts
          /\ jobs'[j] = LetGo(j, read, pin, final)
PassedTo(j, m) ==
    /\ Lapsed(jobs[j]) /\ ~jobs[j].cancel
    /\ \E read \in Row, pin \in BOOLEAN :
          /\ read.attempts = jobs[j].attempts
          /\ LetGo(j, read, pin, FALSE).state = "queued"
          /\ jobs'[j] = Claimed(LetGo(j, read, pin, FALSE), m)
Deleted(j) == Terminal(jobs[j]) /\ jobs'[j] = [Blank EXCEPT !.state = "pruned"]
InHouse(j) ==
    /\ jobs[j].state = "pinned"
    /\ \/ hand' = j /\ jobs'[j] = [jobs[j] EXCEPT !.holder = Dash]
       \/ /\ hand' = NoEngine /\ jobs[j].holder = Dash
          /\ jobs'[j] = [jobs[j] EXCEPT !.holder = Nobody]
       \/ hand = j /\ hand' = NoJob /\ jobs'[j] = [jobs[j] EXCEPT !.state = "done"]
       \/ /\ hand = j /\ hand' = NoJob
          /\ jobs'[j] = [jobs[j] EXCEPT !.state = "abandoned", !.holder = Nobody,
                                        !.attempts = @ + 1]

\* A step that neither hands the row to a machine nor finishes it for one.
Quiet(j) ==
    \/ jobs'[j] = jobs[j]
    \/ Born(j) \/ StoppedWaiting(j) \/ AskedToStop(j) \/ Beats(j) \/ Expires(j)
    \/ GivenUp(j) \/ Deleted(j) \/ InHouse(j)

Granted(j, m) == GivenTo(j, m) \/ PassedTo(j, m)

RowStep(j) == Quiet(j) \/ Finishes(j) \/ \E m \in Machines : Granted(j, m)

\* The three shapes of a step of the whole table.
QuietStep == \A x \in Jobs : Quiet(x)

FinishStep(m, j) ==
    /\ Finishes(j) /\ jobs[j].holder = m /\ ~Calling(m) /\ tx' = tx
    /\ \A x \in Jobs \ {j} : Quiet(x)

Others(j) == {x \in Jobs : x # j /\ KindOf[x] = KindOf[j] /\ Held(jobs'[x])}

GrantStep(t, m, j) ==
    /\ Granted(j, m) /\ tx[t].who = m /\ Ended(t)
    /\ Cardinality(Others(j)) < Cap[KindOf[j]]
    /\ \A x \in Jobs \ {j} : Quiet(x) /\ ~HeldBy(jobs'[x], m)

-----------------------------------------------------------------------------
(* The inductive invariant *)

\* A row on its own: the lease, the holder, the attempts and the state agree.
RowOK(j) ==
    /\ Held(jobs[j]) <=> jobs[j].lease # "none"
    /\ Held(jobs[j]) => jobs[j].holder \in Machines
    /\ jobs[j].holder \in Machines => Held(jobs[j]) \/ jobs[j].state = "done"
    /\ jobs[j].state = "pinned" => jobs[j].holder \in {Nobody, Dash}
    /\ jobs[j].state \in HeldStates \cup {"queued"} =>
           jobs[j].attempts < Budget[KindOf[j]]
    /\ jobs[j].state = "absent" => jobs[j] = Blank
    /\ jobs[j].state = "queued" => jobs[j].holder = Nobody

RowsOK == \A j \in Jobs : RowOK(j)

\* What an open handler may still rely on when it comes to write.
TxOK ==
    /\ \A t \in Threads :
        /\ tx[t].op \in {"claim", "take", "fail"} => tx[t].who \in Machines
        /\ tx[t].op = "claim" =>
              \A j \in tx[t].ids :
                 /\ tx[t].seen[j].holder \in Machines
                 /\ Lapsed(jobs[j]) => tx[t].seen[j].attempts = jobs[j].attempts
        /\ tx[t].op = "fail" =>
              \A j \in tx[t].ids : jobs[j].holder = tx[t].who =>
                 Held(jobs[j]) /\ tx[t].seen[j].attempts = jobs[j].attempts
        /\ tx[t].op = "take" /\ tx[t].ids # {} =>
              \A j \in Jobs : ~HeldBy(jobs[j], tx[t].who)
    /\ \A t, u \in Threads : tx[t].who = tx[u].who /\ tx[t].who \in Machines => t = u

Ind == TypeOK /\ RowsOK /\ TxOK /\ OneJobPerMachine

-----------------------------------------------------------------------------
(* Rows *)

LEMMA LetGoFacts ==
    ASSUME NEW j \in Jobs, jobs \in [Jobs -> Row], NEW read \in Row,
           NEW pin \in BOOLEAN, NEW final \in BOOLEAN
    PROVE  LET r == LetGo(j, read, pin, final)
           IN /\ r \in Row
              /\ r.state \in {"failed", "pinned", "abandoned", "queued"}
              /\ r.holder = Nobody /\ r.lease = "none" /\ r.cancel = jobs[j].cancel
              /\ r.attempts = read.attempts + 1
              /\ r.state = "queued" => r.attempts < Budget[KindOf[j]] /\ ~read.cancel
              /\ r.state = "pinned" => r.attempts >= Budget[KindOf[j]] /\ KindOf[j] \in Pinnable
<1> DEFINE next == AfterAttempt(j, read, pin, final)
           r == [jobs[j] EXCEPT !.state = next, !.attempts = read.attempts + 1,
                                !.holder = Nobody, !.lease = "none"]
<1>1. next \in {"failed", "pinned", "abandoned", "queued"}
  BY DEF AfterAttempt, SpentState
<1>2. next = "queued" => ~(read.attempts + 1 >= Budget[KindOf[j]]) /\ ~read.cancel
  BY DEF AfterAttempt, SpentState
<1>3. next = "pinned" => read.attempts + 1 >= Budget[KindOf[j]] /\ KindOf[j] \in Pinnable
  BY DEF AfterAttempt, SpentState
<1>4. Budget[KindOf[j]] \in Nat /\ read.attempts + 1 \in Nat
  BY JobQueueAssumption DEF Row
<1>5. next \in States
  BY <1>1 DEF States, TerminalStates
<1> HIDE DEF next
<1>6. /\ r \in Row
      /\ r.state = next /\ r.holder = Nobody /\ r.lease = "none"
      /\ r.cancel = jobs[j].cancel /\ r.attempts = read.attempts + 1
  BY <1>4, <1>5 DEF Row
<1>7. LetGo(j, read, pin, final) = r
  BY DEF LetGo, next
<1> HIDE DEF r
<1> QED
  BY <1>1, <1>2, <1>3, <1>4, <1>6, <1>7

LEMMA LetGoCancel ==
    ASSUME NEW j \in Jobs, jobs \in [Jobs -> Row], NEW read, NEW pin, NEW final
    PROVE  LetGo(j, read, pin, final).cancel = jobs[j].cancel
  BY DEF LetGo, Row

LEMMA ClaimedType ==
    ASSUME NEW r \in Row, NEW m \in Machines
    PROVE  Claimed(r, m) \in Row
<1>1. "claimed" \in States BY DEF States, HeldStates
<1> QED BY <1>1 DEF Claimed, Row
LEMMA QueuedType ==
    ASSUME NEW from \in Jobs \cup {NoJob}
    PROVE  Queued(from) \in Row
<1>1. {"queued", "absent"} \subseteq States BY DEF States
<1>2. Blank \in Row BY <1>1 DEF Blank, Row
<1> QED BY <1>1, <1>2 DEF Row, Queued

LEMMA BlankType == Blank \in Row /\ NoRows \in [Jobs -> Row] /\ Idle \in Tx
<1>1. {"absent"} \subseteq States BY DEF States
<1>2. Blank \in Row BY <1>1 DEF Blank, Row
<1>3. NoRows \in [Jobs -> Row] BY <1>2 DEF NoRows
<1> QED BY <1>2, <1>3 DEF Idle, Tx, Ops

LEMMA RowTypes ==
    ASSUME TypeOK, NEW j \in Jobs, RowStep(j)
    PROVE jobs'[j] \in Row
<1> USE DEF TypeOK
<1>0. {"failed", "done", "running", "claimed", "abandoned", "queued", "pruned"} \subseteq States
  BY DEF States, HeldStates, TerminalStates
<1>1. CASE jobs'[j] = jobs[j] BY <1>1
<1>2. CASE Born(j)
  <2>1. PICK from \in Jobs \cup {NoJob} : jobs'[j] = Queued(from)
    BY <1>2 DEF Born
  <2> QED BY <2>1, QueuedType
<1>3. CASE StoppedWaiting(j) BY <1>0, <1>3 DEF StoppedWaiting, Row
<1>4. CASE AskedToStop(j) BY <1>0, <1>4 DEF AskedToStop, Row
<1>5. CASE Beats(j) BY <1>0, <1>5 DEF Beats, Row
<1>6. CASE Expires(j) BY <1>0, <1>6 DEF Expires, Row
<1>7. CASE Finishes(j) BY <1>0, <1>7 DEF Finishes, Row
<1>8. CASE GivenUp(j) BY <1>0, <1>8, LetGoFacts DEF GivenUp
<1>9. CASE Deleted(j) BY <1>0, <1>9, BlankType DEF Deleted, Row
<1>10. CASE InHouse(j)
  <2>1. jobs[j] \in Row OBVIOUS
  <2>2. jobs[j].attempts + 1 \in Nat BY <2>1 DEF Row
  <2> QED BY <1>0, <1>10, <2>1, <2>2 DEF InHouse, Row
<1>11. ASSUME NEW m \in Machines, GivenTo(j, m) PROVE jobs'[j] \in Row
  BY <1>11, ClaimedType DEF GivenTo
<1>12. ASSUME NEW m \in Machines, PassedTo(j, m) PROVE jobs'[j] \in Row
  <2>1. PICK read \in Row, pin \in BOOLEAN : jobs'[j] = Claimed(LetGo(j, read, pin, FALSE), m)
    BY <1>12 DEF PassedTo
  <2>2. LetGo(j, read, pin, FALSE) \in Row
    BY LetGoFacts
  <2> QED BY <2>1, <2>2, ClaimedType
<1> QED BY <1>1, <1>2, <1>3, <1>4, <1>5, <1>6, <1>7, <1>8, <1>9, <1>10, <1>11, <1>12 DEF RowStep, Quiet, Granted

\* Whatever is done to a row, the row stays consistent.
LEMMA RowsStayOK ==
    ASSUME TypeOK, NEW j \in Jobs, RowOK(j), RowStep(j)
    PROVE  RowOK(j)'
<1> DEFINE r == jobs'[j]
           b == Budget[KindOf[j]]
<1>0. /\ jobs[j] \in Row /\ r \in Row /\ b \in Nat \ {0}
      /\ Nobody \notin Machines /\ Dash \notin Machines
  BY RowTypes, JobQueueAssumption DEF TypeOK
<1>1. CASE r = jobs[j]
  BY <1>1 DEF RowOK
<1>2. CASE Born(j)
  <2>1. r.state = "queued" /\ r.holder = Nobody /\ r.lease = "none" /\ r.attempts = 0
    BY <1>2 DEF Born, Queued, Blank
  <2> QED BY <1>0, <2>1 DEF RowOK, Held, HeldStates
<1>3. CASE StoppedWaiting(j)
  <2>1. /\ r.state = "failed" /\ r.holder = jobs[j].holder /\ r.lease = jobs[j].lease
        /\ jobs[j].state = "queued"
    BY <1>0, <1>3 DEF StoppedWaiting, Row
  <2> QED BY <1>0, <2>1 DEF RowOK, Held, HeldStates
<1>4. CASE AskedToStop(j)
  <2>1. /\ r.state = jobs[j].state /\ r.holder = jobs[j].holder /\ r.lease = jobs[j].lease
        /\ r.attempts = jobs[j].attempts /\ r.state # "absent"
    BY <1>0, <1>4 DEF AskedToStop, Row, Held, HeldStates
  <2> QED BY <1>0, <2>1 DEF RowOK, Held, HeldStates
<1>5. CASE Beats(j)
  <2>1. /\ r.state = "running" /\ r.holder = jobs[j].holder /\ r.lease = jobs[j].lease
        /\ r.attempts = jobs[j].attempts /\ Held(jobs[j])
    BY <1>0, <1>5 DEF Beats, Row
  <2> QED BY <1>0, <2>1 DEF RowOK, Held, HeldStates
<1>6. CASE Expires(j)
  <2>1. /\ r.state = jobs[j].state /\ r.holder = jobs[j].holder /\ r.lease = "lapsed"
        /\ r.attempts = jobs[j].attempts /\ Held(jobs[j])
    BY <1>0, <1>6 DEF Expires, Row
  <2> QED BY <1>0, <2>1 DEF RowOK, Held, HeldStates
<1>7. CASE Finishes(j)
  <2>1. r.state = "done" /\ r.lease = "none"
    BY <1>0, <1>7 DEF Finishes, Row
  <2> QED BY <1>0, <2>1 DEF RowOK, Held, HeldStates
<1>8. CASE GivenUp(j)
  <2>1. /\ r.state \in {"failed", "pinned", "abandoned", "queued"}
        /\ r.holder = Nobody /\ r.lease = "none"
        /\ r.state = "queued" => r.attempts < b
    BY <1>8, LetGoFacts DEF GivenUp, TypeOK
  <2> QED BY <1>0, <2>1 DEF RowOK, Held, HeldStates
<1>9. CASE Deleted(j)
  <2>1. r.state = "pruned" /\ r.holder = Nobody /\ r.lease = "none"
    BY <1>9 DEF Deleted, Blank
  <2> QED BY <1>0, <2>1 DEF RowOK, Held, HeldStates
<1>10. CASE InHouse(j)
  <2>1. /\ r.state \in {"pinned", "done", "abandoned"} /\ r.lease = jobs[j].lease
        /\ r.holder \in {jobs[j].holder, Nobody, Dash} /\ jobs[j].state = "pinned"
    BY <1>0, <1>10 DEF InHouse, Row
  <2> QED BY <1>0, <2>1 DEF RowOK, Held, HeldStates
<1>11. ASSUME NEW m \in Machines, GivenTo(j, m) PROVE RowOK(j)'
  <2>1. /\ r.state = "claimed" /\ r.holder = m /\ r.lease = "live"
        /\ r.attempts = jobs[j].attempts /\ jobs[j].state = "queued"
    BY <1>0, <1>11 DEF GivenTo, Claimed, Row
  <2> QED BY <1>0, <2>1 DEF RowOK, Held, HeldStates
<1>12. ASSUME NEW m \in Machines, PassedTo(j, m) PROVE RowOK(j)'
  <2>1. PICK read \in Row, pin \in BOOLEAN :
            /\ LetGo(j, read, pin, FALSE).state = "queued"
            /\ r = Claimed(LetGo(j, read, pin, FALSE), m)
    BY <1>12 DEF PassedTo
  <2> DEFINE q == LetGo(j, read, pin, FALSE)
  <2>2. q \in Row /\ q.attempts < b
    BY <2>1, LetGoFacts DEF TypeOK
  <2> HIDE DEF q
  <2>3. r.state = "claimed" /\ r.holder = m /\ r.lease = "live" /\ r.attempts = q.attempts
    BY <2>1, <2>2 DEF q, Claimed, Row
  <2> QED BY <1>0, <2>2, <2>3 DEF RowOK, Held, HeldStates
<1> QED
  BY <1>1, <1>2, <1>3, <1>4, <1>5, <1>6, <1>7, <1>8, <1>9, <1>10, <1>11, <1>12
     DEF RowStep, Quiet, Granted

LEMMA SweptQuiet ==
    ASSUME TypeOK, NEW ids \in SUBSET Jobs, NEW read \in [Jobs -> Row],
           NEW pin \in BOOLEAN, NEW j \in Jobs, jobs'[j] = SweptRows(ids, read, pin)[j],
           j \in ids \cap LapsedIds => read[j].attempts = jobs[j].attempts
    PROVE  Quiet(j)
<1>1. CASE j \in ids \cap LapsedIds
  <2>1. jobs'[j] = LetGo(j, read[j], pin, FALSE) /\ Lapsed(jobs[j]) /\ read[j] \in Row
    BY <1>1 DEF SweptRows, LapsedIds
  <2>2. read[j].attempts = jobs[j].attempts BY <1>1
  <2>3. GivenUp(j) BY <2>1, <2>2 DEF GivenUp
  <2> QED BY <2>3 DEF Quiet
<1>2. CASE j \notin ids \cap LapsedIds
  BY <1>2 DEF SweptRows, Quiet
<1> QED BY <1>1, <1>2

LEMMA SweepShape ==
    ASSUME Ind, NEW t \in Threads, ClaimSweep(t)
    PROVE  QuietStep \/ \E m \in Machines, j \in Jobs : GrantStep(t, m, j)
<1> USE DEF Ind, TypeOK
<1> DEFINE ids == tx[t].ids
           read == tx[t].seen
           m == tx[t].who
<1>1. ids \in SUBSET Jobs /\ read \in [Jobs -> Row] /\ m \in Machines
  BY DEF Tx, ClaimSweep, TxOK
<1>0. \A j \in ids \cap LapsedIds : read[j].attempts = jobs[j].attempts
  BY DEF ClaimSweep, TxOK, LapsedIds
<1>2. PICK pin \in BOOLEAN :
         \/ jobs' = SweptRows(ids, read, pin)
         \/ \E j \in Offers(SweptRows(ids, read, pin), cool', m) :
               jobs' = [SweptRows(ids, read, pin) EXCEPT ![j] = Claimed(@, m)]
  BY DEF ClaimSweep
<1> DEFINE rows == SweptRows(ids, read, pin)
<1>3. CASE jobs' = rows
  BY <1>0, <1>1, <1>3, SweptQuiet DEF QuietStep
<1>4. ASSUME NEW j \in Offers(rows, cool', m), jobs' = [rows EXCEPT ![j] = Claimed(@, m)]
      PROVE  GrantStep(t, m, j)
  <2>1. /\ j \in Jobs /\ rows[j].state = "queued" /\ ~rows[j].cancel
        /\ \A x \in Jobs : ~HeldBy(rows[x], m)
    BY <1>4 DEF Offers, Claimable
  <2>2. ASSUME NEW x \in Jobs \ {j} PROVE Quiet(x) /\ ~HeldBy(jobs'[x], m)
    <3>1. jobs'[x] = rows[x] BY <1>4, <2>2 DEF SweptRows
    <3> QED BY <1>0, <1>1, <2>1, <3>1, SweptQuiet
  <2>3. jobs'[j] = Claimed(rows[j], m) BY <1>4, <2>1 DEF SweptRows
  <2>4. Granted(j, m)
    <3>1. CASE j \in ids \cap LapsedIds
      <4>1. rows[j] = LetGo(j, read[j], pin, FALSE) BY <2>1, <3>1 DEF SweptRows
      <4>2. rows[j].cancel = jobs[j].cancel BY <2>1, <4>1 DEF LetGo, Row
      <4>3. Lapsed(jobs[j]) BY <3>1 DEF LapsedIds
      <4>4. read[j] \in Row /\ read[j].attempts = jobs[j].attempts
        BY <1>0, <1>1, <2>1, <3>1
      <4> QED BY <2>1, <2>3, <4>1, <4>2, <4>3, <4>4 DEF Granted, PassedTo
    <3>2. CASE j \notin ids \cap LapsedIds
      <4>1. rows[j] = jobs[j] BY <2>1, <3>2 DEF SweptRows
      <4> QED BY <2>1, <2>3, <4>1 DEF Granted, GivenTo
    <3> QED BY <3>1, <3>2
  <2>5. Ended(t) BY DEF ClaimSweep
  <2>6. Others(j) = HeldOf(rows, KindOf[j])
    <3>1. ~Held(rows[j]) BY <2>1 DEF Held, HeldStates
    <3>2. \A x \in Jobs \ {j} : jobs'[x] = rows[x] BY <1>4 DEF SweptRows
    <3> QED BY <3>1, <3>2 DEF Others, HeldOf
  <2>7. Cardinality(HeldOf(rows, KindOf[j])) < Cap[KindOf[j]]
    BY <1>4 DEF Offers, Claimable
  <2> QED BY <2>2, <2>4, <2>5, <2>6, <2>7 DEF GrantStep
<1>5. Offers(rows, cool', m) \subseteq Jobs BY DEF Offers
<1> QED BY <1>1, <1>2, <1>3, <1>4, <1>5

LEMMA TakeShape ==
    ASSUME Ind, NEW t \in Threads, ClaimTake(t)
    PROVE  QuietStep \/ \E m \in Machines, j \in Jobs : GrantStep(t, m, j)
<1> USE DEF Ind, TypeOK
<1>1. tx[t].who \in Machines /\ tx[t].ids \subseteq Jobs /\ Ended(t)
  BY DEF TxOK, ClaimTake, Tx
<1>2. CASE UNCHANGED jobs BY <1>2 DEF QuietStep, Quiet
<1>3. ASSUME NEW j \in tx[t].ids, Claimable(jobs, j),
             jobs' = [jobs EXCEPT ![j] = Claimed(@, tx[t].who)]
      PROVE  GrantStep(t, tx[t].who, j)
  <2>1. \A x \in Jobs : ~HeldBy(jobs[x], tx[t].who)
    BY <1>3 DEF TxOK, ClaimTake
  <2>2. Granted(j, tx[t].who)
    BY <1>1, <1>3 DEF Granted, GivenTo, Claimable
  <2>3. \A x \in Jobs \ {j} : jobs'[x] = jobs[x]
    BY <1>3
  <2>4. Others(j) = HeldOf(jobs, KindOf[j])
    <3>1. ~Held(jobs[j]) BY <1>3 DEF Claimable, Held, HeldStates
    <3> QED BY <2>3, <3>1 DEF Others, HeldOf
  <2>5. Cardinality(HeldOf(jobs, KindOf[j])) < Cap[KindOf[j]]
    BY <1>3 DEF Claimable
  <2> QED BY <1>1, <2>1, <2>2, <2>3, <2>4, <2>5 DEF GrantStep, Quiet
<1> QED BY <1>1, <1>2, <1>3 DEF ClaimTake

\* Every step of the queue has one of the three shapes.
LEMMA Shapes ==
    ASSUME Ind, [Next]_vars
    PROVE  \/ QuietStep
           \/ \E m \in Machines, j \in Jobs : FinishStep(m, j)
           \/ \E t \in Threads, m \in Machines, j \in Jobs : GrantStep(t, m, j)
<1> USE DEF Ind, TypeOK
<1>1. ASSUME NEW j \in Jobs, Create(j) PROVE QuietStep
  BY <1>1 DEF Create, QuietStep, Quiet, Born
<1>2. ASSUME NEW t \in Threads, RetryWrite(t) PROVE QuietStep
  <2>1. CASE UNCHANGED jobs BY <2>1 DEF QuietStep, Quiet
  <2>2. ASSUME NEW n \in Jobs, NEW j \in Jobs, jobs[n].state = "absent",
               jobs' = [jobs EXCEPT ![n] = Queued(j)]
        PROVE  QuietStep
    BY <2>2 DEF QuietStep, Quiet, Born
  <2> QED BY <1>2, <2>1, <2>2 DEF RetryWrite, Tx
<1>3. ASSUME NEW t \in Threads, CancelWrite(t) PROVE QuietStep
  <2>1. PICK j \in Jobs :
           \/ /\ jobs[j].state = "queued"
              /\ jobs' = [jobs EXCEPT ![j].state = "failed", ![j].cancel = TRUE]
           \/ /\ Held(jobs[j]) \/ jobs[j].state = "pinned"
              /\ jobs' = [jobs EXCEPT ![j].cancel = TRUE]
           \/ UNCHANGED jobs
    BY <1>3 DEF CancelWrite, Tx
  <2> QED BY <2>1 DEF QuietStep, Quiet, StoppedWaiting, AskedToStop
<1>4. ASSUME NEW t \in Threads, FailWrite(t) PROVE QuietStep
  <2>1. PICK j \in tx[t].ids, pin \in BOOLEAN :
           \/ /\ jobs[j].holder = tx[t].who
              /\ jobs' = [jobs EXCEPT ![j] = LetGo(j, tx[t].seen[j], pin, tx[t].final)]
           \/ UNCHANGED jobs
    BY <1>4 DEF FailWrite
  <2>2. j \in Jobs /\ tx[t].seen[j] \in Row /\ tx[t].final \in BOOLEAN
    BY DEF Tx
  <2>3. CASE UNCHANGED jobs BY <2>3 DEF QuietStep, Quiet
  <2>4. CASE /\ jobs[j].holder = tx[t].who
             /\ jobs' = [jobs EXCEPT ![j] = LetGo(j, tx[t].seen[j], pin, tx[t].final)]
    <3>1. Held(jobs[j]) /\ tx[t].seen[j].attempts = jobs[j].attempts
      BY <1>4, <2>4 DEF FailWrite, TxOK
    <3>2. OwnFailure(j) BY <1>4, <2>4 DEF FailWrite, OwnFailure, Ended
    <3> QED BY <2>2, <2>4, <3>1, <3>2 DEF QuietStep, Quiet, GivenUp
  <2> QED BY <2>1, <2>3, <2>4
<1>5. ASSUME NEW m \in Machines, NEW j \in Jobs, Heartbeat(m, j) PROVE QuietStep
  BY <1>5 DEF Heartbeat, QuietStep, Quiet, Beats, HeldBy
<1>6. ASSUME NEW m \in Machines, NEW j \in Jobs, Finish(m, j) PROVE FinishStep(m, j)
  BY <1>6 DEF Finish, FinishStep, Quiet, Finishes, HeldBy
<1>7. ASSUME NEW pin \in BOOLEAN, NEW P \in SUBSET Jobs, Prune(pin, P) PROVE QuietStep
  <2>1. ASSUME NEW x \in P PROVE Quiet(x)
    BY <1>7, <2>1 DEF Prune, Without, Quiet, Deleted, Aged
  <2>2. ASSUME NEW x \in Jobs \ P PROVE Quiet(x)
    <3>1. jobs'[x] = SweptRows(LapsedIds, jobs, pin)[x]
      BY <1>7, <2>2 DEF Prune, Without
    <3> QED BY <3>1, SweptQuiet DEF LapsedIds
  <2> QED BY <2>1, <2>2 DEF QuietStep
<1>8. ASSUME NEW j \in Jobs, PinTake(j) PROVE QuietStep
  BY <1>8 DEF PinTake, QuietStep, Quiet, InHouse
<1>9. ASSUME NEW j \in Jobs, PinFinish(j) PROVE QuietStep
  BY <1>9 DEF PinFinish, QuietStep, Quiet, InHouse
<1>10. ASSUME NEW j \in Jobs, PinFail(j) PROVE QuietStep
  BY <1>10 DEF PinFail, QuietStep, Quiet, InHouse
<1>11. CASE Restart
  BY <1>11 DEF Restart, QuietStep, Quiet, InHouse
<1>12. ASSUME NEW j \in Jobs, LeaseRunsOut(j) PROVE QuietStep
  BY <1>12 DEF LeaseRunsOut, QuietStep, Quiet, Expires
<1>13. CASE UNCHANGED jobs
  BY <1>13 DEF QuietStep, Quiet
<1> QED
  BY <1>1, <1>2, <1>3, <1>4, <1>5, <1>6, <1>7, <1>8, <1>9, <1>10, <1>11, <1>12, <1>13,
     SweepShape, TakeShape
     DEF Next, Admin, Machine, Container, Time, vars, RetryStart, CancelStart, ClaimStart,
         FailStart, PinWriteFails, Look, CooldownOver

LEMMA RowSteps ==
    ASSUME Ind, [Next]_vars, NEW x \in Jobs
    PROVE  RowStep(x)
  BY Shapes DEF QuietStep, FinishStep, GrantStep, RowStep

-----------------------------------------------------------------------------
(* Open handlers *)

\* A thread begins a handler; it has written nothing yet.
Opens(t, e) ==
    /\ tx' = [tx EXCEPT ![t] = e] /\ jobs' = jobs
    /\ e \in Tx
    /\ \/ e.who = Nobody /\ e.op \notin {"claim", "take", "fail"}
       \/ /\ e.who \in Machines /\ ~Calling(e.who)
          /\ e.op = "claim" => \A j \in e.ids : e.seen[j].holder \in Machines
          /\ e.op = "fail" => \A j \in e.ids : Held(jobs[j])
          /\ e.op \in {"claim", "fail"} => \A j \in e.ids : e.seen[j] = jobs[j]
          /\ e.op = "take" /\ e.ids # {} => \A j \in Jobs : ~HeldBy(jobs[j], e.who)

OpenStep == \E t \in Threads, e \in Tx : Opens(t, e)

CloseStep == \A t \in Threads : tx'[t] \in {tx[t], Idle}

LEMMA ReadingType ==
    ASSUME TypeOK, NEW S \in SUBSET Jobs
    PROVE  Reading(S) \in [Jobs -> Row] /\ \A j \in S : Reading(S)[j] = jobs[j]
  BY BlankType DEF Reading, TypeOK

LEMMA Handlers ==
    ASSUME Ind, [Next]_vars
    PROVE  /\ tx' \in [Threads -> Tx]
           /\ OpenStep \/ CloseStep
<1> USE DEF Ind, TypeOK
<1>1. ASSUME NEW t \in Threads, Ended(t) PROVE CloseStep
  BY <1>1 DEF Ended, CloseStep
<1>2. ASSUME UNCHANGED tx PROVE CloseStep BY <1>2 DEF CloseStep
<1>3. ASSUME Restart PROVE CloseStep BY <1>3 DEF Restart, CloseStep
<1>4. ASSUME NEW t \in Threads, NEW op \in Ops, NEW who \in Machines \cup {Nobody},
             NEW ids \in SUBSET Jobs, NEW rows \in [Jobs -> Row], NEW final \in BOOLEAN
      PROVE  [op |-> op, who |-> who, ids |-> ids, seen |-> rows, final |-> final] \in Tx
  BY DEF Tx
<1>5. ASSUME NEW t \in Threads, NEW j \in Jobs, RetryStart(t, j) PROVE OpenStep
  <2> DEFINE e == [op |-> "retry", who |-> Nobody, ids |-> {j}, seen |-> NoRows,
                   final |-> FALSE]
  <2>1. e \in Tx BY BlankType DEF Tx, Ops
  <2>2. tx' = [tx EXCEPT ![t] = e] /\ jobs' = jobs BY <1>5 DEF RetryStart, Started
  <2> QED BY <2>1, <2>2 DEF OpenStep, Opens
<1>6. ASSUME NEW t \in Threads, NEW j \in Jobs, CancelStart(t, j) PROVE OpenStep
  <2> DEFINE e == [op |-> "cancel", who |-> Nobody, ids |-> {j}, seen |-> Reading({j}),
                   final |-> FALSE]
  <2>1. e \in Tx BY ReadingType DEF Tx, Ops
  <2>2. tx' = [tx EXCEPT ![t] = e] /\ jobs' = jobs BY <1>6 DEF CancelStart, Started
  <2> QED BY <2>1, <2>2 DEF OpenStep, Opens
<1>7. ASSUME NEW t \in Threads, NEW m \in Machines, ClaimStart(t, m) PROVE OpenStep
  <2>1. CASE LapsedIds # {} /\ Started(t, "claim", m, LapsedIds, Reading(LapsedIds), FALSE)
    <3> DEFINE e == [op |-> "claim", who |-> m, ids |-> LapsedIds,
                     seen |-> Reading(LapsedIds), final |-> FALSE]
    <3>1. LapsedIds \in SUBSET Jobs BY DEF LapsedIds
    <3>2. e \in Tx BY <3>1, ReadingType DEF Tx, Ops
    <3>3. \A j \in LapsedIds : /\ Reading(LapsedIds)[j].holder \in Machines
                                /\ Reading(LapsedIds)[j] = jobs[j]
      BY <3>1, ReadingType DEF LapsedIds, Lapsed, RowsOK, RowOK
    <3>4. tx' = [tx EXCEPT ![t] = e] /\ jobs' = jobs /\ ~Calling(m)
      BY <1>7, <2>1 DEF ClaimStart, Started
    <3> QED BY <3>2, <3>3, <3>4 DEF OpenStep, Opens
  <2>2. CASE Started(t, "take", m, Offers(jobs, cool, m), NoRows, FALSE)
    <3> DEFINE e == [op |-> "take", who |-> m, ids |-> Offers(jobs, cool, m),
                     seen |-> NoRows, final |-> FALSE]
    <3>1. Offers(jobs, cool, m) \in SUBSET Jobs BY DEF Offers
    <3>2. e \in Tx BY <3>1, BlankType DEF Tx, Ops
    <3>3. Offers(jobs, cool, m) # {} => \A j \in Jobs : ~HeldBy(jobs[j], m)
      BY DEF Offers
    <3>4. tx' = [tx EXCEPT ![t] = e] /\ jobs' = jobs /\ ~Calling(m)
      BY <1>7, <2>2 DEF ClaimStart, Started
    <3> QED BY <3>2, <3>3, <3>4 DEF OpenStep, Opens
  <2> QED BY <1>7, <2>1, <2>2 DEF ClaimStart
<1>8. ASSUME NEW t \in Threads, NEW m \in Machines, NEW j \in Jobs, NEW final \in BOOLEAN,
             FailStart(t, m, j, final)
      PROVE  OpenStep
  <2> DEFINE e == [op |-> "fail", who |-> m, ids |-> {j}, seen |-> Reading({j}),
                   final |-> final]
  <2>1. e \in Tx BY ReadingType DEF Tx, Ops
  <2>2. tx' = [tx EXCEPT ![t] = e] /\ jobs' = jobs /\ ~Calling(m) /\ Held(jobs[j])
    BY <1>8 DEF FailStart, Started, HeldBy
  <2>3. \A i \in {j} : Reading({j})[i] = jobs[i] BY ReadingType
  <2> QED BY <2>1, <2>2, <2>3 DEF OpenStep, Opens
<1>9. OpenStep \/ CloseStep
  BY <1>1, <1>2, <1>3, <1>5, <1>6, <1>7, <1>8
     DEF Next, Admin, Machine, Container, Time, vars, Create, RetryWrite, CancelWrite,
         ClaimSweep, ClaimTake, FailWrite, Heartbeat, Finish, Prune, PinTake, PinFinish,
         PinFail, PinWriteFails, Look, LeaseRunsOut, CooldownOver
<1>10. tx' \in [Threads -> Tx]
  <2>1. CASE OpenStep BY <2>1 DEF OpenStep, Opens
  <2>2. \A t \in Threads : tx'[t] \in {tx[t], Idle} => tx'[t] \in Tx
    BY BlankType
  <2>3. \E f : tx' = [t \in Threads |-> f[t]]
    <3>1. ASSUME NEW t \in Threads, Ended(t) PROVE tx' = [u \in Threads |-> tx'[u]]
      BY <3>1 DEF Ended
    <3>2. CASE UNCHANGED tx BY <3>2
    <3>3. CASE Restart BY <3>3 DEF Restart
    <3>4. CASE OpenStep BY <3>4 DEF OpenStep, Opens
    <3> QED BY <3>1, <3>2, <3>3, <3>4, <1>5, <1>6, <1>7, <1>8
       DEF Next, Admin, Machine, Container, Time, vars, Create, RetryWrite, CancelWrite,
           ClaimSweep, ClaimTake, FailWrite, Heartbeat, Finish, Prune, PinTake, PinFinish,
           PinFail, PinWriteFails, Look, LeaseRunsOut, CooldownOver
  <2> QED BY <1>9, <2>1, <2>2, <2>3 DEF CloseStep
<1> QED BY <1>9, <1>10

\* A quiet step gives no machine a row and leaves no machine's name on a row it
\* has finished.
LEMMA QuietRow ==
    ASSUME TypeOK, NEW j \in Jobs, RowOK(j), Quiet(j), NEW m \in Machines
    PROVE  /\ HeldBy(jobs'[j], m) =>
                 HeldBy(jobs[j], m) /\ jobs'[j].attempts = jobs[j].attempts
           /\ jobs'[j].holder = m /\ ~Held(jobs'[j]) =>
                 jobs[j].holder = m /\ ~Held(jobs[j])
<1> DEFINE r == jobs'[j]
<1>0. jobs[j] \in Row /\ Nobody # m /\ Dash # m
  BY JobQueueAssumption DEF TypeOK
<1>1. CASE r = jobs[j]
  BY <1>1
<1>2. CASE Born(j)
  BY <1>0, <1>2 DEF Born, Queued, Blank, HeldBy
<1>3. CASE StoppedWaiting(j)
  <2>1. r.state = "failed" /\ r.holder = jobs[j].holder /\ jobs[j].state = "queued"
    BY <1>0, <1>3 DEF StoppedWaiting, Row
  <2> QED BY <1>0, <2>1 DEF HeldBy, Held, HeldStates
<1>4. CASE AskedToStop(j)
  <2>1. /\ r.state = jobs[j].state /\ r.holder = jobs[j].holder
        /\ r.attempts = jobs[j].attempts
    BY <1>0, <1>4 DEF AskedToStop, Row
  <2> QED BY <1>0, <2>1 DEF HeldBy, Held, HeldStates
<1>5. CASE Beats(j)
  <2>1. /\ r.state = "running" /\ r.holder = jobs[j].holder /\ Held(jobs[j])
        /\ r.attempts = jobs[j].attempts
    BY <1>0, <1>5 DEF Beats, Row
  <2> QED BY <1>0, <2>1 DEF HeldBy, Held, HeldStates
<1>6. CASE Expires(j)
  <2>1. /\ r.state = jobs[j].state /\ r.holder = jobs[j].holder
        /\ r.attempts = jobs[j].attempts
    BY <1>0, <1>6 DEF Expires, Row
  <2> QED BY <1>0, <2>1 DEF HeldBy, Held, HeldStates
<1>7. CASE GivenUp(j)
  <2>1. r.holder = Nobody
    BY <1>7, LetGoFacts DEF GivenUp, TypeOK
  <2> QED BY <1>0, <2>1 DEF HeldBy
<1>8. CASE Deleted(j)
  BY <1>0, <1>8 DEF Deleted, Blank, HeldBy
<1>9. CASE InHouse(j)
  <2>1. r.state \in {"pinned", "done", "abandoned"} /\ jobs[j].state = "pinned"
        /\ r.holder \in {jobs[j].holder, Nobody, Dash}
    BY <1>0, <1>9 DEF InHouse, Row
  <2> QED BY <1>0, <2>1 DEF HeldBy, Held, HeldStates
<1> QED BY <1>1, <1>2, <1>3, <1>4, <1>5, <1>6, <1>7, <1>8, <1>9 DEF Quiet

LEMMA GrantedRow ==
    ASSUME TypeOK, NEW j \in Jobs, NEW m \in Machines, Granted(j, m)
    PROVE  jobs'[j].holder = m /\ HeldBy(jobs'[j], m)
<1>1. ASSUME NEW r \in Row PROVE Claimed(r, m).holder = m /\ HeldBy(Claimed(r, m), m)
  BY DEF Claimed, Row, HeldBy, Held, HeldStates
<1>2. CASE GivenTo(j, m) BY <1>1, <1>2 DEF GivenTo, TypeOK
<1>3. CASE PassedTo(j, m)
  <2>1. PICK read \in Row, pin \in BOOLEAN : jobs'[j] = Claimed(LetGo(j, read, pin, FALSE), m)
    BY <1>3 DEF PassedTo
  <2>2. LetGo(j, read, pin, FALSE) \in Row BY LetGoFacts DEF TypeOK
  <2> QED BY <1>1, <2>1, <2>2
<1> QED BY <1>2, <1>3 DEF Granted

\* A lease is found lapsed only if it was, with the same attempts counted, or
\* ran out in this step.
LEMMA LapsedRow ==
    ASSUME TypeOK, NEW j \in Jobs, RowOK(j), RowStep(j), Lapsed(jobs'[j])
    PROVE  \/ Lapsed(jobs[j]) /\ jobs'[j].attempts = jobs[j].attempts
           \/ Expires(j)
<1> DEFINE r == jobs'[j]
<1>0. jobs[j] \in Row BY DEF TypeOK
<1>1. r.state \in HeldStates /\ r.lease = "lapsed" BY DEF Lapsed, Held
<1>2. ASSUME NEW q \in Row, NEW m \in Machines PROVE Claimed(q, m).lease = "live"
  BY DEF Claimed, Row
<1>3. ~\E m \in Machines : Granted(j, m)
  <2>1. \A m \in Machines : ~GivenTo(j, m) BY <1>0, <1>1, <1>2 DEF GivenTo
  <2>2. ASSUME NEW m \in Machines, PassedTo(j, m) PROVE FALSE
    <3>1. PICK read \in Row, pin \in BOOLEAN : r = Claimed(LetGo(j, read, pin, FALSE), m)
      BY <2>2 DEF PassedTo
    <3>2. LetGo(j, read, pin, FALSE) \in Row BY LetGoFacts DEF TypeOK
    <3> QED BY <1>1, <1>2, <3>1, <3>2
  <2> QED BY <2>1, <2>2 DEF Granted
<1>4. ~GivenUp(j) BY <1>1, LetGoFacts DEF GivenUp, TypeOK
<1>5. ~Born(j) /\ ~Deleted(j) BY <1>1 DEF Born, Queued, Deleted, Blank, HeldStates
<1>6. ~StoppedWaiting(j) /\ ~Finishes(j) /\ ~InHouse(j)
  BY <1>0, <1>1 DEF StoppedWaiting, Finishes, InHouse, Row, HeldStates
<1>7. CASE AskedToStop(j) BY <1>0, <1>1, <1>7 DEF AskedToStop, Row, Lapsed, Held
<1>8. CASE Beats(j) BY <1>0, <1>1, <1>8 DEF Beats, Row, Lapsed, Held
<1> QED BY <1>3, <1>4, <1>5, <1>6, <1>7, <1>8 DEF RowStep, Quiet

\* No machine with an open handler gains a row, or has one finished for it.
LEMMA OthersUndisturbed ==
    ASSUME Ind, [Next]_vars, NEW u \in Threads, tx'[u] = tx[u], tx[u].who \in Machines,
           tx[u] # Idle, NEW j \in Jobs
    PROVE  /\ HeldBy(jobs'[j], tx[u].who) =>
                 HeldBy(jobs[j], tx[u].who) /\ jobs'[j].attempts = jobs[j].attempts
           /\ jobs'[j].holder = tx[u].who /\ ~Held(jobs'[j]) =>
                 jobs[j].holder = tx[u].who /\ ~Held(jobs[j])
<1> USE DEF Ind, RowsOK
<1>1. CASE QuietStep BY <1>1, QuietRow DEF QuietStep
<1>2. ASSUME NEW m \in Machines, NEW i \in Jobs, FinishStep(m, i)
      PROVE  /\ HeldBy(jobs'[j], tx[u].who) =>
                   HeldBy(jobs[j], tx[u].who) /\ jobs'[j].attempts = jobs[j].attempts
             /\ jobs'[j].holder = tx[u].who /\ ~Held(jobs'[j]) =>
                   jobs[j].holder = tx[u].who /\ ~Held(jobs[j])
  <2>1. CASE j # i BY <1>2, <2>1, QuietRow DEF FinishStep
  <2>2. CASE j = i
    <3>1. tx[u].who # m BY <1>2 DEF FinishStep, Calling
    <3>2. jobs'[j].holder = m
      <4>1. jobs[j] \in Row BY DEF TypeOK
      <4>2. jobs'[j] = [jobs[j] EXCEPT !.state = "done", !.lease = "none"]
            /\ jobs[j].holder = m
        BY <1>2, <2>2 DEF FinishStep, Finishes
      <4> QED BY <4>1, <4>2 DEF Row
    <3> QED BY <3>1, <3>2 DEF HeldBy
  <2> QED BY <2>1, <2>2
<1>3. ASSUME NEW t \in Threads, NEW m \in Machines, NEW i \in Jobs, GrantStep(t, m, i)
      PROVE  /\ HeldBy(jobs'[j], tx[u].who) =>
                   HeldBy(jobs[j], tx[u].who) /\ jobs'[j].attempts = jobs[j].attempts
             /\ jobs'[j].holder = tx[u].who /\ ~Held(jobs'[j]) =>
                   jobs[j].holder = tx[u].who /\ ~Held(jobs[j])
  <2>1. CASE j # i BY <1>3, <2>1, QuietRow DEF GrantStep
  <2>2. CASE j = i
    <3>1. tx'[t] = Idle BY <1>3 DEF GrantStep, Ended, TypeOK
    <3>2. tx[u].who # m BY <1>3, <3>1 DEF GrantStep, TxOK
    <3>3. jobs'[j].holder = m BY <1>3, <2>2, GrantedRow DEF GrantStep
    <3> QED BY <3>2, <3>3 DEF HeldBy
  <2> QED BY <2>1, <2>2
<1> QED BY Shapes, <1>1, <1>2, <1>3

LEMMA TxStaysOK ==
    ASSUME Ind, [Next]_vars
    PROVE  TxOK'
<1> USE DEF Ind
<1>0. /\ tx' \in [Threads -> Tx] /\ tx \in [Threads -> Tx]
      /\ Idle.op = "idle" /\ Idle.who = Nobody /\ Idle.ids = {} /\ Nobody \notin Machines
  BY Handlers, JobQueueAssumption DEF TypeOK, Idle
<1>1. CASE OpenStep
  <2>1. PICK t \in Threads, e \in Tx : Opens(t, e)
    BY <1>1 DEF OpenStep
  <2>2. tx'[t] = e /\ jobs' = jobs /\ \A u \in Threads \ {t} : tx'[u] = tx[u]
    BY <2>1, <1>0 DEF Opens
  <2>3. \A u \in Threads \ {t} : tx[u].who # e.who \/ e.who \notin Machines
    BY <1>0, <2>1 DEF Opens, Calling
  <2>4. ASSUME NEW u \in Threads
        PROVE  /\ tx'[u].op \in {"claim", "take", "fail"} => tx'[u].who \in Machines
               /\ tx'[u].op = "claim" =>
                     \A j \in tx'[u].ids :
                        /\ tx'[u].seen[j].holder \in Machines
                        /\ Lapsed(jobs'[j]) => tx'[u].seen[j].attempts = jobs'[j].attempts
               /\ tx'[u].op = "fail" =>
                     \A j \in tx'[u].ids : jobs'[j].holder = tx'[u].who =>
                        Held(jobs'[j]) /\ tx'[u].seen[j].attempts = jobs'[j].attempts
               /\ tx'[u].op = "take" /\ tx'[u].ids # {} =>
                     \A j \in Jobs : ~HeldBy(jobs'[j], tx'[u].who)
    <3>1. CASE u = t
      <4>1. CASE e.who = Nobody /\ e.op \notin {"claim", "take", "fail"}
        BY <2>2, <3>1, <4>1
      <4>2. CASE e.who \in Machines
        <5>1. Nobody # e.who BY <1>0, <4>2
        <5> QED BY <2>1, <2>2, <3>1, <4>2, <5>1 DEF Opens
      <4> QED BY <2>1, <4>1, <4>2 DEF Opens
    <3>2. CASE u # t
      BY <2>2, <3>2 DEF TxOK
    <3> QED BY <3>1, <3>2
  <2>5. ASSUME NEW u \in Threads, NEW v \in Threads, tx'[u].who = tx'[v].who,
               tx'[u].who \in Machines
        PROVE  u = v
    BY <2>2, <2>3, <2>5 DEF TxOK
  <2> QED BY <2>4, <2>5 DEF TxOK, HeldBy, Held, Lapsed
<1>2. CASE CloseStep
  <2>1. ASSUME NEW u \in Threads
        PROVE  /\ tx'[u].op \in {"claim", "take", "fail"} => tx'[u].who \in Machines
               /\ tx'[u].op = "claim" =>
                     \A j \in tx'[u].ids :
                        /\ tx'[u].seen[j].holder \in Machines
                        /\ Lapsed(jobs'[j]) => tx'[u].seen[j].attempts = jobs'[j].attempts
               /\ tx'[u].op = "fail" =>
                     \A j \in tx'[u].ids : jobs'[j].holder = tx'[u].who =>
                        Held(jobs'[j]) /\ tx'[u].seen[j].attempts = jobs'[j].attempts
               /\ tx'[u].op = "take" /\ tx'[u].ids # {} =>
                     \A j \in Jobs : ~HeldBy(jobs'[j], tx'[u].who)
    <3>1. CASE tx'[u] = Idle
      BY <1>0, <3>1
    <3>2. CASE tx'[u] = tx[u] /\ tx[u] # Idle
      <4>1. tx[u].ids \subseteq Jobs BY <1>0 DEF Tx
      <4>2. CASE tx[u].op \in {"take", "fail"}
        <5>1. tx[u].who \in Machines BY <4>2 DEF TxOK
        <5>2. \A j \in Jobs :
                 /\ HeldBy(jobs'[j], tx[u].who) =>
                       HeldBy(jobs[j], tx[u].who) /\ jobs'[j].attempts = jobs[j].attempts
                 /\ jobs'[j].holder = tx[u].who /\ ~Held(jobs'[j]) =>
                       jobs[j].holder = tx[u].who /\ ~Held(jobs[j])
          BY <3>2, <5>1, OthersUndisturbed
        <5>3. tx[u].op = "fail" =>
                 \A j \in tx[u].ids : jobs'[j].holder = tx[u].who =>
                    Held(jobs'[j]) /\ tx[u].seen[j].attempts = jobs'[j].attempts
          BY <4>1, <5>2 DEF TxOK, HeldBy
        <5>4. tx[u].op = "take" /\ tx[u].ids # {} =>
                 \A j \in Jobs : ~HeldBy(jobs'[j], tx[u].who)
          BY <5>2 DEF TxOK
        <5> QED BY <3>2, <4>2, <5>1, <5>3, <5>4
      <4>3. CASE tx[u].op = "claim"
        <5>1. ASSUME NEW j \in tx[u].ids, Lapsed(jobs'[j])
              PROVE  tx[u].seen[j].attempts = jobs'[j].attempts
          <6>1. ~Expires(j) BY <4>3, <5>1 DEF Expires
          <6>2. j \in Jobs /\ RowOK(j) /\ RowStep(j) BY <4>1, RowSteps DEF RowsOK
          <6>3. Lapsed(jobs[j]) /\ jobs'[j].attempts = jobs[j].attempts
            BY <5>1, <6>1, <6>2, LapsedRow
          <6> QED BY <4>3, <6>3 DEF TxOK
        <5> QED BY <3>2, <4>3, <5>1 DEF TxOK
      <4>4. CASE tx[u].op \notin {"claim", "take", "fail"}
        BY <3>2, <4>4 DEF TxOK
      <4> QED BY <4>2, <4>3, <4>4
    <3> QED BY <1>2, <3>1, <3>2 DEF CloseStep
  <2>2. ASSUME NEW u \in Threads, NEW v \in Threads, tx'[u].who = tx'[v].who,
               tx'[u].who \in Machines
        PROVE  u = v
    <3>1. tx'[u] = tx[u] /\ tx'[v] = tx[v]
      BY <1>0, <1>2, <2>2 DEF CloseStep
    <3> QED BY <2>2, <3>1 DEF TxOK
  <2> QED BY <2>1, <2>2 DEF TxOK, HeldBy, Held, Lapsed
<1> QED BY <1>1, <1>2, Handlers

LEMMA OneJobStays ==
    ASSUME Ind, [Next]_vars
    PROVE  OneJobPerMachine'
<1> USE DEF Ind, RowsOK
<1> SUFFICES ASSUME NEW q \in Machines, NEW a \in Jobs, NEW b \in Jobs,
                    HeldBy(jobs'[a], q), HeldBy(jobs'[b], q)
             PROVE  a = b
  BY DEF OneJobPerMachine, HeldBy, Held
<1>1. CASE QuietStep
  BY <1>1, QuietRow DEF QuietStep, OneJobPerMachine
<1>2. ASSUME NEW m \in Machines, NEW j \in Jobs, FinishStep(m, j) PROVE a = b
  <2>1. jobs[j] \in Row BY DEF TypeOK
  <2>2. ~HeldBy(jobs'[j], q)
    BY <1>2, <2>1 DEF FinishStep, Finishes, Row, HeldBy, Held, HeldStates
  <2> QED BY <1>2, <2>2, QuietRow DEF FinishStep, OneJobPerMachine
<1>3. ASSUME NEW t \in Threads, NEW m \in Machines, NEW j \in Jobs, GrantStep(t, m, j)
      PROVE  a = b
  <2>1. CASE q = m BY <1>3, <2>1 DEF GrantStep
  <2>2. CASE q # m
    <3>1. jobs'[j].holder = m BY <1>3, GrantedRow DEF GrantStep
    <3>2. a # j /\ b # j BY <2>2, <3>1 DEF HeldBy
    <3> QED BY <1>3, <3>2, QuietRow DEF GrantStep, OneJobPerMachine
  <2> QED BY <2>1, <2>2
<1> QED BY Shapes, <1>1, <1>2, <1>3

LEMMA OtherTypes ==
    ASSUME Ind, [Next]_vars
    PROVE  cool' \subseteq Machines /\ hand' \in Jobs \cup {NoJob, NoEngine}
<1> USE DEF Ind, TypeOK
<1>1. hand' \in Jobs \cup {NoJob, NoEngine}
  BY DEF Next, Admin, Machine, Container, Time, vars, Create, RetryStart, RetryWrite,
         CancelStart, CancelWrite, ClaimStart, ClaimSweep, ClaimTake, FailStart, FailWrite,
         Heartbeat, Finish, Prune, PinTake, PinFinish, PinFail, PinWriteFails, Look, Restart,
         LeaseRunsOut, CooldownOver
<1>2. ASSUME NEW t \in Threads, ClaimSweep(t) PROVE cool' \subseteq Machines
  BY <1>2 DEF ClaimSweep, SweptCool, TxOK
<1>3. ASSUME NEW t \in Threads, FailWrite(t) PROVE cool' \subseteq Machines
  BY <1>3 DEF FailWrite, TxOK
<1>4. ASSUME NEW pin \in BOOLEAN, NEW P \in SUBSET Jobs, Prune(pin, P)
      PROVE  cool' \subseteq Machines
  BY <1>4 DEF Prune, SweptCool, LapsedIds, Lapsed, RowsOK, RowOK
<1>5. ASSUME NEW m \in Machines, NEW j \in Jobs, Finish(m, j) PROVE cool' \subseteq Machines
  BY <1>5 DEF Finish
<1>6. ASSUME NEW m \in Machines, CooldownOver(m) PROVE cool' \subseteq Machines
  BY <1>6 DEF CooldownOver
<1>7. cool' \subseteq Machines
  BY <1>2, <1>3, <1>4, <1>5, <1>6
     DEF Next, Admin, Machine, Container, Time, vars, Create, RetryStart, RetryWrite,
         CancelStart, CancelWrite, ClaimStart, ClaimTake, FailStart,
         Heartbeat, PinTake, PinFinish, PinFail, PinWriteFails, Look, Restart, LeaseRunsOut
<1> QED BY <1>1, <1>7

LEMMA IndInit == Init => Ind
<1> SUFFICES ASSUME Init PROVE Ind
  OBVIOUS
<1> USE DEF Init
<1>1. TypeOK BY BlankType DEF TypeOK
<1>2. \A j \in Jobs : /\ jobs[j] = Blank /\ jobs[j].state = "absent" /\ jobs[j].holder = Nobody
                      /\ jobs[j].lease = "none" /\ ~Held(jobs[j])
  BY DEF NoRows, Blank, Held, HeldStates
<1>3. RowsOK BY <1>2, JobQueueAssumption DEF RowsOK, RowOK, HeldStates
<1>4. TxOK BY JobQueueAssumption DEF TxOK, Idle
<1>5. OneJobPerMachine BY <1>2 DEF OneJobPerMachine, HeldBy
<1> QED BY <1>1, <1>3, <1>4, <1>5 DEF Ind

LEMMA IndStep == Ind /\ [Next]_vars => Ind'
<1> SUFFICES ASSUME Ind, [Next]_vars PROVE Ind'
  OBVIOUS
<1>1. \A j \in Jobs : RowStep(j) BY RowSteps
<1>2. \A j \in Jobs : jobs'[j] \in Row BY <1>1, RowTypes DEF Ind
<1>3. jobs' = [j \in Jobs |-> jobs'[j]]
  BY DEF Ind, TypeOK, Next, Admin, Machine, Container, Time, vars, Create, RetryStart,
         RetryWrite, CancelStart, CancelWrite, ClaimStart, ClaimSweep, SweptRows, ClaimTake,
         FailStart, FailWrite, Heartbeat, Finish, Prune, Without, PinTake, PinFinish, PinFail,
         PinWriteFails, Look, Restart, LeaseRunsOut, CooldownOver
<1>4. TypeOK' BY <1>2, <1>3, Handlers, OtherTypes DEF TypeOK
<1>5. RowsOK'
  <2>1. ASSUME NEW j \in Jobs PROVE RowOK(j)'
    BY <1>1, RowsStayOK DEF Ind, RowsOK
  <2> QED BY <2>1 DEF RowsOK
<1> QED BY <1>4, <1>5, TxStaysOK, OneJobStays DEF Ind

LEMMA Always == Spec => []Ind
  BY IndInit, IndStep, PTL DEF Spec

-----------------------------------------------------------------------------
(* The fleet cap *)

LEMMA HeldFinite ==
    ASSUME NEW k
    PROVE  IsFiniteSet(HeldOf(jobs, k)) /\ Cardinality(HeldOf(jobs, k)) \in Nat
  BY JobQueueAssumption, FS_Subset, FS_CardinalityType DEF HeldOf

\* A kind of which no machine gains a row stays under its cap.
LEMMA NoMoreHeld ==
    ASSUME WithinCap, NEW k \in Kinds, HeldOf(jobs, k)' \subseteq HeldOf(jobs, k)
    PROVE  Cardinality(HeldOf(jobs, k)') <= Cap[k]
<1>1. Cardinality(HeldOf(jobs, k)') <= Cardinality(HeldOf(jobs, k))
      /\ Cardinality(HeldOf(jobs, k)') \in Nat
  BY HeldFinite, FS_Subset, FS_CardinalityType
<1> QED BY <1>1, HeldFinite, JobQueueAssumption DEF WithinCap

LEMMA CapStep ==
    ASSUME Ind, WithinCap, [Next]_vars
    PROVE  WithinCap'
<1> USE DEF Ind, RowsOK
<1> SUFFICES ASSUME NEW k \in Kinds PROVE Cardinality(HeldOf(jobs, k)') <= Cap[k]
  BY DEF WithinCap
<1>1. ASSUME NEW x \in Jobs, Quiet(x), Held(jobs'[x]) PROVE Held(jobs[x])
  <2>1. RowOK(x)' BY <1>1, RowsStayOK DEF RowStep
  <2>2. HeldBy(jobs'[x], jobs'[x].holder) /\ jobs'[x].holder \in Machines
    BY <1>1, <2>1 DEF RowOK, HeldBy
  <2> QED BY <1>1, <2>2, QuietRow DEF HeldBy
<1>2. CASE QuietStep
  BY <1>1, <1>2, NoMoreHeld DEF QuietStep, HeldOf
<1>3. ASSUME NEW m \in Machines, NEW j \in Jobs, FinishStep(m, j)
      PROVE  Cardinality(HeldOf(jobs, k)') <= Cap[k]
  BY <1>1, <1>3, NoMoreHeld DEF FinishStep, Finishes, HeldOf
<1>4. ASSUME NEW t \in Threads, NEW m \in Machines, NEW j \in Jobs, GrantStep(t, m, j)
      PROVE  Cardinality(HeldOf(jobs, k)') <= Cap[k]
  <2>1. CASE KindOf[j] # k
    BY <1>1, <1>4, <2>1, NoMoreHeld DEF GrantStep, HeldOf
  <2>2. CASE KindOf[j] = k
    <3>1. HeldOf(jobs, k)' = Others(j) \cup {j}
      BY <1>4, <2>2, GrantedRow DEF GrantStep, HeldOf, Others, HeldBy
    <3>2. IsFiniteSet(Others(j)) /\ Cardinality(Others(j)) \in Nat
      BY JobQueueAssumption, FS_Subset, FS_CardinalityType DEF Others
    <3>3. j \notin Others(j) BY DEF Others
    <3>4. Cardinality(Others(j) \cup {j}) = Cardinality(Others(j)) + 1
      BY <3>2, <3>3, FS_AddElement
    <3> QED BY <1>4, <2>2, <3>1, <3>2, <3>4, JobQueueAssumption DEF GrantStep
  <2> QED BY <2>1, <2>2
<1> QED BY Shapes, <1>2, <1>3, <1>4

-----------------------------------------------------------------------------
(* The executor's hand *)

InHands(r) == r.state = "pinned" /\ r.holder = Dash

LEMMA HandMoves ==
    ASSUME [Next]_vars
    PROVE  \/ hand' = hand
           \/ \E j \in Jobs : PinTake(j) \/ PinFinish(j) \/ PinFail(j) \/ PinWriteFails(j)
           \/ Look \/ Restart
  BY DEF Next, Admin, Machine, Container, Time, vars, Create, RetryStart, RetryWrite,
         CancelStart, CancelWrite, ClaimStart, ClaimSweep, ClaimTake, FailStart, FailWrite,
         Heartbeat, Finish, Prune, LeaseRunsOut, CooldownOver

\* Only the executor marks a row as in its hands, or stops it being so.
LEMMA HandsKept ==
    ASSUME TypeOK, NEW j \in Jobs, RowOK(j), RowStep(j), ~InHouse(j)
    PROVE  InHands(jobs'[j]) <=> InHands(jobs[j])
<1> DEFINE r == jobs'[j]
<1>0. jobs[j] \in Row /\ Nobody # Dash BY JobQueueAssumption DEF TypeOK
<1>1. CASE r = jobs[j] BY <1>1
<1>2. CASE AskedToStop(j) BY <1>0, <1>2 DEF AskedToStop, Row, InHands
<1>3. CASE Born(j) \/ Deleted(j)
  BY <1>3 DEF Born, Deleted, Queued, Blank, InHands, Terminal, TerminalStates
<1>4. CASE StoppedWaiting(j) \/ Finishes(j)
  BY <1>0, <1>4 DEF StoppedWaiting, Finishes, Row, InHands, Held, HeldStates
<1>5. CASE Beats(j) \/ Expires(j)
  BY <1>0, <1>5 DEF Beats, Expires, Row, InHands, Held, HeldStates
<1>6. CASE GivenUp(j)
  <2>1. r.holder = Nobody BY <1>6, LetGoFacts DEF GivenUp, TypeOK
  <2>2. Held(jobs[j]) BY <1>6 DEF GivenUp, Lapsed
  <2> QED BY <1>0, <2>1, <2>2 DEF InHands, Held, HeldStates
<1>7. ASSUME NEW m \in Machines, Granted(j, m) PROVE InHands(r) <=> InHands(jobs[j])
  <2>1. HeldBy(r, m) BY <1>7, GrantedRow
  <2>2. Held(jobs[j]) \/ jobs[j].state = "queued"
    BY <1>7 DEF Granted, GivenTo, PassedTo, Lapsed
  <2> QED BY <2>1, <2>2 DEF InHands, HeldBy, Held, HeldStates
<1> QED BY <1>1, <1>2, <1>3, <1>4, <1>5, <1>6, <1>7 DEF RowStep, Quiet

LEMMA WorkedStep ==
    ASSUME Ind, ~FlakyWrites, InHandIsWorked, [Next]_vars
    PROVE  InHandIsWorked'
<1> USE DEF Ind, RowsOK
<1>0. jobs \in [Jobs -> Row] /\ NoJob \notin Jobs /\ NoEngine \notin Jobs /\ Nobody # Dash
  BY JobQueueAssumption DEF TypeOK
<1>1. CASE hand' = hand
  <2>1. ASSUME NEW j \in Jobs PROVE InHands(jobs'[j]) <=> hand' = j
    <3>1. CASE InHouse(j)
      <4>1. jobs'[j] = [jobs[j] EXCEPT !.holder = Dash] /\ hand = j
        BY <1>0, <1>1, <3>1 DEF InHouse, InHandIsWorked
      <4>2. jobs'[j].state = "pinned" /\ jobs'[j].holder = Dash
        BY <1>0, <3>1, <4>1 DEF InHouse, Row
      <4> QED BY <1>1, <4>1, <4>2 DEF InHands
    <3>2. CASE ~InHouse(j)
      BY <1>1, <3>2, RowSteps, HandsKept DEF InHandIsWorked, InHands
    <3> QED BY <3>1, <3>2
  <2> QED BY <1>1, <2>1 DEF InHandIsWorked, InHands, TypeOK
<1>2. ASSUME NEW j \in Jobs, PinTake(j) PROVE InHandIsWorked'
  <2>1. jobs'[j].state = "pinned" /\ jobs'[j].holder = Dash /\ hand' = j
    BY <1>0, <1>2 DEF PinTake, Row
  <2>2. \A x \in Jobs \ {j} : jobs'[x] = jobs[x] /\ hand # x
    BY <1>0, <1>2 DEF PinTake
  <2> QED BY <2>1, <2>2 DEF InHandIsWorked
<1>3. ASSUME NEW j \in Jobs, PinFinish(j) \/ PinFail(j) PROVE InHandIsWorked'
  <2>1. hand = j /\ hand' = NoJob /\ jobs[j].state = "pinned"
    BY <1>0, <1>3 DEF PinFinish, PinFail, InHandIsWorked
  <2>2. jobs'[j].state \in {"done", "abandoned"} /\ \A x \in Jobs \ {j} : jobs'[x] = jobs[x]
    BY <1>0, <1>3, <2>1 DEF PinFinish, PinFail, Row
  <2> QED BY <1>0, <2>1, <2>2 DEF InHandIsWorked
<1>4. CASE Restart
  <2>1. \A x \in Jobs : ~InHands(jobs'[x])
    BY <1>0, <1>4 DEF Restart, Row, InHands
  <2> QED BY <1>0, <1>4, <2>1 DEF Restart, InHandIsWorked, InHands
<1>5. CASE Look
  BY <1>0, <1>5 DEF Look, InHandIsWorked
<1> QED BY <1>1, <1>2, <1>3, <1>4, <1>5, HandMoves DEF PinWriteFails

-----------------------------------------------------------------------------
(* The pin *)

\* A cancelled row that is given up with the cancel read is failed, not pinned.
LEMMA CancelReadNoPin ==
    ASSUME NEW j \in Jobs, jobs \in [Jobs -> Row], NEW read \in Row, read.cancel,
           NEW pin \in BOOLEAN, NEW final \in BOOLEAN
    PROVE  LetGo(j, read, pin, final).state = "failed"
<1>1. AfterAttempt(j, read, pin, final) = "failed" BY DEF AfterAttempt
<1>2. "failed" \in States BY DEF States, TerminalStates
<1> QED BY <1>1, <1>2 DEF LetGo, Row

\* A cancelled row becomes pinned only by a write whose read came before.
LEMMA PinnedBehind ==
    ASSUME TypeOK, [Next]_vars, NEW j \in Jobs, jobs[j].cancel,
           jobs'[j].state = "pinned", jobs[j].state # "pinned"
    PROVE  ReadBefore(j)
<1> USE DEF TypeOK
<1>0. jobs[j] \in Row OBVIOUS
<1>1. ASSUME NEW t \in Threads, FailWrite(t) PROVE ReadBefore(j)
  <2>1. PICK i \in tx[t].ids, pin \in BOOLEAN :
           \/ jobs' = [jobs EXCEPT ![i] = LetGo(i, tx[t].seen[i], pin, tx[t].final)]
           \/ UNCHANGED jobs
    BY <1>1 DEF FailWrite
  <2>2. tx[t] \in Tx /\ tx[t].op = "fail" /\ tx'[t] = Idle
    BY <1>1 DEF FailWrite, Ended
  <2>3. i = j /\ jobs'[j] = LetGo(j, tx[t].seen[j], pin, tx[t].final)
    BY <2>1, <2>2 DEF Tx
  <2>4. tx[t].seen[j] \in Row /\ tx[t].final \in BOOLEAN BY <2>2 DEF Tx
  <2>5. ~tx[t].seen[j].cancel
    BY <2>3, <2>4, CancelReadNoPin
  <2> QED BY <2>2, <2>3, <2>5 DEF ReadBefore
<1>2. ASSUME NEW t \in Threads, ClaimSweep(t) PROVE ReadBefore(j)
  <2>1. PICK pin \in BOOLEAN :
           LET rows == SweptRows(tx[t].ids, tx[t].seen, pin)
           IN \/ jobs' = rows
              \/ \E i \in Offers(rows, cool', tx[t].who) :
                    jobs' = [rows EXCEPT ![i] = Claimed(@, tx[t].who)]
    BY <1>2 DEF ClaimSweep
  <2>2. tx[t] \in Tx /\ tx[t].op = "claim" /\ tx'[t] = Idle
    BY <1>2 DEF ClaimSweep, Ended
  <2> DEFINE rows == SweptRows(tx[t].ids, tx[t].seen, pin)
  <2>3. /\ tx[t].ids \in SUBSET Jobs
        /\ \A x \in Jobs : tx[t].seen[x] \in Row /\ FALSE \in BOOLEAN
    BY <2>2 DEF Tx
  <2>7. \A x \in Jobs : LetGo(x, tx[t].seen[x], pin, FALSE) \in Row
    BY <2>3, LetGoFacts
  <2>8. rows = [x \in Jobs |-> rows[x]] /\ \A x \in Jobs : rows[x] \in Row
    BY <2>7 DEF SweptRows
  <2>4. rows[j].state = "pinned"
    <3>1. ASSUME NEW i \in Jobs, jobs' = [rows EXCEPT ![i] = Claimed(@, tx[t].who)]
          PROVE  jobs'[j] = rows[j]
      BY <2>8, <3>1 DEF Claimed, Row
    <3> QED BY <2>1, <3>1 DEF Offers
  <2>5. j \in tx[t].ids /\ rows[j] = LetGo(j, tx[t].seen[j], pin, FALSE)
    BY <2>4 DEF SweptRows
  <2>6. ~tx[t].seen[j].cancel
    BY <2>3, <2>4, <2>5, CancelReadNoPin
  <2> QED BY <2>2, <2>5, <2>6 DEF ReadBefore
<1>3. ASSUME NEW pin \in BOOLEAN, NEW P \in SUBSET Jobs, Prune(pin, P) PROVE FALSE
  <2>1. SweptRows(LapsedIds, jobs, pin)[j].state # "pinned"
    BY CancelReadNoPin DEF SweptRows
  <2> QED BY <1>3, <2>1 DEF Prune, Without, Blank
<1>4. ASSUME NEW i \in Jobs, PinTake(i) \/ PinFinish(i) \/ PinFail(i) \/ LeaseRunsOut(i)
      PROVE  FALSE
  <2>1. jobs[i] \in Row OBVIOUS
  <2>2. CASE i # j
    BY <1>4, <2>2 DEF PinTake, PinFinish, PinFail, LeaseRunsOut
  <2>3. CASE i = j /\ (PinTake(i) \/ LeaseRunsOut(i))
    BY <2>1, <2>3 DEF PinTake, LeaseRunsOut, Row
  <2>4. CASE i = j /\ (PinFinish(i) \/ PinFail(i))
    BY <2>1, <2>4 DEF PinFinish, PinFail, Row
  <2> QED BY <1>4, <2>2, <2>3, <2>4
<1>5. CASE Restart BY <1>5 DEF Restart
<1>6. ASSUME NEW t \in Threads, ClaimTake(t) PROVE FALSE
  BY <1>0, <1>6 DEF ClaimTake, Claimed, Row
<1>7. ASSUME NEW t \in Threads, RetryWrite(t) \/ CancelWrite(t) PROVE FALSE
  <2>1. ASSUME NEW i \in Jobs, NEW k, jobs' = [jobs EXCEPT ![i] = Queued(k)] PROVE FALSE
    BY <1>0, <2>1 DEF Queued, Blank
  <2>2. ASSUME NEW i \in Jobs,
               \/ jobs' = [jobs EXCEPT ![i].state = "failed", ![i].cancel = TRUE]
               \/ jobs' = [jobs EXCEPT ![i].cancel = TRUE]
        PROVE  FALSE
    <3>1. jobs[i] \in Row OBVIOUS
    <3>2. CASE i # j BY <2>2, <3>2
    <3>3. CASE i = j BY <2>2, <3>1, <3>3 DEF Row
    <3> QED BY <3>2, <3>3
  <2>3. tx[t].ids \in SUBSET Jobs BY DEF Tx
  <2>4. ~UNCHANGED jobs OBVIOUS
  <2>5. CASE RetryWrite(t) BY <2>1, <2>4, <2>5 DEF RetryWrite
  <2>6. CASE CancelWrite(t) BY <2>2, <2>3, <2>4, <2>6 DEF CancelWrite
  <2> QED BY <1>7, <2>5, <2>6
<1>8. ASSUME NEW m \in Machines, NEW i \in Jobs, Heartbeat(m, i) \/ Finish(m, i) PROVE FALSE
  BY <1>0, <1>8 DEF Heartbeat, Finish, Row
<1>9. ASSUME NEW i \in Jobs, Create(i) PROVE FALSE
  BY <1>0, <1>9 DEF Create, Queued, Blank
<1> QED BY <1>1, <1>2, <1>3, <1>4, <1>5, <1>6, <1>7, <1>8, <1>9
        DEF Next, Admin, Machine, Container, Time, vars, RetryStart, CancelStart, ClaimStart,
            FailStart, PinWriteFails, Look, CooldownOver

-----------------------------------------------------------------------------
(* The promise: a row's life *)

LEMMA Phases ==
    ASSUME NEW r \in Row
    PROVE  /\ r.state = "absent" => PhaseOf(r) = "none"
           /\ r.state = "queued" => PhaseOf(r) = "waiting"
           /\ Held(r) => PhaseOf(r) = "granted"
           /\ r.state = "pinned" => PhaseOf(r) = "house"
           /\ Terminal(r) => PhaseOf(r) = "over"
           /\ r.state = "pruned" => PhaseOf(r) = "forgotten"
           /\ Held(r) => GrantedOf(r) = r.attempts + 1
           /\ r.state \in {"queued", "pinned"} => GrantedOf(r) = r.attempts /\ ~Held(r)
           /\ ~Held(r) /\ r.state \notin {"queued", "pinned"} => GrantedOf(r) = 0
  BY DEF PhaseOf, GrantedOf, Held, HeldStates, Terminal, TerminalStates

OwnerOf(r) == IF Held(r) THEN r.holder ELSE Nobody

\* A row that no machine gains stays where it is in its life or moves along it.
LEMMA RowLives ==
    ASSUME TypeOK, NEW j \in Jobs, RowOK(j), Quiet(j) \/ Finishes(j)
    PROVE  LET from == PhaseOf(jobs[j])
               to == PhaseOf(jobs'[j])
               tries == GrantedOf(jobs[j])
               tries2 == GrantedOf(jobs'[j])
               none == OwnerOf(jobs'[j]) = Nobody
           IN  \/ to = from /\ OwnerOf(jobs'[j]) = OwnerOf(jobs[j]) /\ tries2 = tries
               \/ from = "none" /\ to = "waiting" /\ none /\ tries2 = 0
               \/ /\ from = "granted" /\ to = "waiting" /\ none
                  /\ tries < Budget[KindOf[j]] /\ tries2 = tries
               \/ /\ from = "granted" /\ to = "house" /\ none /\ KindOf[j] \in Pinnable
                  /\ tries >= Budget[KindOf[j]] /\ tries2 = tries
               \/ from \in {"waiting", "granted", "house"} /\ to = "over" /\ none /\ tries2 = 0
               \/ from = "over" /\ to = "forgotten" /\ none /\ tries2 = 0
<1> DEFINE r == jobs'[j]
<1>0. jobs[j] \in Row /\ r \in Row /\ Budget[KindOf[j]] \in Nat
  BY RowTypes, JobQueueAssumption DEF TypeOK, RowStep
<1>1. CASE r = jobs[j] BY <1>1
<1>2. CASE AskedToStop(j) \/ Beats(j) \/ Expires(j)
  <2>1. /\ r.attempts = jobs[j].attempts /\ r.holder = jobs[j].holder
        /\ \/ Held(r) /\ Held(jobs[j])
           \/ r.state = "pinned" /\ jobs[j].state = "pinned"
    BY <1>0, <1>2 DEF AskedToStop, Beats, Expires, Row, Held, HeldStates
  <2> QED BY <1>0, <2>1, Phases DEF OwnerOf
<1>3. CASE Born(j)
  <2>1. r.state = "queued" /\ r.attempts = 0 BY <1>3 DEF Born, Queued, Blank
  <2>2. jobs[j].state = "absent" BY <1>3 DEF Born
  <2> QED BY <1>0, <2>1, <2>2, Phases DEF OwnerOf
<1>4. CASE Deleted(j)
  <2>1. r.state = "pruned" /\ Terminal(jobs[j]) /\ ~Held(r)
    BY <1>4 DEF Deleted, Blank, Held, HeldStates
  <2> QED BY <1>0, <2>1, Phases DEF OwnerOf
<1>5. CASE StoppedWaiting(j) \/ Finishes(j)
  <2>1. /\ r.state \in {"failed", "done"} /\ Terminal(r) /\ ~Held(r)
        /\ Held(jobs[j]) \/ jobs[j].state = "queued"
    BY <1>0, <1>5 DEF StoppedWaiting, Finishes, Row, Held, HeldStates, Terminal, TerminalStates
  <2> QED BY <1>0, <2>1, Phases DEF OwnerOf
<1>6. CASE InHouse(j)
  <2>1. /\ jobs[j].state = "pinned" /\ r.state \in {"pinned", "done", "abandoned"}
        /\ r.state = "pinned" => r.attempts = jobs[j].attempts
    BY <1>0, <1>6 DEF InHouse, Row
  <2>2. r.state \in {"done", "abandoned"} => Terminal(r) /\ ~Held(r)
    BY DEF Terminal, TerminalStates, Held, HeldStates
  <2> QED BY <1>0, <2>1, <2>2, Phases DEF OwnerOf
<1>7. CASE GivenUp(j)
  <2>1. /\ Held(jobs[j]) /\ r.attempts = jobs[j].attempts + 1
        /\ r.state \in {"failed", "pinned", "abandoned", "queued"}
        /\ r.state = "queued" => r.attempts < Budget[KindOf[j]]
        /\ r.state = "pinned" => r.attempts >= Budget[KindOf[j]] /\ KindOf[j] \in Pinnable
    BY <1>7, LetGoFacts DEF GivenUp, Lapsed, TypeOK
  <2>2. ~Held(r) /\ (r.state \in {"failed", "abandoned"} => Terminal(r))
    BY <2>1 DEF Terminal, TerminalStates, Held, HeldStates
  <2> QED BY <1>0, <2>1, <2>2, Phases DEF OwnerOf
<1> QED BY <1>1, <1>2, <1>3, <1>4, <1>5, <1>6, <1>7 DEF Quiet

\* A row that a machine gains is one more try of a job with a try left.
LEMMA GrantLives ==
    ASSUME TypeOK, NEW j \in Jobs, RowOK(j), NEW m \in Machines, Granted(j, m)
    PROVE  /\ PhaseOf(jobs[j]) \in {"waiting", "granted"}
           /\ PhaseOf(jobs'[j]) = "granted"
           /\ GrantedOf(jobs[j]) < Budget[KindOf[j]]
           /\ GrantedOf(jobs'[j]) = GrantedOf(jobs[j]) + 1
           /\ OwnerOf(jobs'[j]) = m
<1> DEFINE r == jobs'[j]
<1>0. jobs[j] \in Row /\ r \in Row /\ Budget[KindOf[j]] \in Nat
  BY RowTypes, JobQueueAssumption DEF TypeOK, RowStep
<1>1. Held(r) /\ r.holder = m BY GrantedRow DEF HeldBy
<1>2. ASSUME NEW q \in Row PROVE Claimed(q, m).attempts = q.attempts
  BY DEF Claimed, Row
<1>3. CASE GivenTo(j, m)
  <2>1. jobs[j].state = "queued" /\ r.attempts = jobs[j].attempts
        /\ jobs[j].attempts < Budget[KindOf[j]]
    BY <1>0, <1>2, <1>3 DEF GivenTo, RowOK
  <2> QED BY <1>0, <1>1, <2>1, Phases DEF OwnerOf
<1>4. CASE PassedTo(j, m)
  <2>1. PICK read \in Row, pin \in BOOLEAN :
           /\ read.attempts = jobs[j].attempts
           /\ LetGo(j, read, pin, FALSE).state = "queued"
           /\ r = Claimed(LetGo(j, read, pin, FALSE), m)
    BY <1>4 DEF PassedTo
  <2> DEFINE q == LetGo(j, read, pin, FALSE)
  <2>2. q \in Row /\ q.attempts = read.attempts + 1 /\ q.attempts < Budget[KindOf[j]]
    BY <2>1, LetGoFacts, FALSE \in BOOLEAN DEF TypeOK
  <2> HIDE DEF q
  <2>3. q \in Row /\ q.attempts = jobs[j].attempts + 1 /\ q.attempts < Budget[KindOf[j]]
    BY <2>1, <2>2
  <2>4. r.attempts = jobs[j].attempts + 1 BY <1>2, <2>1, <2>3 DEF q
  <2>5. Held(jobs[j]) BY <1>4 DEF PassedTo, Lapsed
  <2> QED BY <1>0, <1>1, <2>3, <2>4, <2>5, Phases DEF OwnerOf
<1> QED BY <1>3, <1>4 DEF Granted

LEMMA LifeStep ==
    ASSUME Ind, [Next]_vars
    PROVE  Life!Next
<1> USE DEF Ind, RowsOK
<1>1. ASSUME NEW j \in Jobs, Quiet(j) \/ Finishes(j) PROVE Life!Same(j) \/ Life!Moves(j)
  BY <1>1, RowLives
     DEF OwnerOf, Life!Same, Life!Moves, Life!Goes, Life!Submit, Life!GiveBack,
         Life!HandOver, Life!End, Life!Forget
<1>2. ASSUME NEW t \in Threads, NEW m \in Machines, NEW j \in Jobs, GrantStep(t, m, j)
      PROVE  Life!Grant(j, m)
  <2>1. Granted(j, m) BY <1>2 DEF GrantStep
  <2>2. \A i \in Jobs \ {j} : OwnerOf(jobs'[i]) # m
    BY <1>2, JobQueueAssumption DEF GrantStep, OwnerOf, HeldBy
  <2> QED BY <2>1, <2>2, GrantLives DEF OwnerOf, Life!Grant, Life!Goes
<1>3. CASE QuietStep BY <1>1, <1>3 DEF QuietStep, Life!Next
<1>4. ASSUME NEW m \in Machines, NEW j \in Jobs, FinishStep(m, j) PROVE Life!Next
  BY <1>1, <1>4 DEF FinishStep, Life!Next
<1>5. ASSUME NEW t \in Threads, NEW m \in Machines, NEW j \in Jobs, GrantStep(t, m, j)
      PROVE  Life!Next
  <2>1. Life!Moves(j) BY <1>2, <1>5 DEF Life!Moves
  <2>2. \A x \in Jobs \ {j} : Life!Same(x) \/ Life!Moves(x)
    BY <1>1, <1>5 DEF GrantStep
  <2> QED BY <2>1, <2>2 DEF Life!Next
<1> QED BY Shapes, <1>3, <1>4, <1>5

-----------------------------------------------------------------------------
(* What every queue keeps, whatever its jobs, machines, budgets and caps *)

\* Rows, handlers, cooldowns and the executor's hand keep their type (the jobs
\* table of db.py and what its handlers carry between a read and a write).
THEOREM TypeCorrect == Spec => []TypeOK
<1>1. Ind => TypeOK BY DEF Ind
<1> QED BY <1>1, Always, PTL

\* A held row carries a lease and a machine, a waiting one neither: the sweep of
\* expire_leases can find every held row.
THEOREM HeldRowsAreLeased == Spec => []HoldIsLeased
<1>1. Ind => HoldIsLeased BY DEF Ind, RowsOK, RowOK, HoldIsLeased
<1> QED BY <1>1, Always, PTL

\* No row waits for, or runs, an attempt beyond its kind's JOB_RETRY_BUDGET.
THEOREM BudgetIsKept == Spec => []BudgetKept
<1>1. Ind => BudgetKept BY DEF Ind, RowsOK, RowOK, BudgetKept
<1> QED BY <1>1, Always, PTL

\* No machine holds two rows, though offers are read outside the write lock.
THEOREM OneJobEach == Spec => []OneJobPerMachine
<1>1. Ind => OneJobPerMachine BY DEF Ind
<1> QED BY <1>1, Always, PTL

\* No kind has more rows held across the fleet than its JOB_MAX_RUNNING: claims
\* that read the same count outside the lock are not all granted.
THEOREM CapIsKept == Spec => []WithinCap
<1>1. Init => WithinCap
  <2> SUFFICES ASSUME Init, NEW k \in Kinds PROVE Cardinality(HeldOf(jobs, k)) <= Cap[k]
    BY DEF WithinCap
  <2>1. HeldOf(jobs, k) = {}
    BY DEF Init, NoRows, Blank, HeldOf, Held, HeldStates
  <2> QED BY <2>1, FS_EmptySet, JobQueueAssumption
<1>2. Ind /\ WithinCap /\ [Next]_vars => WithinCap'
  BY CapStep
<1> QED BY <1>1, <1>2, Always, PTL DEF Spec

\* While the executor's closing writes succeed, the job it is running is pinned and
\* marked as this container's, and no other row is: release_pinned_jobs and
\* take_pinned_job leave no pinned row marked with nobody working on it.
THEOREM HandIsWorked == ~FlakyWrites => (Spec => []InHandIsWorked)
<1> SUFFICES ASSUME ~FlakyWrites PROVE Spec => []InHandIsWorked
  OBVIOUS
<1>1. Init => InHandIsWorked
  BY JobQueueAssumption DEF Init, NoRows, Blank, InHandIsWorked
<1>2. Ind /\ InHandIsWorked /\ [Next]_vars => InHandIsWorked'
  BY WorkedStep
<1> QED BY <1>1, <1>2, Always, PTL DEF Spec

\* A finished row is never rewritten, only deleted by age (prune_jobs).
THEOREM OutcomesStand == Spec => EndedStays
<1>1. Ind /\ [Next]_vars => [\A j \in Jobs : Terminal(jobs[j]) =>
                                jobs'[j] = jobs[j] \/ jobs'[j].state = "pruned"]_vars
  <2> SUFFICES ASSUME Ind, [Next]_vars, NEW j \in Jobs, Terminal(jobs[j])
               PROVE  jobs'[j] = jobs[j] \/ jobs'[j].state = "pruned"
    OBVIOUS
  <2>1. RowStep(j) BY RowSteps
  <2>2. jobs[j].state \notin HeldStates \cup {"absent", "queued", "pinned"}
    BY DEF Terminal, TerminalStates, HeldStates
  <2> QED
    BY <2>1, <2>2
       DEF RowStep, Quiet, Granted, Born, StoppedWaiting, AskedToStop, Beats, Expires,
           GivenUp, Deleted, InHouse, Finishes, GivenTo, PassedTo, Lapsed, Held, Blank
<1> QED BY <1>1, Always, PTL DEF Spec, EndedStays

\* Once pinned, a row is never queued for, or held by, a machine again.
THEOREM PinnedStaysHere == Spec => PinIsOneWay
<1>1. Ind /\ [Next]_vars => [\A j \in Jobs : jobs[j].state = "pinned" =>
                                jobs'[j].state \in {"pinned", "done", "abandoned"}]_vars
  <2> SUFFICES ASSUME Ind, [Next]_vars, NEW j \in Jobs, jobs[j].state = "pinned"
               PROVE  jobs'[j].state \in {"pinned", "done", "abandoned"}
    OBVIOUS
  <2>1. RowStep(j) /\ jobs[j] \in Row BY RowSteps DEF Ind, TypeOK
  <2>2. ~Held(jobs[j]) /\ ~Terminal(jobs[j])
    BY DEF Held, HeldStates, Terminal, TerminalStates
  <2>3. CASE jobs'[j] = jobs[j] BY <2>3
  <2>4. CASE AskedToStop(j) \/ InHouse(j)
    BY <2>1, <2>4 DEF AskedToStop, InHouse, Row
  <2> QED
    BY <2>1, <2>2, <2>3, <2>4
       DEF RowStep, Quiet, Granted, Born, StoppedWaiting, Beats, Expires,
           GivenUp, Deleted, Finishes, GivenTo, PassedTo, Lapsed
<1> QED BY <1>1, Always, PTL DEF Spec, PinIsOneWay

\* No machine is given a row after somebody asked for it to be stopped, and the
\* request is never lost while the row exists; and it is pinned for this container
\* only by a fail_job or a sweep that had read it before the request.
THEOREM StopsAreHeeded == Spec => CancelledNeverStarts
<1>1. Ind /\ [Next]_vars =>
        [\A j \in Jobs : jobs[j].cancel =>
            /\ jobs'[j].cancel \/ jobs'[j].state = "pruned"
            /\ Held(jobs'[j]) => Held(jobs[j]) /\ jobs'[j].holder = jobs[j].holder
            /\ jobs'[j].state = "pinned" => jobs[j].state = "pinned" \/ ReadBefore(j)]_vars
  <2> SUFFICES ASSUME Ind, [Next]_vars, NEW j \in Jobs, jobs[j].cancel
               PROVE  /\ jobs'[j].cancel \/ jobs'[j].state = "pruned"
                      /\ Held(jobs'[j]) => Held(jobs[j]) /\ jobs'[j].holder = jobs[j].holder
                      /\ jobs'[j].state = "pinned" => jobs[j].state = "pinned" \/ ReadBefore(j)
    OBVIOUS
  <2>0. jobs'[j].state = "pinned" => jobs[j].state = "pinned" \/ ReadBefore(j)
    BY PinnedBehind DEF Ind
  <2> SUFFICES /\ jobs'[j].cancel \/ jobs'[j].state = "pruned"
               /\ Held(jobs'[j]) => Held(jobs[j]) /\ jobs'[j].holder = jobs[j].holder
    BY <2>0
  <2>1. /\ RowStep(j) /\ jobs[j] \in Row /\ jobs \in [Jobs -> Row]
        /\ jobs[j].state = "absent" => jobs[j] = Blank
    BY RowSteps DEF Ind, TypeOK, RowsOK, RowOK
  <2>2. ~Born(j) BY <2>1 DEF Born, Blank
  <2>3. \A m \in Machines : ~Granted(j, m) BY DEF Granted, GivenTo, PassedTo
  <2>4. CASE jobs'[j] = jobs[j] BY <2>4
  <2>5. CASE StoppedWaiting(j) \/ InHouse(j) \/ Finishes(j)
    <3>1. jobs'[j].cancel BY <2>1, <2>5 DEF StoppedWaiting, InHouse, Finishes, Row
    <3>2. jobs'[j].state \in {"failed", "pinned", "done", "abandoned"}
      BY <2>1, <2>5 DEF StoppedWaiting, InHouse, Finishes, Row
    <3> QED BY <3>1, <3>2 DEF Held, HeldStates
  <2>6. CASE AskedToStop(j) \/ Beats(j) \/ Expires(j)
    <3>1. jobs'[j].cancel /\ jobs'[j].holder = jobs[j].holder
      BY <2>1, <2>6 DEF AskedToStop, Beats, Expires, Row
    <3>2. Held(jobs'[j]) => Held(jobs[j])
      BY <2>1, <2>6 DEF AskedToStop, Beats, Expires, Row, Held, HeldStates
    <3> QED BY <3>1, <3>2
  <2>7. CASE GivenUp(j)
    <3>1. PICK read \in Row, pin \in BOOLEAN, final \in BOOLEAN :
             jobs'[j] = LetGo(j, read, pin, final)
      BY <2>7 DEF GivenUp
    <3>2. jobs'[j].cancel BY <2>1, <3>1, LetGoCancel
    <3>3. jobs'[j].state \in {"failed", "pinned", "abandoned", "queued"}
      BY <2>1, <3>1, LetGoFacts
    <3> QED BY <3>2, <3>3 DEF Held, HeldStates
  <2>8. CASE Deleted(j)
    BY <2>8 DEF Deleted, Blank, Held, HeldStates
  <2> QED BY <2>1, <2>2, <2>3, <2>4, <2>5, <2>6, <2>7, <2>8 DEF RowStep, Quiet
<1> QED BY <1>1, Always, PTL DEF Spec, CancelledNeverStarts

\* A job whose lease is live is taken from its holder by nobody else: it ends only
\* by finish_job from the holder, or by the holder's own fail_job (the WHERE
\* clauses of expire_leases, finish_job and fail_job).
THEOREM LiveLeasesProtect == Spec => LiveLeaseProtects
<1>1. Ind /\ [Next]_vars =>
        [\A j \in Jobs, m \in Machines :
            (HeldBy(jobs[j], m) /\ jobs[j].lease = "live" /\ ~HeldBy(jobs'[j], m)) =>
               \/ jobs'[j].state = "done" /\ jobs'[j].holder = m
               \/ \E t \in Threads : /\ tx[t].op = "fail" /\ tx[t].who = m
                                     /\ j \in tx[t].ids /\ tx'[t] = Idle]_vars
  <2> SUFFICES ASSUME Ind, [Next]_vars, NEW j \in Jobs, NEW m \in Machines,
                      HeldBy(jobs[j], m), jobs[j].lease = "live", ~HeldBy(jobs'[j], m)
               PROVE  \/ jobs'[j].state = "done" /\ jobs'[j].holder = m
                      \/ \E t \in Threads : /\ tx[t].op = "fail" /\ tx[t].who = m
                                            /\ j \in tx[t].ids /\ tx'[t] = Idle
    OBVIOUS
  <2>1. /\ RowStep(j) /\ jobs[j] \in Row /\ Held(jobs[j]) /\ jobs[j].holder = m
        /\ ~Lapsed(jobs[j])
    BY RowSteps DEF Ind, TypeOK, HeldBy, Lapsed
  <2>2. ~Born(j) /\ ~StoppedWaiting(j) /\ ~Deleted(j) /\ ~InHouse(j)
    BY <2>1 DEF Born, StoppedWaiting, Deleted, InHouse, Held, HeldStates, Terminal,
                TerminalStates
  <2>3. \A q \in Machines : ~Granted(j, q)
    BY <2>1 DEF Granted, GivenTo, PassedTo, Held, HeldStates
  <2>4. ~AskedToStop(j) /\ ~Beats(j) /\ ~Expires(j) /\ jobs'[j] # jobs[j]
    BY <2>1 DEF AskedToStop, Beats, Expires, Row, HeldBy, Held, HeldStates
  <2>5. CASE Finishes(j) BY <2>1, <2>5 DEF Finishes, Row
  <2>6. CASE GivenUp(j) BY <2>1, <2>6 DEF GivenUp, OwnFailure
  <2> QED BY <2>1, <2>2, <2>3, <2>4, <2>5, <2>6 DEF RowStep, Quiet
<1> QED BY <1>1, Always, PTL DEF Spec, LiveLeaseProtects

\* The queue, with its two-step handlers and their races, implements the promise
\* of JobLifecycle: every behaviour of the table, read as the lives of its jobs,
\* is one the promise allows.
THEOREM KeepsItsPromise == Spec => ImplementsLifecycle
<1>1. Init => Life!Init
  <2> SUFFICES ASSUME Init PROVE Life!Init
    OBVIOUS
  <2>1. \A j \in Jobs : jobs[j].state = "absent" /\ ~Held(jobs[j]) /\ jobs[j] \in Row
    BY BlankType DEF Init, NoRows, Blank, Held, HeldStates
  <2>2. \A j \in Jobs : PhaseOf(jobs[j]) = "none" /\ GrantedOf(jobs[j]) = 0
    BY <2>1, Phases
  <2> QED BY <2>1, <2>2 DEF Life!Init
<1>2. Ind /\ [Next]_vars => [Life!Next]_(Life!life)
  BY LifeStep
<1> QED BY <1>1, <1>2, Always, PTL DEF Spec, ImplementsLifecycle, Life!Spec

=============================================================================
