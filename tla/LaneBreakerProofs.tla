-------------------------- MODULE LaneBreakerProofs --------------------------
(***************************************************************************)
(* Proofs about LaneBreaker.  What WithinBudget needs to be inductive is a  *)
(* running account: in memory, in the file and in a payload still to be     *)
(* written, the counter covers what was lost, up to what a pass in progress *)
(* has yet to report and what it may still discount.                        *)
(***************************************************************************)
EXTENDS LaneBreaker, TLAPS

\* What the next process would start from, if it is not the victim of a
\* refused write; and what a retry would make of the file.
Pending == IF unsaved = {} THEN {disk} ELSE unsaved

\* The latch in the file is the latch in memory.
SameLatch == \A m \in Pending : m.tripped = mem.tripped

\* So are the baselines, and they are those of the accepted listings.
Baselines ==
  ~amnesia => mem.counts = seen /\ \A m \in Pending : m.counts = seen

\* The pass's own numbers.
PassNumbers ==
  /\ pass.gone <= pass.done /\ pass.done <= PassCap
  /\ pass.pc = "run" => credited <= pass.done /\ pass.kept <= credited
  /\ pass.pc = "idle" => pass.done = 0

\* The counter in memory covers what was lost.
Covered ==
  ~amnesia =>
    /\ pass.pc = "idle" => lost <= uncounted + mem.deletes
    /\ pass.pc = "run"  => lost <= uncounted + mem.deletes + pass.gone - credited
    /\ pass.pc = "noted" =>
         /\ lost <= uncounted + AtLeastZero(mem.deletes - (pass.done - pass.gone))
         /\ lost <= uncounted + AtLeastZero(pass.cum - (pass.done - pass.gone))

\* The counter a restart would find covers it too.
CoveredOnDisk ==
  ~amnesia => \A m \in Pending :
    lost <= uncounted + m.deletes + (IF pass.pc = "run" THEN pass.done - pass.kept ELSE 0)

\* WithinBudget, the pass in progress counted by what it cost the server.
Bounded ==
  ~amnesia =>
    /\ pass.pc # "idle" \/ ~mem.tripped => lost <= MaxCum + unjudged + pass.gone
    /\ lost <= MaxCum + unjudged + PassCap

Ind == TypeOK /\ SameLatch /\ Baselines /\ PassNumbers
       /\ Covered /\ CoveredOnDisk /\ Bounded /\ NoBlindPass

-----------------------------------------------------------------------------
(* The helpers.                                                              *)

LEMMA Limits ==
  /\ MinRemote \in Nat /\ MaxPass \in Nat /\ MaxCum \in Nat /\ PassCap \in Nat
  /\ Clicks \in Nat /\ MaxTrips \in Nat /\ MaxRough \in Nat
  /\ MaxPass > 0 /\ Root \in Scopes /\ Listings \subseteq Nat
BY LimitsAssumption

LEMMA Fields ==
  ASSUME NEW m \in Latch
  PROVE  /\ m.tripped \in BOOLEAN /\ m.deletes \in Nat /\ m.last \in Nat
         /\ m.counts \in [Scopes -> Nat] /\ m.applied \in Nat
BY DEF Latch

\* A write leaves the next process with exactly what was written.
LEMMA SaveIsPending ==
  ASSUME NEW m, Save(m)
  PROVE  Pending' = {m}
BY DEF Save, Pending

LEMMA SaveKeepsType ==
  ASSUME NEW m \in Latch, Save(m), disk \in Latch
  PROVE  disk' \in Latch /\ unsaved' \subseteq Latch
BY DEF Save

\* Change writes, or had nothing to write.
LEMMA ChangeIsPending ==
  ASSUME NEW m, Change(m)
  PROVE  mem' = m /\ (Pending' = {m} \/ (m = mem /\ Pending' = Pending))
<1>1. CASE m = mem
  BY <1>1 DEF Change, Pending
<1>2. CASE m # mem
  BY <1>2, SaveIsPending DEF Change
<1> QED BY <1>1, <1>2

LEMMA ChangeKeepsType ==
  ASSUME NEW m \in Latch, Change(m), disk \in Latch, unsaved \subseteq Latch
  PROVE  mem' \in Latch /\ disk' \in Latch /\ unsaved' \subseteq Latch
BY SaveKeepsType DEF Change

LEMMA PendingType == TypeOK => Pending \subseteq Latch
BY DEF TypeOK, Pending

LEMMA TripShape ==
  ASSUME NEW m \in Latch, Trip(m), trips \in 0..MaxTrips
  PROVE  \E l \in Latch : /\ Change(l) /\ l.tripped
                         /\ l.deletes = m.deletes /\ l.counts = m.counts
                         /\ trips' \in 0..MaxTrips
<1>0. MaxTrips \in Nat
  BY Limits
<1>1. CASE m.tripped
  <2>1. Change(m) /\ trips' \in 0..MaxTrips
    BY <1>1 DEF Trip
  <2> WITNESS m \in Latch
  <2> QED BY <1>1, <2>1
<1>2. CASE ~m.tripped
  <2>1. [m EXCEPT !.tripped = TRUE] \in Latch
    BY DEF Latch
  <2>2. /\ [m EXCEPT !.tripped = TRUE].tripped
        /\ [m EXCEPT !.tripped = TRUE].deletes = m.deletes
        /\ [m EXCEPT !.tripped = TRUE].counts = m.counts
    BY DEF Latch
  <2>3. Change([m EXCEPT !.tripped = TRUE]) /\ trips' \in 0..MaxTrips
    BY <1>0, <1>2 DEF Trip
  <2> WITNESS [m EXCEPT !.tripped = TRUE] \in Latch
  <2> QED BY <2>2, <2>3
<1> QED BY <1>1, <1>2

LEMMA ClearedShape ==
  ASSUME NEW m \in Latch
  PROVE  /\ Cleared(m) \in Latch /\ Cleared(m).tripped = FALSE
         /\ Cleared(m).deletes = 0 /\ Cleared(m).counts = [s \in Scopes |-> 0]
<1>1. [s \in Scopes |-> 0] \in [Scopes -> Nat]
  OBVIOUS
<1> QED BY <1>1 DEF Cleared, Latch

LEMMA DiscountedShape ==
  ASSUME NEW m \in Latch, NEW r \in Nat
  PROVE  /\ Discounted(m, r) \in Latch
         /\ Discounted(m, r).tripped = m.tripped /\ Discounted(m, r).counts = m.counts
         /\ Discounted(m, r).deletes = AtLeastZero(m.deletes - r)
         /\ Discounted(m, r).last = AtLeastZero(m.last - r)
<1>1. AtLeastZero(m.deletes - r) \in Nat /\ AtLeastZero(m.last - r) \in Nat
  BY Fields DEF AtLeastZero
<1> QED BY <1>1 DEF Discounted, Latch

\* What the second half of note_pass comes to: relocations taken off, at most
\* what the pass may discount, and a verdict on what is left.
LEMMA JudgeShape ==
  ASSUME TypeOK, Judge
  PROVE  \E k \in Nat, e \in Nat, l \in Latch, c \in Nat :
           /\ k + e <= pass.done - pass.gone
           /\ l.deletes = AtLeastZero(AtLeastZero(mem.deletes - k) - e)
           /\ l.counts = mem.counts
           /\ mem.tripped => l.tripped
           /\ c = l.deletes \/ (c = pass.cum /\ k = 0 /\ e = 0)
           /\ l.tripped \/ c <= MaxCum
           /\ Change(l) /\ trips' \in 0..MaxTrips
<1> USE Limits
<1>1. PICK known \in 0..(pass.done - pass.gone), limit \in 1..MaxPass :
        \E found \in Found(known) : Verdict(known, found, limit)
  BY DEF Judge
<1>2. PICK found \in Found(known) : Verdict(known, found, limit)
  BY <1>1
<1> DEFINE m1    == IF known > 0 THEN Discounted(mem, known) ELSE mem
           here1 == IF known > 0 THEN m1.last ELSE pass.done
           cum1  == IF known > 0 THEN m1.deletes ELSE pass.cum
           near  == here1 > limit \/ cum1 > MaxCum \/ pass.done >= Eager
           extra == IF near THEN Least(found, here1) ELSE 0
           m2    == IF extra > 0 THEN Discounted(m1, extra) ELSE m1
           here2 == IF extra > 0 THEN m2.last ELSE here1
           cum2  == IF extra > 0 THEN m2.deletes ELSE cum1
<1>3. /\ here2 > limit \/ cum2 > MaxCum => Trip(m2)
      /\ ~(here2 > limit \/ cum2 > MaxCum) => trips' = trips /\ Change(m2)
  BY <1>2 DEF Verdict
<1>4. /\ mem \in Latch /\ pass.done \in Nat /\ pass.gone \in Nat /\ pass.cum \in Nat
      /\ mem.deletes \in Nat /\ known \in Nat /\ found \in Nat
      /\ known + found <= pass.done - pass.gone
  <2>1. mem \in Latch /\ pass.done \in Nat /\ pass.gone \in Nat /\ pass.cum \in Nat
    BY DEF TypeOK, Pass
  <2>2. found \in 0..(pass.done - pass.gone - known)
    BY DEF Found
  <2> QED BY <2>1, <2>2, Fields
<1>5. /\ m1 \in Latch /\ m1.tripped = mem.tripped /\ m1.counts = mem.counts
      /\ m1.deletes = AtLeastZero(mem.deletes - known)
  <2>1. CASE known > 0
    BY <1>4, <2>1, DiscountedShape
  <2>2. CASE ~(known > 0)
    BY <1>4, <2>2 DEF AtLeastZero
  <2> QED BY <2>1, <2>2
<1>6. here1 \in Nat /\ cum1 \in Nat
  BY <1>4, <1>5, Fields
<1>7. extra \in Nat /\ extra <= found
  BY <1>4, <1>6 DEF Least
<1> HIDE DEF m1, here1, cum1, extra
<1>8. /\ m2 \in Latch /\ m2.tripped = mem.tripped /\ m2.counts = mem.counts
      /\ m2.deletes = AtLeastZero(m1.deletes - extra)
  <2>0. m1.deletes \in Nat
    BY <1>5, Fields
  <2>1. CASE extra > 0
    BY <1>5, <1>7, <2>1, DiscountedShape
  <2>2. CASE ~(extra > 0)
    BY <1>5, <1>7, <2>0, <2>2 DEF AtLeastZero
  <2> QED BY <2>1, <2>2
<1>9. /\ cum2 \in Nat
      /\ cum2 = m2.deletes \/ (cum2 = pass.cum /\ known = 0 /\ extra = 0)
  <2>0. m2.deletes \in Nat
    BY <1>8, Fields
  <2>1. CASE extra > 0
    BY <2>0, <2>1
  <2>2. CASE ~(extra > 0)
    <3>1. m2 = m1 /\ cum2 = cum1 /\ extra = 0
      BY <1>7, <2>2
    <3>2. cum1 = m1.deletes \/ (cum1 = pass.cum /\ known = 0)
      BY <1>4 DEF cum1
    <3> QED BY <1>6, <3>1, <3>2
  <2> QED BY <2>1, <2>2
<1> HIDE DEF m2, here2, cum2
<1>10. CASE here2 > limit \/ cum2 > MaxCum
  <2>1. Trip(m2) /\ trips \in 0..MaxTrips
    BY <1>3, <1>10 DEF TypeOK
  <2>2. PICK l \in Latch : /\ Change(l) /\ l.tripped
                           /\ l.deletes = m2.deletes /\ l.counts = m2.counts
                           /\ trips' \in 0..MaxTrips
    BY <1>8, <2>1, TripShape
  <2>3. known + extra <= pass.done - pass.gone
    BY <1>4, <1>7
  <2> QED BY <1>4, <1>5, <1>7, <1>8, <1>9, <2>2, <2>3
<1>11. CASE ~(here2 > limit \/ cum2 > MaxCum)
  <2>1. trips' = trips /\ Change(m2) /\ trips \in 0..MaxTrips
    BY <1>3, <1>11 DEF TypeOK
  <2>2. cum2 <= MaxCum
    BY <1>9, <1>11
  <2>3. known + extra <= pass.done - pass.gone
    BY <1>4, <1>7
  <2> QED BY <1>4, <1>5, <1>7, <1>8, <1>9, <2>1, <2>2, <2>3
<1> QED BY <1>10, <1>11

-----------------------------------------------------------------------------
(* What a step has to establish, by what it does to the account.             *)

\* A step that leaves the account, the pass and the bookkeeping alone.
LEMMA Elsewhere ==
  ASSUME Ind, TypeOK', Pending' \subseteq Pending,
         UNCHANGED <<mem, credited, pass, lost, uncounted, unjudged, amnesia, seen>>
  PROVE  Ind'
BY DEF Ind, SameLatch, Baselines, PassNumbers, Covered, CoveredOnDisk, Bounded,
       NoBlindPass, AtLeastZero

\* The counter in memory is worth writing.
LEMMA CountsWhatIsLeft ==
  ASSUME Ind
  PROVE  ~amnesia => lost <= uncounted + mem.deletes
                         + (IF pass.pc = "run" THEN pass.done - pass.kept ELSE 0)
<1>1. /\ pass.done \in Nat /\ pass.gone \in Nat /\ mem.deletes \in Nat /\ credited \in Nat
      /\ pass.kept \in Nat
      /\ lost \in Nat /\ uncounted \in Nat /\ unjudged \in Nat /\ pass.pc \in {"idle", "run", "noted"}
  BY DEF Ind, TypeOK, Pass, Latch
<1>2. AtLeastZero(mem.deletes - (pass.done - pass.gone)) <= mem.deletes
  BY <1>1 DEF Ind, PassNumbers, AtLeastZero
<1>3. AtLeastZero(mem.deletes - (pass.done - pass.gone)) \in Int
  BY <1>1 DEF AtLeastZero
<1> QED BY <1>1, <1>2, <1>3 DEF Ind, Covered, PassNumbers

\* A step that changes the latch's other fields, or trips, and writes it.
LEMMA Rewritten ==
  ASSUME Ind, TypeOK', Pending' = {mem'}, mem'.deletes = mem.deletes,
         mem'.counts = mem.counts, mem.tripped => mem'.tripped,
         UNCHANGED <<credited, pass, lost, uncounted, unjudged, amnesia, seen>>
  PROVE  Ind'
<1> USE Limits
<1>1. SameLatch' /\ Baselines' /\ PassNumbers' /\ Covered' /\ NoBlindPass'
  BY DEF Ind, SameLatch, Baselines, PassNumbers, Covered, NoBlindPass, AtLeastZero
<1>2. Bounded'
  BY DEF Ind, Bounded, PassNumbers, TypeOK, Pass
<1>3. CoveredOnDisk'
  BY CountsWhatIsLeft DEF CoveredOnDisk
<1> QED BY <1>1, <1>2, <1>3 DEF Ind

\* A go-ahead.
LEMMA Resumed ==
  ASSUME Ind, TypeOK', Pending' = {mem'}, mem' = Cleared(mem), credited' = 0, GoAhead
  PROVE  Ind'
<1> USE Limits
<1>0. mem'.tripped = FALSE /\ mem'.deletes = 0 /\ mem'.counts = [s \in Scopes |-> 0]
  BY ClearedShape DEF Ind, TypeOK
<1>1. SameLatch' /\ Baselines' /\ NoBlindPass'
  BY <1>0 DEF Ind, SameLatch, Baselines, NoBlindPass, GoAhead, TypeOK, Pass
<1>2. PassNumbers'
  BY DEF Ind, PassNumbers, TypeOK, Pass, GoAhead
<1>3. /\ pass'.done \in Nat /\ pass'.gone \in Nat /\ pass'.cum \in Nat /\ pass'.kept = 0
      /\ lost' = 0 /\ uncounted' = 0 /\ unjudged' = 0 /\ credited' = 0
  BY DEF Ind, TypeOK, Pass, GoAhead
<1>4. Covered'
  BY <1>0, <1>3 DEF Covered, AtLeastZero
<1>5. CoveredOnDisk'
  BY <1>0, <1>3 DEF CoveredOnDisk
<1>6. Bounded'
  BY <1>0, <1>3 DEF Bounded
<1> QED BY <1>1, <1>2, <1>4, <1>5, <1>6 DEF Ind

-----------------------------------------------------------------------------
(* Types.                                                                    *)

LEMMA TypeStep == TypeOK /\ [Next]_vars => TypeOK'
<1> SUFFICES ASSUME TypeOK, [Next]_vars PROVE TypeOK'
  OBVIOUS
<1> USE Limits
<1>0. CASE UNCHANGED vars
  BY <1>0 DEF TypeOK, vars, breakerVars, dashVars, ghosts
<1>z. 0 \in 0..Clicks /\ 0 \in Nat
  OBVIOUS
<1>t. Idle \in Pass /\ pass.done \in Nat /\ pass.gone \in Nat /\ pass.kept \in Nat
  BY DEF Idle, Pass, TypeOK
<1>1. ASSUME NEW s \in Scopes, NEW n \in Listings, RefusePass(s, n) PROVE TypeOK'
  <2>1. mem' \in Latch /\ disk' \in Latch /\ unsaved' \subseteq Latch /\ trips' \in 0..MaxTrips
    BY <1>1, TripShape, ChangeKeepsType DEF TypeOK, RefusePass
  <2> QED BY <1>1, <2>1 DEF TypeOK, RefusePass, dashVars
<1>2. ASSUME NEW s \in Scopes, NEW n \in Listings, StartPass(s, n) PROVE TypeOK'
  <2>0. n \in Nat
    OBVIOUS
  <2>1. [mem EXCEPT !.counts[s] = n] \in Latch
    BY <2>0 DEF TypeOK, Latch
  <2>2. mem' \in Latch /\ disk' \in Latch /\ unsaved' \subseteq Latch
    BY <1>2, <2>1, SaveKeepsType DEF TypeOK, StartPass
  <2>3. pass' \in Pass
    BY <1>2 DEF StartPass, Idle, Pass, TypeOK, LooksWrong
  <2>4. seen' \in [Scopes -> Nat] /\ credited' \in Nat
    BY <1>2, <2>0 DEF StartPass, TypeOK
  <2> QED BY <1>2, <2>2, <2>3, <2>4 DEF TypeOK, StartPass, dashVars
<1>3. CASE StartUnlisted
  <2>1. pass' \in Pass
    BY <1>3 DEF StartUnlisted, Idle, Pass
  <2> QED BY <1>3, <2>1 DEF TypeOK, StartUnlisted, dashVars, ghosts
<1>4. ASSUME NEW n \in Listings, NEW foreign \in BOOLEAN, ProbeRoot(n, foreign) PROVE TypeOK'
  <2>0. n \in Nat
    OBVIOUS
  <2>1. [mem EXCEPT !.counts[Root] = n] \in Latch
    BY <2>0 DEF TypeOK, Latch
  <2>2. /\ mem' \in Latch /\ disk' \in Latch /\ unsaved' \subseteq Latch
        /\ trips' \in 0..MaxTrips /\ rootOk' \in BOOLEAN /\ seen' \in [Scopes -> Nat]
    BY <1>4, <2>0, <2>1, SaveKeepsType, TripShape, ChangeKeepsType DEF TypeOK, ProbeRoot
  <2> QED BY <1>4, <2>2 DEF TypeOK, ProbeRoot, dashVars
<1>5. ASSUME NEW real \in BOOLEAN, Trash(real) PROVE TypeOK'
  <2>0. (IF real THEN 1 ELSE 0) \in Nat
    OBVIOUS
  <2>1. pass \in Pass /\ pass.done + 1 \in Nat /\ pass.gone + (IF real THEN 1 ELSE 0) \in Nat
    BY <1>t, <2>0 DEF TypeOK
  <2>2. [pass EXCEPT !.done = @ + 1, !.gone = @ + (IF real THEN 1 ELSE 0)] \in Pass
    BY <2>1 DEF Pass
  <2>3. pass' \in Pass /\ lost' \in Nat
    BY <1>5, <2>0, <2>2 DEF Trash, TypeOK
  <2> QED BY <1>5, <2>3 DEF TypeOK, Trash, dashVars, breakerVars
<1>6. CASE CreditInFlight
  <2>1. Uncounted(pass.done) \in Nat
    BY <1>t DEF Uncounted, TypeOK
  <2>2. mem' \in Latch
    <3>1. mem \in Latch /\ mem.deletes + Uncounted(pass.done) \in Nat
      BY <2>1, Fields DEF TypeOK
    <3>2. [mem EXCEPT !.deletes = @ + Uncounted(pass.done)] \in Latch
      BY <3>1 DEF Latch
    <3> QED BY <1>6, <3>2 DEF CreditInFlight
  <2>3. disk' \in Latch /\ unsaved' \subseteq Latch
    BY <1>6, <2>2, SaveKeepsType DEF CreditInFlight, TypeOK
  <2>4. pass' \in Pass
    BY <1>6, <1>t DEF CreditInFlight, TypeOK, Pass
  <2> QED BY <1>6, <1>t, <2>2, <2>3, <2>4 DEF TypeOK, CreditInFlight, dashVars, ghosts
<1>7. CASE NotePass
  <2>1. AtLeastZero(pass.done - credited) \in Nat
    BY <1>t DEF AtLeastZero, TypeOK
  <2>2. mem' \in Latch
    <3>1. mem \in Latch /\ mem.deletes + AtLeastZero(pass.done - credited) \in Nat
      BY <2>1, Fields DEF TypeOK
    <3>2. [mem EXCEPT !.last = pass.done,
                      !.deletes = @ + AtLeastZero(pass.done - credited)] \in Latch
      BY <1>t, <3>1 DEF Latch
    <3> QED BY <1>7, <3>2 DEF NotePass
  <2>3. disk' \in Latch /\ unsaved' \subseteq Latch
    BY <1>7, <2>2, SaveKeepsType DEF NotePass, TypeOK
  <2>4. pass' \in Pass
    BY <1>7, <1>t, <2>2 DEF NotePass, TypeOK, Pass, Latch
  <2> QED BY <1>7, <2>2, <2>3, <2>4 DEF TypeOK, NotePass, dashVars, ghosts
<1>u. ASSUME Unfinished PROVE uncounted' \in Nat /\ unjudged' \in Nat
  BY <1>u, <1>t DEF Unfinished, AtLeastZero, TypeOK
<1>8. CASE RunRaises
  <2>1. uncounted' \in Nat /\ unjudged' \in Nat
    BY <1>8, <1>u DEF RunRaises
  <2> QED BY <1>8, <1>t, <2>1 DEF TypeOK, RunRaises, dashVars, breakerVars
<1>9. CASE Judge
  <2>1. mem' \in Latch /\ disk' \in Latch /\ unsaved' \subseteq Latch /\ trips' \in 0..MaxTrips
    BY <1>9, JudgeShape, ChangeKeepsType DEF TypeOK
  <2> QED BY <1>9, <1>t, <2>1 DEF TypeOK, Judge, dashVars
<1>10. CASE TrayResume
  <2>1. mem' \in Latch /\ disk' \in Latch /\ unsaved' \subseteq Latch
    BY <1>10, ClearedShape, SaveKeepsType DEF TrayResume, TypeOK
  <2>2. pass' \in Pass
    BY <1>10 DEF TrayResume, GoAhead, TypeOK, Pass
  <2> QED BY <1>10, <2>1, <2>2 DEF TypeOK, TrayResume, GoAhead, dashVars
<1>11. ASSUME NEW c \in 1..Clicks, TakeReply(c) PROVE TypeOK'
  BY <1>11 DEF TypeOK, TakeReply, ghosts
<1>12. CASE ResumeRecord
  <2>1. [mem EXCEPT !.applied = called] \in Latch
    <3>1. mem \in Latch /\ called \in Nat
      BY DEF TypeOK
    <3> QED BY <3>1 DEF Latch
  <2>2. mem' \in Latch /\ disk' \in Latch /\ unsaved' \subseteq Latch /\ resuming' \in 0..Clicks
    BY <1>12, <2>1, SaveKeepsType DEF ResumeRecord, TypeOK
  <2> QED BY <1>12, <2>2 DEF TypeOK, ResumeRecord, dashVars, ghosts
<1>13. CASE ResumeClear
  <2>1. mem' \in Latch /\ disk' \in Latch /\ unsaved' \subseteq Latch
    BY <1>13, ClearedShape, SaveKeepsType DEF ResumeClear, TypeOK
  <2>2. CASE mem.tripped
    <3>1. resuming \in 1..Clicks /\ trips \in 0..MaxTrips
      BY <1>13 DEF TypeOK, ResumeClear
    <3>2. used' \in [1..Clicks -> SUBSET (0..MaxTrips)]
      BY <1>13, <2>2, <3>1 DEF TypeOK, ResumeClear
    <3>3. /\ resuming' \in 0..Clicks /\ credited' \in Nat /\ lost' \in Nat /\ unjudged' \in Nat
          /\ uncounted' \in Nat /\ pass' \in Pass /\ amnesia' \in BOOLEAN /\ seen' \in [Scopes -> Nat]
      BY <1>13, <1>z, <2>2 DEF ResumeClear, GoAhead, TypeOK, Pass
    <3> QED BY <1>13, <2>1, <3>2, <3>3 DEF TypeOK, ResumeClear, dashVars
  <2>3. CASE ~mem.tripped
    BY <1>13, <2>1, <2>3 DEF TypeOK, ResumeClear, dashVars
  <2> QED BY <2>2, <2>3
<1>14. CASE Withdraw
  BY <1>14 DEF TypeOK, Withdraw, breakerVars, ghosts
<1>15. ASSUME NEW c \in 1..Clicks, Click(c) PROVE TypeOK'
  BY <1>15 DEF TypeOK, Click, breakerVars, ghosts
<1>16. ASSUME NEW c \in 1..Clicks, LoseReply(c) PROVE TypeOK'
  BY <1>16 DEF TypeOK, LoseReply, breakerVars, ghosts
<1>17. CASE SendReport
  BY <1>17 DEF TypeOK, SendReport, breakerVars, ghosts, Latch
<1>18. ASSUME NEW h \in Handlers, NEW t \in BOOLEAN, HandleReport(h, t) PROVE TypeOK'
  BY <1>18 DEF TypeOK, HandleReport, breakerVars, ghosts
<1>19. ASSUME NEW h \in Handlers, AnswerReport(h) PROVE TypeOK'
  <2>1. answering[h] \ {0} \subseteq 1..Clicks
    BY DEF TypeOK
  <2>2. /\ answering' \in [Handlers -> SUBSET (0..Clicks)] /\ request' \in 0..Clicks
        /\ replies' \subseteq 1..Clicks
    BY <1>19, <1>z, <2>1 DEF TypeOK, AnswerReport
  <2> QED BY <1>19, <2>2 DEF TypeOK, AnswerReport, breakerVars, ghosts
<1>20. ASSUME NEW t \in BOOLEAN, LoseReport(t) PROVE TypeOK'
  BY <1>20 DEF TypeOK, LoseReport, breakerVars, ghosts
<1>21. CASE RetrySave
  BY <1>21 DEF TypeOK, RetrySave, dashVars, ghosts
<1>22. CASE DiskFills \/ DiskClears
  BY <1>22 DEF TypeOK, DiskFills, DiskClears, breakerVars, dashVars, ghosts
<1>23. CASE Restart
  <2>1. answering' \in [Handlers -> SUBSET (0..Clicks)]
    BY <1>23 DEF Restart
  <2>2. /\ rough' \in 0..MaxRough /\ uncounted' \in Nat /\ unjudged' \in Nat
        /\ amnesia' \in BOOLEAN
    BY <1>23, <1>u DEF Restart, TypeOK
  <2>3. /\ mem' \in Latch /\ disk' \in Latch /\ unsaved' \subseteq Latch /\ pass' \in Pass
        /\ credited' \in Nat /\ rootOk' \in BOOLEAN /\ called' \in 0..Clicks
        /\ resuming' \in 0..Clicks /\ replies' \subseteq 1..Clicks
    BY <1>23, <1>t, <1>z DEF Restart, ReadBack, TypeOK
  <2> QED BY <1>23, <2>1, <2>2, <2>3 DEF TypeOK, Restart
<1> QED
  BY <1>0, <1>1, <1>2, <1>3, <1>4, <1>5, <1>6, <1>7, <1>8, <1>9, <1>10, <1>11, <1>12, <1>13,
     <1>14, <1>15, <1>16, <1>17, <1>18, <1>19, <1>20, <1>21, <1>22, <1>23
  DEF Next, Lane, People, Wires, Machine

-----------------------------------------------------------------------------
(* The steps that touch the account.                                         *)

LEMMA InitInd == Init => Ind
<1> SUFFICES ASSUME Init PROVE Ind
  OBVIOUS
<1> USE Limits
<1>1. [s \in Scopes |-> 0] \in [Scopes -> Nat]
  OBVIOUS
<1>2. Fresh \in Latch /\ Fresh.tripped = FALSE /\ Fresh.deletes = 0
      /\ Fresh.counts = [s \in Scopes |-> 0]
  BY <1>1 DEF Fresh, Latch
<1>3. /\ Idle \in Pass /\ Idle.pc = "idle" /\ Idle.done = 0 /\ Idle.gone = 0 /\ Idle.bad = FALSE
  BY DEF Idle, Pass
<1>z. 0 \in 0..Clicks /\ 0 \in 0..MaxTrips /\ 0 \in 0..MaxRough /\ 0 \in Nat
  OBVIOUS
<1>4. TypeOK
  BY <1>1, <1>2, <1>3, <1>z DEF Init, TypeOK
<1>5. Pending = {Fresh}
  BY DEF Init, Pending
<1> QED
  BY <1>2, <1>3, <1>4, <1>5
  DEF Init, Ind, SameLatch, Baselines, PassNumbers, Covered, CoveredOnDisk, Bounded, NoBlindPass

\* The numbers a step of the account works with.
LEMMA Numbers ==
  ASSUME Ind
  PROVE  /\ mem \in Latch /\ mem.deletes \in Nat /\ credited \in Nat
         /\ pass.done \in Nat /\ pass.gone \in Nat /\ pass.cum \in Nat
         /\ pass.pc \in {"idle", "run", "noted"}
         /\ lost \in Nat /\ uncounted \in Nat /\ unjudged \in Nat /\ pass.kept \in Nat
         /\ Pending \subseteq Latch
BY PendingType, Fields DEF Ind, TypeOK, Pass

\* A trip with nothing else.
LEMMA TripStep ==
  ASSUME Ind, TypeOK', Trip(mem),
         UNCHANGED <<credited, pass, lost, uncounted, unjudged, amnesia, seen>>
  PROVE  Ind'
<1>1. PICK l \in Latch : /\ Change(l) /\ l.tripped
                         /\ l.deletes = mem.deletes /\ l.counts = mem.counts
  BY TripShape DEF Ind, TypeOK
<1>2. mem' = l /\ (Pending' = {l} \/ (l = mem /\ Pending' = Pending))
  BY <1>1, ChangeIsPending
<1>3. CASE Pending' = {l}
  BY <1>1, <1>2, <1>3, Rewritten
<1>4. CASE l = mem /\ Pending' = Pending
  BY <1>2, <1>4, Elsewhere
<1> QED BY <1>2, <1>3, <1>4

\* A listing is accepted as the baseline of s.
LEMMA BaselineStep ==
  ASSUME Ind, TypeOK', NEW s \in Scopes, NEW n \in Nat,
         mem' = [mem EXCEPT !.counts[s] = n], Save(mem'), seen' = [seen EXCEPT ![s] = n],
         UNCHANGED <<lost, uncounted, unjudged, amnesia>>
  PROVE  /\ SameLatch' /\ Baselines' /\ Pending' = {mem'}
         /\ mem'.deletes = mem.deletes /\ mem'.tripped = mem.tripped
<1>1. mem \in Latch
  BY Numbers
<1>2. /\ mem'.deletes = mem.deletes /\ mem'.tripped = mem.tripped
      /\ mem'.counts = [mem.counts EXCEPT ![s] = n]
  BY <1>1 DEF Latch
<1>3. Pending' = {mem'}
  BY SaveIsPending
<1> QED BY <1>2, <1>3 DEF Ind, SameLatch, Baselines

LEMMA StartStep ==
  ASSUME Ind, TypeOK', NEW s \in Scopes, NEW n \in Listings, StartPass(s, n)
  PROVE  Ind'
<1> USE Limits
<1>1. /\ pass.pc = "idle" /\ pass.done = 0 /\ ~mem.tripped
      /\ pass'.pc = "run" /\ pass'.done = 0 /\ pass'.gone = 0 /\ pass'.kept = 0 /\ credited' = 0
      /\ pass'.bad = (~amnesia /\ LooksWrong(n, seen[s]))
      /\ UNCHANGED <<lost, uncounted, unjudged, amnesia>>
  BY DEF StartPass, Ind, PassNumbers, Idle
<1>2. pass'.bad = FALSE
  BY <1>1 DEF StartPass, Ind, Baselines
<1>3. /\ SameLatch' /\ Baselines' /\ mem'.deletes = mem.deletes /\ mem'.tripped = mem.tripped
      /\ \A m \in Pending' : m.deletes = mem.deletes \/ m \in Pending
  <2>1. CASE n = 0
    <3>1. UNCHANGED <<mem, disk, unsaved, seen>>
      BY <2>1 DEF StartPass
    <3>2. Pending' = Pending
      BY <3>1 DEF Pending
    <3> QED BY <1>1, <3>1, <3>2 DEF Ind, SameLatch, Baselines
  <2>2. CASE n # 0
    <3>1. mem' = [mem EXCEPT !.counts[s] = n] /\ Save(mem') /\ seen' = [seen EXCEPT ![s] = n]
      BY <2>2 DEF StartPass
    <3> QED BY <1>1, <3>1, BaselineStep
  <2> QED BY <2>1, <2>2
<1>4. PassNumbers' /\ NoBlindPass'
  BY <1>1, <1>2 DEF PassNumbers, NoBlindPass
<1>5. ~amnesia => lost <= uncounted + mem.deletes
  BY <1>1 DEF Ind, Covered
<1>6. Covered'
  BY <1>1, <1>3, <1>5, Numbers DEF Covered
<1>7. CoveredOnDisk'
  BY <1>1, <1>3, <1>5, Numbers DEF CoveredOnDisk, Ind
<1>8. Bounded'
  BY <1>1, <1>3, Numbers DEF Bounded, Ind, PassNumbers
<1> QED BY <1>3, <1>4, <1>6, <1>7, <1>8 DEF Ind

LEMMA UnlistedStep ==
  ASSUME Ind, TypeOK', StartUnlisted
  PROVE  Ind'
<1> USE Limits
<1>1. /\ pass.pc = "idle" /\ pass.done = 0 /\ ~mem.tripped
      /\ pass'.pc = "run" /\ pass'.done = 0 /\ pass'.gone = 0 /\ pass'.kept = 0 /\ credited' = 0
      /\ pass'.bad = FALSE
      /\ UNCHANGED <<mem, disk, unsaved, lost, uncounted, unjudged, amnesia, seen>>
  BY DEF StartUnlisted, Ind, PassNumbers, Idle, ghosts
<1>2. Pending' = Pending
  BY <1>1 DEF Pending
<1>3. SameLatch' /\ Baselines' /\ PassNumbers' /\ NoBlindPass'
  BY <1>1, <1>2 DEF Ind, SameLatch, Baselines, PassNumbers, NoBlindPass
<1>4. Covered'
  BY <1>1, Numbers DEF Covered, Ind
<1>5. CoveredOnDisk'
  BY <1>1, <1>2, Numbers DEF CoveredOnDisk, Ind
<1>6. Bounded'
  BY <1>1, Numbers DEF Bounded, Ind, PassNumbers
<1> QED BY <1>3, <1>4, <1>5, <1>6 DEF Ind

LEMMA ProbeStep ==
  ASSUME Ind, TypeOK', NEW n \in Listings, NEW foreign \in BOOLEAN, ProbeRoot(n, foreign)
  PROVE  Ind'
<1>1. UNCHANGED <<credited, pass, lost, uncounted, unjudged, amnesia>>
  BY DEF ProbeRoot
<1>2. CASE foreign \/ LooksWrong(n, mem.counts[Root])
  BY <1>1, <1>2, TripStep DEF ProbeRoot
<1>3. CASE ~(foreign \/ LooksWrong(n, mem.counts[Root])) /\ n = 0
  <2>1. UNCHANGED <<mem, disk, unsaved, seen>>
    BY <1>3 DEF ProbeRoot
  <2>2. Pending' = Pending
    BY <2>1 DEF Pending
  <2> QED BY <1>1, <2>1, <2>2, Elsewhere
<1>4. CASE ~(foreign \/ LooksWrong(n, mem.counts[Root])) /\ n # 0
  <2>1. /\ mem' = [mem EXCEPT !.counts[Root] = n] /\ Save(mem')
        /\ seen' = [seen EXCEPT ![Root] = n]
    BY <1>4 DEF ProbeRoot
  <2>2. n \in Nat /\ Root \in Scopes
    BY Limits
  <2>3. /\ SameLatch' /\ Baselines' /\ Pending' = {mem'}
        /\ mem'.deletes = mem.deletes /\ mem'.tripped = mem.tripped
    BY <1>1, <2>1, <2>2, BaselineStep
  <2>4. PassNumbers' /\ NoBlindPass' /\ Covered' /\ Bounded'
    BY <1>1, <2>3 DEF Ind, PassNumbers, NoBlindPass, Covered, Bounded, AtLeastZero
  <2>5. ~amnesia => lost <= uncounted + mem.deletes
                         + (IF pass.pc = "run" THEN pass.done - pass.kept ELSE 0)
    BY CountsWhatIsLeft
  <2>6. CoveredOnDisk'
    BY <1>1, <2>3, <2>5 DEF CoveredOnDisk
  <2> QED BY <2>3, <2>4, <2>6 DEF Ind
<1> QED BY <1>2, <1>3, <1>4

LEMMA TrashStep ==
  ASSUME Ind, TypeOK', NEW real \in BOOLEAN, Trash(real)
  PROVE  Ind'
<1> USE Limits
<1> DEFINE g == IF real THEN 1 ELSE 0
<1>1. /\ pass.pc = "run" /\ pass.done < PassCap
      /\ pass'.pc = "run" /\ pass'.done = pass.done + 1 /\ pass'.gone = pass.gone + g
      /\ pass'.bad = pass.bad /\ pass'.kept = pass.kept /\ lost' = lost + g /\ g \in 0..1
      /\ UNCHANGED <<mem, disk, unsaved, credited, uncounted, unjudged, amnesia, seen>>
  BY DEF Trash, breakerVars, Ind, TypeOK, Pass
<1> HIDE DEF g
<1>2. Pending' = Pending
  BY <1>1 DEF Pending
<1>3. SameLatch' /\ Baselines' /\ NoBlindPass'
  BY <1>1, <1>2 DEF Ind, SameLatch, Baselines, NoBlindPass
<1>4. PassNumbers'
  BY <1>1, Numbers DEF Ind, PassNumbers
<1>5. Covered'
  BY <1>1, Numbers DEF Ind, Covered
<1>6. CoveredOnDisk'
  BY <1>1, <1>2, Numbers, Fields DEF Ind, CoveredOnDisk
<1>7. Bounded'
  BY <1>1, <1>4, Numbers DEF Ind, Bounded, PassNumbers
<1> QED BY <1>3, <1>4, <1>5, <1>6, <1>7 DEF Ind

LEMMA CreditStep ==
  ASSUME Ind, TypeOK', CreditInFlight
  PROVE  Ind'
<1> USE Limits
<1>1. /\ pass.pc = "run" /\ credited' = pass.done
      /\ UNCHANGED <<lost, uncounted, unjudged, amnesia, seen>>
      /\ pass'.pc = "run" /\ pass'.done = pass.done /\ pass'.gone = pass.gone
      /\ pass'.bad = pass.bad
  BY DEF CreditInFlight, ghosts, Ind, TypeOK, Pass
<1>2. credited <= pass.done
  BY <1>1 DEF Ind, PassNumbers
<1>3. Uncounted(pass.done) = pass.done - credited
  BY <1>2, Numbers DEF Uncounted
<1>4. /\ mem'.deletes = mem.deletes + (pass.done - credited)
      /\ mem'.tripped = mem.tripped /\ mem'.counts = mem.counts
  BY <1>3, Numbers DEF CreditInFlight, Latch
<1>5. \/ Pending' = {mem'} /\ pass'.kept = pass.done
      \/ Pending' = Pending /\ pass'.kept = pass.kept
  <2>1. CASE Save(mem') /\ pass' = [pass EXCEPT !.kept = pass.done]
    BY <2>1, SaveIsPending DEF Ind, TypeOK, Pass
  <2>2. CASE UNCHANGED <<disk, unsaved, pass>>
    BY <2>2 DEF Pending
  <2> QED BY <2>1, <2>2 DEF CreditInFlight
<1>6. SameLatch' /\ Baselines' /\ NoBlindPass'
  BY <1>1, <1>4, <1>5 DEF Ind, SameLatch, Baselines, NoBlindPass
<1>7. PassNumbers'
  BY <1>1, <1>2, <1>5, Numbers DEF Ind, PassNumbers
<1>8. Covered'
  BY <1>1, <1>4, Numbers DEF Ind, Covered
<1>9. CoveredOnDisk'
  <2>1. ~amnesia => lost <= uncounted + mem'.deletes
    BY <1>1, <1>2, <1>4, Numbers DEF Ind, Covered, PassNumbers
  <2>2. mem'.deletes \in Nat /\ uncounted + mem'.deletes + 0 = uncounted + mem'.deletes
    BY <1>2, <1>4, Numbers
  <2>3. CASE Pending' = {mem'} /\ pass'.kept = pass.done
    BY <1>1, <2>1, <2>2, <2>3, Numbers DEF CoveredOnDisk
  <2>4. CASE Pending' = Pending /\ pass'.kept = pass.kept
    BY <1>1, <2>4 DEF Ind, CoveredOnDisk
  <2> QED BY <1>5, <2>3, <2>4
<1>10. Bounded'
  BY <1>1, <1>4 DEF Ind, Bounded
<1> QED BY <1>6, <1>7, <1>8, <1>9, <1>10 DEF Ind

LEMMA NotePassStep ==
  ASSUME Ind, TypeOK', NotePass
  PROVE  Ind'
<1> USE Limits
<1>1. /\ pass.pc = "run" /\ credited' = 0
      /\ UNCHANGED <<lost, uncounted, unjudged, amnesia, seen>>
  BY DEF NotePass, ghosts
<1>2. credited <= pass.done /\ pass.gone <= pass.done /\ pass.done <= PassCap
  BY <1>1 DEF Ind, PassNumbers
<1>3. AtLeastZero(pass.done - credited) = pass.done - credited
  BY <1>2, Numbers DEF AtLeastZero
<1>4. /\ mem'.deletes = mem.deletes + (pass.done - credited)
      /\ mem'.tripped = mem.tripped /\ mem'.counts = mem.counts
  BY <1>3, Numbers DEF NotePass, Latch
<1>5. Pending' = {mem'}
  BY SaveIsPending DEF NotePass
<1>6. ~amnesia => lost <= uncounted + mem'.deletes - (pass.done - pass.gone)
  BY <1>1, <1>4, Numbers DEF Ind, Covered
<1>7. ~amnesia => lost <= MaxCum + unjudged + pass.gone
  BY <1>1 DEF Ind, Bounded
<1>8. SameLatch' /\ Baselines'
  BY <1>1, <1>4, <1>5 DEF Ind, SameLatch, Baselines
<1>9. CASE pass.done = 0
  <2>1. /\ pass'.pc = "idle" /\ pass'.done = 0 /\ pass'.gone = 0 /\ pass'.bad = FALSE
    BY <1>9 DEF NotePass, Idle
  <2>2. PassNumbers' /\ NoBlindPass'
    BY <2>1 DEF PassNumbers, NoBlindPass
  <2>3. Covered' /\ CoveredOnDisk' /\ Bounded'
    BY <1>1, <1>2, <1>4, <1>5, <1>6, <1>7, <1>9, <2>1, Numbers
    DEF Covered, CoveredOnDisk, Bounded
  <2> QED BY <1>8, <2>2, <2>3 DEF Ind
<1>10. CASE pass.done # 0
  <2>1. /\ pass'.pc = "noted" /\ pass'.done = pass.done /\ pass'.gone = pass.gone
        /\ pass'.bad = pass.bad /\ pass'.cum = mem'.deletes
    BY <1>10 DEF NotePass, Ind, TypeOK, Pass
  <2>2. PassNumbers' /\ NoBlindPass'
    BY <1>2, <2>1 DEF PassNumbers, NoBlindPass, Ind
  <2>3. Covered'
    BY <1>1, <1>2, <1>4, <1>6, <2>1, Numbers DEF Covered, AtLeastZero
  <2>4. CoveredOnDisk'
    BY <1>1, <1>2, <1>4, <1>5, <1>6, <2>1, Numbers DEF CoveredOnDisk
  <2>5. Bounded'
    BY <1>1, <1>2, <1>7, <2>1, Numbers DEF Bounded
  <2> QED BY <1>8, <2>2, <2>3, <2>4, <2>5 DEF Ind
<1> QED BY <1>9, <1>10

LEMMA RaiseStep ==
  ASSUME Ind, TypeOK', RunRaises
  PROVE  Ind'
<1> USE Limits
<1>0. AtLeastZero(pass.done - pass.kept) = pass.done - pass.kept
  BY Numbers DEF RunRaises, Ind, PassNumbers, AtLeastZero
<1>1. /\ pass.pc = "run" /\ unjudged' = unjudged + pass.done
      /\ uncounted' = uncounted + (pass.done - pass.kept)
      /\ pass'.pc = "idle" /\ pass'.done = 0 /\ pass'.gone = 0 /\ pass'.bad = FALSE
      /\ UNCHANGED <<mem, disk, unsaved, credited, lost, amnesia, seen>>
  BY <1>0 DEF RunRaises, Unfinished, Idle, breakerVars
<1>2. Pending' = Pending
  BY <1>1 DEF Pending
<1>3. SameLatch' /\ Baselines' /\ PassNumbers' /\ NoBlindPass'
  BY <1>1, <1>2 DEF Ind, SameLatch, Baselines, PassNumbers, NoBlindPass
<1>4. Covered'
  BY <1>1, CountsWhatIsLeft, Numbers DEF Covered
<1>5. CoveredOnDisk'
  BY <1>1, <1>2, Numbers, Fields DEF Ind, CoveredOnDisk
<1>6. Bounded'
  BY <1>1, Numbers DEF Ind, Bounded, PassNumbers
<1> QED BY <1>3, <1>4, <1>5, <1>6 DEF Ind

LEMMA JudgeStep ==
  ASSUME Ind, TypeOK', Judge
  PROVE  Ind'
<1> USE Limits
<1>1. /\ pass.pc = "noted"
      /\ pass'.pc = "idle" /\ pass'.done = 0 /\ pass'.gone = 0 /\ pass'.bad = FALSE
      /\ unjudged' = IF mem'.tripped THEN unjudged ELSE uncounted
      /\ UNCHANGED <<credited, lost, uncounted, amnesia, seen>>
  BY DEF Judge, Idle
<1>2. PICK k \in Nat, e \in Nat, l \in Latch, c \in Nat :
           /\ k + e <= pass.done - pass.gone
           /\ l.deletes = AtLeastZero(AtLeastZero(mem.deletes - k) - e)
           /\ l.counts = mem.counts
           /\ mem.tripped => l.tripped
           /\ c = l.deletes \/ (c = pass.cum /\ k = 0 /\ e = 0)
           /\ l.tripped \/ c <= MaxCum
           /\ Change(l) /\ trips' \in 0..MaxTrips
  BY JudgeShape DEF Ind
<1>3. mem' = l /\ (Pending' = {l} \/ (l = mem /\ Pending' = Pending))
  BY <1>2, ChangeIsPending
<1>4. SameLatch' /\ Baselines' /\ PassNumbers' /\ NoBlindPass'
  BY <1>1, <1>2, <1>3 DEF Ind, SameLatch, Baselines, PassNumbers, NoBlindPass
<1>5. ~amnesia => /\ lost <= uncounted + AtLeastZero(mem.deletes - (pass.done - pass.gone))
                  /\ lost <= uncounted + AtLeastZero(pass.cum - (pass.done - pass.gone))
  BY <1>1 DEF Ind, Covered
<1>6. AtLeastZero(mem.deletes - (pass.done - pass.gone)) <= l.deletes
  BY <1>2, Numbers DEF AtLeastZero
<1>7. AtLeastZero(pass.cum - (pass.done - pass.gone)) <= pass.cum
  BY Numbers DEF AtLeastZero, Ind, PassNumbers
<1>8. /\ l.deletes \in Nat
      /\ AtLeastZero(mem.deletes - (pass.done - pass.gone)) \in Nat
      /\ AtLeastZero(pass.cum - (pass.done - pass.gone)) \in Nat
  BY <1>2, Numbers, Fields DEF AtLeastZero
<1>9. ~amnesia => lost <= uncounted + l.deletes
  BY <1>5, <1>6, <1>8, Numbers
<1>10. ~amnesia => lost <= uncounted + c
  BY <1>2, <1>5, <1>7, <1>8, <1>9, Numbers
<1>11. Covered'
  BY <1>1, <1>3, <1>9 DEF Covered
<1>12. CoveredOnDisk'
  <2>1. ASSUME ~amnesia, NEW m \in Pending PROVE lost <= uncounted + m.deletes
    <3>1. m.deletes \in Nat /\ uncounted + m.deletes + 0 = uncounted + m.deletes
      BY Numbers, Fields
    <3> QED BY <1>1, <2>1, <3>1 DEF Ind, CoveredOnDisk
  <2>2. ASSUME ~amnesia, NEW m \in Pending' PROVE lost <= uncounted + m.deletes + 0
    <3>1. m = l \/ m \in Pending
      BY <1>3
    <3>2. m.deletes \in Nat /\ uncounted + m.deletes + 0 = uncounted + m.deletes
      BY <1>8, <3>1, Numbers, Fields
    <3> QED BY <1>9, <2>1, <2>2, <3>1, <3>2
  <2> QED BY <1>1, <2>2 DEF CoveredOnDisk
<1>13. Bounded'
  <2>1. ~amnesia => lost <= MaxCum + unjudged + PassCap
    BY DEF Ind, Bounded
  <2>2. ~amnesia /\ ~l.tripped => lost <= MaxCum + uncounted
    BY <1>2, <1>10, Numbers
  <2> QED BY <1>1, <1>3, <2>1, <2>2, Numbers DEF Bounded
<1> QED BY <1>4, <1>11, <1>12, <1>13 DEF Ind

LEMMA RestartStep ==
  ASSUME Ind, TypeOK', Restart
  PROVE  Ind'
<1> USE Limits
<1>0. pass.pc = "run" => AtLeastZero(pass.done - pass.kept) = pass.done - pass.kept
  BY Numbers DEF Ind, PassNumbers, AtLeastZero
<1>1. /\ mem' = disk /\ disk' = disk /\ unsaved' = {} /\ Pending' = {disk}
      /\ pass'.pc = "idle" /\ pass'.done = 0 /\ pass'.gone = 0 /\ pass'.bad = FALSE
      /\ unjudged' = unjudged + pass.done
      /\ uncounted' = uncounted + (IF pass.pc = "run" THEN pass.done - pass.kept ELSE 0)
      /\ amnesia' = (amnesia \/ unsaved # {})
      /\ UNCHANGED <<lost, seen>>
  BY <1>0 DEF Restart, ReadBack, Unfinished, Idle, Pending
<1>2. SameLatch' /\ PassNumbers' /\ NoBlindPass'
  BY <1>1 DEF SameLatch, PassNumbers, NoBlindPass
<1>3. CASE amnesia'
  BY <1>2, <1>3 DEF Ind, Baselines, Covered, CoveredOnDisk, Bounded
<1>4. CASE ~amnesia'
  <2>1. ~amnesia /\ Pending = {disk}
    BY <1>1, <1>4 DEF Pending
  <2>2. disk.counts = seen /\ disk.tripped = mem.tripped
    BY <2>1 DEF Ind, SameLatch, Baselines
  <2>3. disk.deletes \in Nat
    BY <2>1, Numbers, Fields
  <2>4. lost <= uncounted' + disk.deletes
    BY <1>1, <2>1, <2>3, Numbers DEF Ind, CoveredOnDisk
  <2>5. Baselines'
    BY <1>1, <2>2 DEF Baselines
  <2>6. Covered' /\ CoveredOnDisk'
    BY <1>1, <2>3, <2>4, Numbers DEF Covered, CoveredOnDisk
  <2>7. Bounded'
    BY <1>1, <2>1, <2>2, Numbers DEF Ind, Bounded, PassNumbers
  <2> QED BY <1>2, <2>5, <2>6, <2>7 DEF Ind
<1> QED BY <1>3, <1>4

-----------------------------------------------------------------------------
(* The theorems.                                                             *)

LEMMA IndStep == Ind /\ [Next]_vars => Ind'
<1> SUFFICES ASSUME Ind, [Next]_vars PROVE Ind'
  OBVIOUS
<1>0. TypeOK'
  BY TypeStep DEF Ind
<1>1. CASE UNCHANGED <<mem, disk, unsaved, credited, pass, lost, uncounted, unjudged, amnesia, seen>>
  <2>1. Pending' = Pending
    BY <1>1 DEF Pending
  <2> QED BY <1>0, <1>1, <2>1, Elsewhere
<1>2. ASSUME NEW s \in Scopes, NEW n \in Listings, RefusePass(s, n) PROVE Ind'
  BY <1>0, <1>2, TripStep DEF RefusePass
<1>3. ASSUME NEW s \in Scopes, NEW n \in Listings, StartPass(s, n) PROVE Ind'
  BY <1>0, <1>3, StartStep
<1>4. CASE StartUnlisted
  BY <1>0, <1>4, UnlistedStep
<1>5. ASSUME NEW n \in Listings, NEW foreign \in BOOLEAN, ProbeRoot(n, foreign) PROVE Ind'
  BY <1>0, <1>5, ProbeStep
<1>6. ASSUME NEW real \in BOOLEAN, Trash(real) PROVE Ind'
  BY <1>0, <1>6, TrashStep
<1>7. CASE CreditInFlight \/ NotePass \/ RunRaises \/ Judge \/ Restart
  BY <1>0, <1>7, CreditStep, NotePassStep, RaiseStep, JudgeStep, RestartStep
<1>8. CASE TrayResume
  <2>1. Pending' = {mem'} /\ mem' = Cleared(mem) /\ credited' = 0 /\ GoAhead
    BY <1>8, SaveIsPending DEF TrayResume
  <2> QED BY <1>0, <2>1, Resumed
<1>9. CASE ResumeRecord
  <2>1. CASE mem.applied = called
    BY <1>1, <1>9, <2>1 DEF ResumeRecord, ghosts
  <2>2. CASE mem.applied # called
    <3>1. mem' = [mem EXCEPT !.applied = called] /\ Pending' = {mem'}
      BY <1>9, <2>2, SaveIsPending DEF ResumeRecord
    <3>2. mem'.deletes = mem.deletes /\ mem'.counts = mem.counts /\ mem'.tripped = mem.tripped
      BY <3>1, Numbers DEF Latch
    <3> QED BY <1>0, <1>9, <3>1, <3>2, Rewritten DEF ResumeRecord, ghosts
  <2> QED BY <2>1, <2>2
<1>10. CASE ResumeClear
  <2>1. CASE mem.tripped
    <3>1. Pending' = {mem'} /\ mem' = Cleared(mem) /\ credited' = 0 /\ GoAhead
      BY <1>10, <2>1, SaveIsPending DEF ResumeClear
    <3> QED BY <1>0, <3>1, Resumed
  <2>2. CASE ~mem.tripped
    BY <1>1, <1>10, <2>2 DEF ResumeClear
  <2> QED BY <2>1, <2>2
<1>11. ASSUME NEW c \in 1..Clicks, TakeReply(c) \/ Click(c) \/ LoseReply(c) PROVE Ind'
  BY <1>1, <1>11 DEF TakeReply, Click, LoseReply, breakerVars, ghosts
<1>12. CASE Withdraw \/ SendReport
  BY <1>1, <1>12 DEF Withdraw, SendReport, breakerVars, ghosts
<1>13. ASSUME NEW h \in Handlers, NEW t \in BOOLEAN, HandleReport(h, t) PROVE Ind'
  BY <1>1, <1>13 DEF HandleReport, breakerVars, ghosts
<1>14. ASSUME NEW t \in BOOLEAN, LoseReport(t) PROVE Ind'
  BY <1>1, <1>14 DEF LoseReport, breakerVars, ghosts
<1>15. ASSUME NEW h \in Handlers, AnswerReport(h) PROVE Ind'
  BY <1>1, <1>15 DEF AnswerReport, breakerVars, ghosts
<1>16. CASE RetrySave
  <2>1. Pending' \subseteq Pending
    BY <1>16 DEF RetrySave, Pending
  <2> QED BY <1>0, <1>16, <2>1, Elsewhere DEF RetrySave, ghosts
<1>17. CASE DiskFills \/ DiskClears \/ UNCHANGED vars
  BY <1>1, <1>17 DEF DiskFills, DiskClears, vars, breakerVars, ghosts
<1> QED
  BY <1>2, <1>3, <1>4, <1>5, <1>6, <1>7, <1>8, <1>9, <1>10, <1>11, <1>12, <1>13, <1>14,
     <1>15, <1>16, <1>17
  DEF Next, Lane, People, Wires, Machine

LEMMA Always == Spec => []Ind
BY InitInd, IndStep, PTL DEF Spec

-----------------------------------------------------------------------------
(* One administrator's click.                                                *)

\* Nobody speaks of a trip before the first.
Untripped ==
  trips = 0 => /\ ~mem.tripped /\ ~disk.tripped /\ \A m \in unsaved : ~m.tripped
               /\ ~shown /\ TRUE \notin wire

\* The click has reached the companion, or is on a way there.
Sent == 1 \in replies \/ called = 1 \/ resuming = 1 \/ used[1] # {}
Coming == 1 \in replies \/ called = 1 \/ \E h \in Handlers : 1 \in answering[h]

\* Once it has cleared a trip it is on record as applied, or cannot come again.
OneInd ==
  /\ Untripped
  /\ asked[1] = 0 => request = 0 /\ ~Coming /\ ~Sent
  /\ Sent => request = 0
  /\ used[1] # {} => mem.applied = 1 \/ ~Coming
  /\ resuming = 1 => mem.applied = 1 /\ used[1] = {}
  /\ \A t, u \in used[1] : t = u

\* A step that writes what is in memory, if anything.
LEMMA StillUntripped ==
  ASSUME TypeOK, Untripped, mem' \in Latch,
         disk' \in {disk, mem'} \cup unsaved, unsaved' \subseteq unsaved \cup {mem'},
         trips' \in Nat, trips' >= trips, mem'.tripped => mem.tripped \/ trips' > 0,
         UNCHANGED <<shown, wire>>
  PROVE  Untripped'
<1> SUFFICES ASSUME trips' = 0
             PROVE  /\ ~mem'.tripped /\ ~disk'.tripped /\ \A m \in unsaved' : ~m.tripped
                    /\ ~shown' /\ TRUE \notin wire'
  BY DEF Untripped
<1>1. trips = 0 /\ trips \in Nat
  BY Limits DEF TypeOK
<1>2. ~mem'.tripped
  BY <1>1 DEF Untripped
<1>3. ~disk'.tripped /\ \A m \in unsaved' : ~m.tripped
  BY <1>1, <1>2 DEF Untripped
<1> QED BY <1>1, <1>2, <1>3 DEF Untripped

\* What a pass does to the latch, and that it does nothing to a request.
LaneShape ==
  /\ mem'.applied = mem.applied
  /\ disk' \in {disk, mem'} \cup unsaved /\ unsaved' \subseteq unsaved \cup {mem'}
  /\ trips' >= trips
  /\ mem'.tripped => mem.tripped \/ trips' > 0
  /\ UNCHANGED <<called, resuming, used, dashVars>>

LEMMA ChangeWrites ==
  ASSUME NEW m, Change(m)
  PROVE  mem' = m /\ disk' \in {disk, mem'} /\ unsaved' \subseteq unsaved \cup {mem'}
BY DEF Change, Save

LEMMA KeepsRecord ==
  ASSUME NEW m \in Latch
  PROVE  Cleared(m).applied = m.applied /\ \A r : Discounted(m, r).applied = m.applied
BY DEF Cleared, Discounted, Latch

LEMMA TripTells ==
  ASSUME NEW m \in Latch, Trip(m), trips \in Nat
  PROVE  /\ mem'.applied = m.applied /\ trips' >= trips
         /\ m.tripped \/ trips' > 0
         /\ disk' \in {disk, mem'} /\ unsaved' \subseteq unsaved \cup {mem'}
<1>1. CASE m.tripped
  <2>1. Change(m) /\ trips' = trips BY <1>1 DEF Trip
  <2>2. mem' = m /\ disk' \in {disk, mem'} /\ unsaved' \subseteq unsaved \cup {mem'}
    BY <2>1, ChangeWrites
  <2>3. trips' >= trips BY <2>1
  <2> QED BY <1>1, <2>2, <2>3
<1>2. CASE ~m.tripped
  <2>1. Change([m EXCEPT !.tripped = TRUE]) /\ trips' = trips + 1 BY <1>2 DEF Trip
  <2>2. [m EXCEPT !.tripped = TRUE].applied = m.applied BY DEF Latch
  <2>3. /\ mem' = [m EXCEPT !.tripped = TRUE]
        /\ disk' \in {disk, mem'} /\ unsaved' \subseteq unsaved \cup {mem'}
    BY <2>1, ChangeWrites
  <2>4. trips' >= trips /\ trips' > 0 BY <2>1
  <2> QED BY <2>2, <2>3, <2>4
<1> QED BY <1>1, <1>2

LEMMA JudgeTells ==
  ASSUME TypeOK, Judge
  PROVE  LaneShape
<1>1. PICK known \in 0..(pass.done - pass.gone), limit \in 1..MaxPass :
        \E found \in Found(known) : Verdict(known, found, limit)
  BY DEF Judge
<1>2. PICK found \in Found(known) : Verdict(known, found, limit)
  BY <1>1
<1> DEFINE m1    == IF known > 0 THEN Discounted(mem, known) ELSE mem
           here1 == IF known > 0 THEN m1.last ELSE pass.done
           cum1  == IF known > 0 THEN m1.deletes ELSE pass.cum
           near  == here1 > limit \/ cum1 > MaxCum \/ pass.done >= Eager
           extra == IF near THEN Least(found, here1) ELSE 0
           m2    == IF extra > 0 THEN Discounted(m1, extra) ELSE m1
<1>3. Trip(m2) \/ (trips' = trips /\ Change(m2))
  BY <1>2 DEF Verdict
<1>4. /\ mem \in Latch /\ known \in Nat /\ found \in Nat /\ pass.done \in Nat /\ trips \in Nat
  <2>1. mem \in Latch /\ pass.done \in Nat /\ pass.gone \in Nat /\ trips \in Nat
    BY Limits DEF TypeOK, Pass
  <2>2. found \in 0..(pass.done - pass.gone - known)
    BY DEF Found
  <2> QED BY <2>1, <2>2
<1>5. m1 \in Latch /\ m1.tripped = mem.tripped /\ m1.applied = mem.applied
  <2>1. CASE known > 0 BY <1>4, <2>1, DiscountedShape, KeepsRecord
  <2>2. CASE ~(known > 0) BY <1>4, <2>2
  <2> QED BY <2>1, <2>2
<1>6. extra \in Nat
  <2>1. here1 \in Nat BY <1>4, <1>5, Fields
  <2> HIDE DEF here1
  <2> QED BY <1>4, <2>1 DEF Least
<1> HIDE DEF m1, extra
<1>7. m2 \in Latch /\ m2.tripped = mem.tripped /\ m2.applied = mem.applied
  <2>1. CASE extra > 0 BY <1>5, <1>6, <2>1, DiscountedShape, KeepsRecord
  <2>2. CASE ~(extra > 0) BY <1>5, <2>2
  <2> QED BY <2>1, <2>2
<1> HIDE DEF m2
<1>8. UNCHANGED <<called, resuming, used, dashVars>>
  BY DEF Judge
<1>9. CASE Trip(m2)
  BY <1>4, <1>7, <1>8, <1>9, TripTells DEF LaneShape
<1>10. CASE trips' = trips /\ Change(m2)
  BY <1>4, <1>7, <1>8, <1>10, ChangeWrites DEF LaneShape
<1> QED BY <1>3, <1>9, <1>10

LEMMA LaneSteps ==
  ASSUME TypeOK, Lane
  PROVE  LaneShape
<1>0. mem \in Latch /\ trips \in 0..MaxTrips /\ trips \in Nat /\ MaxTrips \in Nat
  BY Limits DEF TypeOK
<1>1. ASSUME Trip(mem), UNCHANGED <<called, resuming, used, dashVars>> PROVE LaneShape
  BY <1>0, <1>1, TripTells DEF LaneShape
<1>2. ASSUME NEW s \in Scopes, NEW n \in Nat, mem' = [mem EXCEPT !.counts[s] = n]
      PROVE  mem'.applied = mem.applied /\ mem'.tripped = mem.tripped
  BY <1>0, <1>2 DEF Latch
<1>3. ASSUME NEW s \in Scopes, NEW n \in Listings, RefusePass(s, n) PROVE LaneShape
  BY <1>1, <1>3 DEF RefusePass
<1>4. ASSUME NEW s \in Scopes, NEW n \in Listings, StartPass(s, n) PROVE LaneShape
  <2>1. CASE n = 0
    BY <1>0, <1>4, <2>1 DEF StartPass, LaneShape
  <2>2. CASE n # 0
    <3>1. mem' = [mem EXCEPT !.counts[s] = n] /\ Save(mem') /\ trips' = trips
      BY <1>4, <2>2 DEF StartPass
    <3>2. mem'.applied = mem.applied /\ mem'.tripped = mem.tripped
      BY <1>2, <3>1, Limits
    <3> QED BY <1>0, <1>4, <3>1, <3>2 DEF StartPass, LaneShape, Save
  <2> QED BY <2>1, <2>2
<1>5. ASSUME NEW n \in Listings, NEW foreign \in BOOLEAN, ProbeRoot(n, foreign) PROVE LaneShape
  <2>1. CASE foreign \/ LooksWrong(n, mem.counts[Root])
    BY <1>1, <1>5, <2>1 DEF ProbeRoot
  <2>2. CASE ~(foreign \/ LooksWrong(n, mem.counts[Root])) /\ n = 0
    BY <1>0, <1>5, <2>2 DEF ProbeRoot, LaneShape
  <2>3. CASE ~(foreign \/ LooksWrong(n, mem.counts[Root])) /\ n # 0
    <3>1. mem' = [mem EXCEPT !.counts[Root] = n] /\ Save(mem') /\ trips' = trips
      BY <1>5, <2>3 DEF ProbeRoot
    <3>2. mem'.applied = mem.applied /\ mem'.tripped = mem.tripped
      BY <1>2, <3>1, Limits
    <3> QED BY <1>0, <1>5, <3>1, <3>2 DEF ProbeRoot, LaneShape, Save
  <2> QED BY <2>1, <2>2, <2>3
<1>6. CASE StartUnlisted \/ RunRaises \/ \E real \in BOOLEAN : Trash(real)
  <2>1. UNCHANGED <<mem, disk, unsaved, called, resuming, used, trips, dashVars>>
    BY <1>6 DEF StartUnlisted, RunRaises, Trash, breakerVars, ghosts
  <2> QED BY <1>0, <2>1 DEF LaneShape
<1>7. CASE CreditInFlight \/ NotePass
  <2>1. mem'.applied = mem.applied /\ mem'.tripped = mem.tripped
    BY <1>0, <1>7 DEF CreditInFlight, NotePass, Latch
  <2> QED BY <1>0, <1>7, <2>1 DEF CreditInFlight, NotePass, LaneShape, Save, ghosts
<1>8. CASE Judge
  BY <1>8, JudgeTells
<1> QED BY <1>3, <1>4, <1>5, <1>6, <1>7, <1>8 DEF Lane

LEMMA OneStep ==
  ASSUME Clicks = 1, TypeOK, TypeOK', OneInd, [Next]_vars
  PROVE  OneInd'
<1>0. /\ trips \in Nat /\ trips' \in Nat /\ mem \in Latch /\ mem' \in Latch
      /\ called \in {0, 1} /\ resuming \in {0, 1} /\ request \in {0, 1}
      /\ replies \subseteq {1} /\ 1..Clicks = {1}
      /\ asked \in [{1} -> Nat] /\ answering \in [Handlers -> SUBSET {0, 1}]
      /\ DOMAIN used = {1} /\ wire \subseteq BOOLEAN
  BY Limits DEF TypeOK
<1>1. CASE LaneShape
  <2>1. Untripped' BY <1>0, <1>1, StillUntripped DEF LaneShape, OneInd, dashVars
  <2> QED BY <1>1, <2>1 DEF LaneShape, OneInd, Sent, Coming, dashVars
<1>2. CASE Lane
  BY <1>1, <1>2, LaneSteps
<1>3. CASE RetrySave \/ DiskFills \/ DiskClears \/ UNCHANGED vars
  BY <1>0, <1>1, <1>3
     DEF RetrySave, DiskFills, DiskClears, vars, breakerVars, ghosts, LaneShape
<1>4. CASE Restart
  <2>1. Untripped' BY <1>4 DEF Restart, ReadBack, OneInd, Untripped
  <2>2. /\ replies' = {} /\ called' = 0 /\ resuming' = 0
        /\ request' = request /\ asked' = asked /\ used' = used
    BY <1>4 DEF Restart, ReadBack
  <2>3. \A h \in Handlers : 1 \notin answering'[h]
    BY <1>4 DEF Restart, ReadBack
  <2>4. ~Coming' /\ (Sent' => Sent)
    BY <2>2, <2>3 DEF Coming, Sent
  <2> QED BY <2>1, <2>2, <2>4 DEF OneInd
<1>5. CASE TrayResume
  <2>1. mem' = Cleared(mem) /\ mem'.applied = mem.applied /\ mem'.tripped = FALSE
    BY <1>0, <1>5, ClearedShape, KeepsRecord DEF TrayResume
  <2> QED BY <1>0, <1>1, <1>5, <2>1 DEF TrayResume, LaneShape, Save
<1>6. CASE ResumeRecord
  <2>1. called = 1 /\ resuming = 0 /\ called' = 0 BY <1>0, <1>6 DEF ResumeRecord
  <2>2. CASE mem.applied = called
    <3>1. UNCHANGED <<mem, disk, unsaved, resuming, dashVars, trips, used>>
      BY <1>6, <2>2 DEF ResumeRecord, ghosts
    <3> QED BY <2>1, <3>1 DEF OneInd, Untripped, Sent, Coming, dashVars
  <2>3. CASE mem.applied # called
    <3>1. /\ mem' = [mem EXCEPT !.applied = called] /\ Save(mem') /\ resuming' = 1
          /\ UNCHANGED <<dashVars, trips, used>>
      BY <1>6, <2>1, <2>3 DEF ResumeRecord, ghosts
    <3>2. mem'.applied = 1 /\ mem'.tripped = mem.tripped
      BY <1>0, <2>1, <3>1 DEF Latch
    <3>3. Untripped'
      BY <1>0, <3>1, <3>2, StillUntripped DEF Save, OneInd, dashVars
    <3>4. used[1] = {} /\ request = 0 /\ asked[1] # 0
      BY <2>1, <2>3 DEF OneInd, Sent, Coming
    <3> QED BY <2>1, <3>1, <3>2, <3>3, <3>4 DEF OneInd, Sent, Coming, dashVars
  <2> QED BY <2>2, <2>3
<1>7. CASE ResumeClear
  <2>1. resuming = 1 /\ resuming' = 0 /\ called' = called /\ UNCHANGED <<dashVars, trips>>
    BY <1>0, <1>7 DEF ResumeClear
  <2>2. mem.applied = 1 /\ used[1] = {} /\ request = 0 /\ asked[1] # 0
    BY <2>1 DEF OneInd, Sent
  <2>3. CASE mem.tripped
    <3>1. mem' = Cleared(mem) /\ Save(mem') /\ used' = [used EXCEPT ![1] = @ \cup {trips}]
      BY <1>7, <2>1, <2>3 DEF ResumeClear
    <3>2. mem'.applied = 1 /\ mem'.tripped = FALSE
      BY <1>0, <2>2, <3>1, ClearedShape, KeepsRecord
    <3>3. Untripped'
      BY <1>0, <2>1, <3>1, <3>2, StillUntripped DEF Save, OneInd, dashVars
    <3>4. used'[1] = {trips} BY <1>0, <2>2, <3>1
    <3> QED BY <2>1, <2>2, <3>2, <3>3, <3>4 DEF OneInd, Sent, Coming, dashVars
  <2>4. CASE ~mem.tripped
    <3>1. UNCHANGED <<mem, disk, unsaved, used>> BY <1>7, <2>4 DEF ResumeClear
    <3> QED BY <2>1, <2>2, <3>1 DEF OneInd, Untripped, Sent, Coming, dashVars
  <2> QED BY <2>3, <2>4
<1>8. ASSUME NEW c \in 1..Clicks, TakeReply(c) PROVE OneInd'
  <2>1. /\ c = 1 /\ 1 \in replies /\ called' \in {0, 1} /\ replies' \subseteq replies
        /\ UNCHANGED <<mem, disk, unsaved, resuming, request, shown, wire, answering, asked,
                      trips, used>>
    BY <1>0, <1>8 DEF TakeReply, ghosts
  <2>2. Coming /\ Sent BY <2>1 DEF Coming, Sent
  <2> QED BY <2>1, <2>2 DEF OneInd, Untripped, Sent, Coming
<1>9. ASSUME NEW c \in 1..Clicks, LoseReply(c) PROVE OneInd'
  BY <1>0, <1>9 DEF LoseReply, OneInd, Untripped, Sent, Coming, breakerVars, ghosts
<1>10. ASSUME NEW c \in 1..Clicks, Click(c) PROVE OneInd'
  <2>1. /\ c = 1 /\ asked[1] = 0 /\ shown /\ request' = 1 /\ asked'[1] = trips
        /\ UNCHANGED <<mem, disk, unsaved, called, resuming, shown, wire, answering, replies,
                      trips, used>>
    BY <1>0, <1>10 DEF Click, breakerVars, ghosts
  <2>2. trips # 0 BY <2>1 DEF OneInd, Untripped
  <2> QED BY <2>1, <2>2 DEF OneInd, Untripped, Sent, Coming
<1>11. CASE Withdraw
  BY <1>11 DEF Withdraw, OneInd, Untripped, Sent, Coming, breakerVars, ghosts
<1>12. CASE SendReport
  BY <1>0, <1>12 DEF SendReport, OneInd, Untripped, Sent, Coming, breakerVars, ghosts, Latch
<1>13. ASSUME NEW h \in Handlers, NEW t \in BOOLEAN, HandleReport(h, t) PROVE OneInd'
  <2>1. /\ t \in wire /\ wire' = wire \ {t} /\ shown' = t
        /\ UNCHANGED <<mem, disk, unsaved, called, resuming, request, replies, asked, trips, used>>
    BY <1>13 DEF HandleReport, breakerVars, ghosts
  <2>2. Untripped' BY <1>0, <2>1 DEF OneInd, Untripped
  <2>3. \A g \in Handlers : 1 \in answering'[g] => 1 \in answering[g] \/ request = 1
    BY <1>0, <1>13 DEF HandleReport
  <2>4. Sent' = Sent BY <2>1 DEF Sent
  <2>5. Coming' => Coming \/ request = 1 BY <2>1, <2>3 DEF Coming
  <2>6. request = 1 => ~Sent /\ asked[1] # 0 /\ used[1] = {} BY DEF OneInd, Sent
  <2> QED BY <2>1, <2>2, <2>4, <2>5, <2>6 DEF OneInd
<1>14. ASSUME NEW t \in BOOLEAN, LoseReport(t) PROVE OneInd'
  BY <1>14 DEF LoseReport, OneInd, Untripped, Sent, Coming, breakerVars, ghosts
<1>15. ASSUME NEW h \in Handlers, AnswerReport(h) PROVE OneInd'
  <2>1. /\ request' = 0 /\ replies' = replies \cup (answering[h] \ {0})
        /\ UNCHANGED <<mem, disk, unsaved, called, resuming, shown, wire, asked, trips, used>>
    BY <1>15 DEF AnswerReport, breakerVars, ghosts
  <2>2. \A g \in Handlers : answering'[g] \subseteq answering[g]
    BY <1>0, <1>15 DEF AnswerReport
  <2>3. Coming' => Coming BY <2>1, <2>2 DEF Coming
  <2>4. Sent' => Sent \/ Coming BY <2>1 DEF Sent, Coming
  <2>5. Untripped' BY <2>1 DEF OneInd, Untripped
  <2> QED BY <2>1, <2>3, <2>4, <2>5 DEF OneInd
<1> QED
  BY <1>2, <1>3, <1>4, <1>5, <1>6, <1>7, <1>8, <1>9, <1>10, <1>11, <1>12, <1>13, <1>14, <1>15
  DEF Next, People, Wires, Machine

\* Every part of the breaker, the pass and the dashboard keeps its type.
THEOREM TypeCorrect == Spec => []TypeOK
<1>1. Ind => TypeOK
  BY DEF Ind
<1> QED BY <1>1, Always, PTL

\* Between two go-aheads the server loses at most the cumulative limit, one
\* pass's cap and what unaccounted passes trashed.
THEOREM LossIsBounded == Spec => []WithinBudget
<1>1. Ind => WithinBudget
  <2> SUFFICES ASSUME Ind PROVE WithinBudget
    OBVIOUS
  <2> USE Limits
  <2>1. CASE mem.tripped
    BY <2>1, Numbers DEF Ind, Bounded, WithinBudget
  <2>2. CASE ~mem.tripped
    BY <2>2, Numbers DEF Ind, Bounded, WithinBudget, PassNumbers
  <2> QED BY <2>1, <2>2
<1> QED BY <1>1, Always, PTL

\* No pass runs over a listing its history says is wrong.
THEOREM PassesAreNotBlind == Spec => []NoBlindPass
<1>1. Ind => NoBlindPass
  BY DEF Ind
<1> QED BY <1>1, Always, PTL

\* Over any behaviour with one click of the administrator's (POST resume-lane-b),
\* that click clears at most one trip, though replies are lost, two report handlers
\* may both carry it, writes are refused and the process may die inside resume().
THEOREM OneClickClearsOnce == Clicks = 1 => (Spec => []OneClickOneResume)
<1> SUFFICES ASSUME Clicks = 1 PROVE Spec => []OneClickOneResume
  OBVIOUS
<1>0. 1..Clicks = {1}
  OBVIOUS
<1>1. Init => OneInd
  BY <1>0 DEF Init, Fresh, OneInd, Untripped, Sent, Coming
<1>2. TypeOK /\ TypeOK' /\ OneInd /\ [Next]_vars => OneInd'
  BY OneStep
<1>3. OneInd => OneClickOneResume
  BY <1>0 DEF OneInd, OneClickOneResume
<1> QED BY <1>1, <1>2, <1>3, TypeCorrect, PTL DEF Spec

\* The latch opens at a person's decision only.
THEOREM LatchIsAPersons == Spec => LatchStands
<1> DEFINE Opens == mem.tripped /\ ~mem'.tripped =>
                      TrayResume \/ ResumeClear \/ (Restart /\ unsaved # {})
<1>1. Ind /\ [Next]_vars => [Opens]_vars
  <2> SUFFICES ASSUME Ind, Next, mem.tripped, ~mem'.tripped
               PROVE  TrayResume \/ ResumeClear \/ (Restart /\ unsaved # {})
    OBVIOUS
  <2>1. ASSUME NEW m \in Latch, m.tripped, Change(m) PROVE FALSE
    BY <2>1 DEF Change
  <2>2. ASSUME Trip(mem) PROVE FALSE
    BY <2>1, <2>2, TripShape DEF Ind, TypeOK
  <2>3. ASSUME NEW s \in Scopes, NEW n \in Listings, RefusePass(s, n) \/ StartPass(s, n)
        PROVE  FALSE
    BY <2>3 DEF RefusePass, StartPass
  <2>4. ASSUME NEW n \in Listings, NEW foreign \in BOOLEAN, ProbeRoot(n, foreign) PROVE FALSE
    BY <2>2, <2>4, Numbers DEF ProbeRoot, Latch
  <2>5. ASSUME CreditInFlight \/ NotePass PROVE FALSE
    BY <2>5, Numbers DEF CreditInFlight, NotePass, Latch
  <2>6. ASSUME Judge PROVE FALSE
    BY <2>1, <2>6, JudgeShape DEF Ind
  <2>7. ASSUME ResumeRecord PROVE FALSE
    BY <2>7, Numbers DEF ResumeRecord, Latch
  <2>8. ASSUME Restart PROVE unsaved # {}
    BY <2>8 DEF Restart, ReadBack, Ind, SameLatch, Pending
  <2>9. mem' # mem
    OBVIOUS
  <2> QED
    BY <2>3, <2>4, <2>5, <2>6, <2>7, <2>8, <2>9
    DEF Next, Lane, People, Wires, Machine, StartUnlisted, Trash, RunRaises, Withdraw, TakeReply,
        Click, LoseReply, SendReport, AnswerReport, HandleReport, LoseReport, RetrySave,
        DiskFills, DiskClears, breakerVars
<1>2. Spec => [][Opens]_vars
  BY <1>1, Always, PTL DEF Spec
<1> QED BY <1>2 DEF LatchStands

=============================================================================
