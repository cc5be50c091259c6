--------------------------- MODULE SyncHaltProofs ---------------------------
(***************************************************************************)
(* Proofs about SyncHalt, for every set of projects, every set of threads   *)
(* and every bound.                                                         *)
(*                                                                          *)
(* That no folder runs without its .stignore needs where an unfiltered      *)
(* folder can hide from the records of them (Noticed): only in the part of  *)
(* the startup verification that is still to come, which is what rushed     *)
(* excuses.  That a halt holds needs who is still bound to act on it: a     *)
(* thread on its way to the pausing (Stopping, Obliged), or one whose list  *)
(* covers whatever runs unexcused (Covers); and that nobody decides to      *)
(* release a folder while the halt stands.                                  *)
(***************************************************************************)
EXTENDS SyncHalt, TLAPS

-----------------------------------------------------------------------------
(* Threads *)

Backs == {"off", "turns", "gate", "down"}
Rec == [at : Labels, todo : SUBSET Folders, cur : SUBSET Folders, back : Backs]

LEMMA Distinct ==
  /\ Worker \in Threads /\ Repause \in Threads /\ Worker # Repause
  /\ \A c \in Callers : c \in Threads /\ c # Worker /\ c # Repause
  /\ \A t \in Threads : t = Worker \/ t = Repause \/ t \in Callers
BY CallersAssumption DEF Threads, Worker, Repause

LEMMA AfterIs ==
  /\ DOMAIN After = {"release", "accept", "turn", "retry"}
  /\ After["release"] = "sweeping" /\ After["accept"] = "assert"
  /\ After["turn"] = "check" /\ After["retry"] = "turns"
BY DEF After

LEMMA LabelsAre ==
  Labels = {"off", "adopt", "verify", "sweep", "sweeping", "parked", "turns",
            "offer", "ignores", "accepted", "assert", "unpause", "check",
            "reply", "halting", "lifting", "joining", "down", "pausing",
            "holding", "pause", "gate", "start",
            "release", "accept", "turn", "retry"}
BY AfterIs DEF Labels

LEMMA RestIs ==
  /\ None \in Rec /\ None.at = "off" /\ None.todo = {} /\ None.cur = {} /\ None.back = "off"
  /\ \A l \in Labels : /\ At(l) \in Rec /\ At(l).at = l /\ At(l).todo = {}
                       /\ At(l).cur = {} /\ At(l).back = "off"
BY LabelsAre DEF None, At, Rec, Backs

LEMMA LoopIs ==
  ASSUME NEW l \in Labels, NEW S \in SUBSET Folders
  PROVE  /\ Loop(l, S) \in Rec
         /\ Loop(l, S).at = l /\ Loop(l, S).todo = S /\ Loop(l, S).cur = {}
         /\ Loop(l, S).back = "off"
BY RestIs DEF Loop, Rec

\* Onward, field by field.
LEMMA OnwardIs ==
  ASSUME NEW r \in Rec
  PROVE  /\ Onward(r) \in Rec
         /\ r.todo # {} => Onward(r) = r
         /\ r.at \notin {"verify", "sweeping", "pausing", "holding"} => Onward(r) = r
         /\ r.todo = {} /\ r.at = "verify" =>
              /\ Onward(r).at = "sweep" /\ Onward(r).todo = {}
              /\ Onward(r).cur = r.cur /\ Onward(r).back = r.back
         /\ r.todo = {} /\ r.at = "sweeping" /\ r.back # "turns" => Onward(r) = At(r.back)
         /\ r.todo = {} /\ r.at = "sweeping" /\ r.back = "turns" =>
              /\ Onward(r).at = "turns" /\ Onward(r).todo = Folders
              /\ Onward(r).cur = {} /\ Onward(r).back = "off"
         /\ r.todo = {} /\ r.at \in {"pausing", "holding"} => Onward(r) = None
<1>1. r.todo # {} => Onward(r) = r BY DEF Onward
<1>2. r.at \notin {"verify", "sweeping", "pausing", "holding"} => Onward(r) = r BY DEF Onward
<1>3. r.todo = {} /\ r.at = "verify" => Onward(r) = [r EXCEPT !.at = "sweep"] BY DEF Onward
<1>4. r.todo = {} /\ r.at = "sweeping" /\ r.back # "turns" => Onward(r) = At(r.back) BY DEF Onward
<1>5. r.todo = {} /\ r.at = "sweeping" /\ r.back = "turns" =>
        Onward(r) = [At("turns") EXCEPT !.todo = Folders]
  BY DEF Onward
<1>6. r.todo = {} /\ r.at \in {"pausing", "holding"} => Onward(r) = None BY DEF Onward
<1>7. "turns" \in Labels /\ "sweep" \in Labels /\ Backs \subseteq Labels BY LabelsAre DEF Backs
<1>8. r.back \in Labels BY <1>7 DEF Rec
<1>9. At(r.back) \in Rec /\ At("turns") \in Rec BY <1>7, <1>8, RestIs
<1>10. LET s == [At("turns") EXCEPT !.todo = Folders]
       IN s \in Rec /\ s.at = "turns" /\ s.todo = Folders /\ s.cur = {} /\ s.back = "off"
  BY <1>7, <1>9, RestIs DEF Rec
<1>11. LET s == [r EXCEPT !.at = "sweep"]
       IN s \in Rec /\ s.at = "sweep" /\ s.todo = r.todo /\ s.cur = r.cur /\ s.back = r.back
  BY <1>7 DEF Rec
<1> QED BY <1>1, <1>2, <1>3, <1>4, <1>5, <1>6, <1>9, <1>10, <1>11, RestIs

\* Where a thread sent to l with these fields comes to stand; no other moves.
Loops == {"verify", "sweeping", "pausing", "holding"}
Lands(t, l, S, C, b) ==
  /\ thread' \in [Threads -> Rec]
  /\ \A u \in Threads \ {t} : thread'[u] = thread[u]
  /\ \/ /\ S # {} \/ l \notin Loops
        /\ thread'[t].at = l /\ thread'[t].todo = S /\ thread'[t].cur = C /\ thread'[t].back = b
     \/ /\ S = {} /\ l = "verify"
        /\ thread'[t].at = "sweep" /\ thread'[t].todo = {} /\ thread'[t].cur = C
        /\ thread'[t].back = b
     \/ /\ S = {} /\ l = "sweeping" /\ b # "turns"
        /\ thread'[t].at = b /\ thread'[t].todo = {} /\ thread'[t].cur = {}
        /\ thread'[t].back = "off"
     \/ /\ S = {} /\ l = "sweeping" /\ b = "turns"
        /\ thread'[t].at = "turns" /\ thread'[t].todo = Folders /\ thread'[t].cur = {}
        /\ thread'[t].back = "off"
     \/ S = {} /\ l \in {"pausing", "holding"} /\ thread'[t] = None

LEMMA Landing ==
  ASSUME TypeOK, NEW t \in Threads, NEW r \in Rec, Move(t, r)
  PROVE  Lands(t, r.at, r.todo, r.cur, r.back)
<1>1. /\ thread' \in [Threads -> Rec]
      /\ thread'[t] = Onward(r)
      /\ \A u \in Threads \ {t} : thread'[u] = thread[u]
  BY OnwardIs DEF TypeOK, Rec, Backs, Move
<1>2. r.todo = {} /\ r.at = "sweeping" /\ r.back # "turns" =>
        /\ thread'[t].at = r.back /\ thread'[t].todo = {} /\ thread'[t].cur = {}
        /\ thread'[t].back = "off"
  <2>1. r.back \in Labels BY LabelsAre DEF Rec, Backs
  <2> QED BY <1>1, <2>1, OnwardIs, RestIs
<1> QED BY <1>1, <1>2, OnwardIs DEF Lands, Loops

LEMMA GotoLands ==
  ASSUME TypeOK, NEW t \in Threads, NEW l \in Labels, Goto(t, l)
  PROVE  Lands(t, l, thread[t].todo, thread[t].cur, thread[t].back)
<1> DEFINE r == [thread[t] EXCEPT !.at = l]
<1>1. /\ r \in Rec /\ r.at = l /\ r.todo = thread[t].todo /\ r.cur = thread[t].cur
      /\ r.back = thread[t].back
  BY DEF TypeOK, Rec, Backs
<1>2. Move(t, r) BY DEF Goto
<1> HIDE DEF r
<1>3. Lands(t, r.at, r.todo, r.cur, r.back) BY <1>1, <1>2, Landing
<1> QED BY <1>1, <1>3

LEMMA TakeLands ==
  ASSUME TypeOK, NEW t \in Threads, NEW l \in Labels, NEW f \in Folders, Take(t, l, f)
  PROVE  Lands(t, l, thread[t].todo \ {f}, {f}, thread[t].back)
<1> DEFINE r == [thread[t] EXCEPT !.at = l, !.cur = {f}, !.todo = @ \ {f}]
<1>1. /\ r \in Rec /\ r.at = l /\ r.todo = thread[t].todo \ {f} /\ r.cur = {f}
      /\ r.back = thread[t].back
  BY DEF TypeOK, Rec, Backs
<1>2. Move(t, r) BY DEF Take
<1> HIDE DEF r
<1>3. Lands(t, r.at, r.todo, r.cur, r.back) BY <1>1, <1>2, Landing
<1> QED BY <1>1, <1>3

LEMMA DropLands ==
  ASSUME TypeOK, NEW t \in Threads, NEW S \in SUBSET Folders,
         Move(t, [thread[t] EXCEPT !.todo = S])
  PROVE  Lands(t, thread[t].at, S, thread[t].cur, thread[t].back)
<1> DEFINE r == [thread[t] EXCEPT !.todo = S]
<1>1. /\ r \in Rec /\ r.at = thread[t].at /\ r.todo = S /\ r.cur = thread[t].cur
      /\ r.back = thread[t].back
  BY DEF TypeOK, Rec, Backs
<1>2. Move(t, r) OBVIOUS
<1> HIDE DEF r
<1>3. Lands(t, r.at, r.todo, r.cur, r.back) BY <1>1, <1>2, Landing
<1> QED BY <1>1, <1>3

LEMMA BackLands ==
  ASSUME TypeOK, NEW t \in Threads, NEW l \in Labels, Back(t, l)
  PROVE  Lands(t, l, thread[t].todo, {}, thread[t].back)
<1> DEFINE r == [thread[t] EXCEPT !.at = l, !.cur = {}]
<1>1. /\ r \in Rec /\ r.at = l /\ r.todo = thread[t].todo /\ r.cur = {}
      /\ r.back = thread[t].back
  BY DEF TypeOK, Rec, Backs
<1>2. Move(t, r) BY DEF Back
<1> HIDE DEF r
<1>3. Lands(t, r.at, r.todo, r.cur, r.back) BY <1>1, <1>2, Landing
<1> QED BY <1>1, <1>3

LEMMA LoopLands ==
  ASSUME TypeOK, NEW t \in Threads, NEW l \in Labels, NEW S \in SUBSET Folders, NEW b \in Backs
  PROVE  /\ Move(t, Loop(l, S)) => Lands(t, l, S, {}, "off")
         /\ Move(t, [Loop(l, S) EXCEPT !.back = b]) => Lands(t, l, S, {}, b)
<1> DEFINE r == [Loop(l, S) EXCEPT !.back = b]
<1>1. r \in Rec /\ r.at = l /\ r.todo = S /\ r.cur = {} /\ r.back = b
  BY LoopIs DEF Rec
<1> DEFINE q == Loop(l, S)
<1>2. q \in Rec /\ q.at = l /\ q.todo = S /\ q.cur = {} /\ q.back = "off" BY LoopIs
<1> HIDE DEF r, q
<1>3. Move(t, r) => Lands(t, r.at, r.todo, r.cur, r.back) BY <1>1, Landing
<1>4. Move(t, q) => Lands(t, q.at, q.todo, q.cur, q.back) BY <1>2, Landing
<1>5. Move(t, r) => Lands(t, l, S, {}, b) BY <1>1, <1>3
<1>6. Move(t, q) => Lands(t, l, S, {}, "off") BY <1>2, <1>4
<1> QED BY <1>5, <1>6 DEF r, q

LEMMA AtLands ==
  ASSUME TypeOK, NEW t \in Threads, NEW l \in Labels \ Loops, NEW b \in Backs
  PROVE  /\ Move(t, At(l)) => Lands(t, l, {}, {}, "off")
         /\ Move(t, [At(l) EXCEPT !.back = b]) => Lands(t, l, {}, {}, b)
         /\ Move(t, None) => Lands(t, "off", {}, {}, "off")
<1> DEFINE r == [At(l) EXCEPT !.back = b]
<1>1. r \in Rec /\ r.at = l /\ r.todo = {} /\ r.cur = {} /\ r.back = b
  BY RestIs DEF Rec
<1> DEFINE q == At(l)
<1>2. q \in Rec /\ q.at = l /\ q.todo = {} /\ q.cur = {} /\ q.back = "off" BY RestIs
<1>3. Move(t, None) => Lands(t, "off", {}, {}, "off") BY RestIs, Landing
<1> HIDE DEF r, q
<1>4. Move(t, r) => Lands(t, r.at, r.todo, r.cur, r.back) BY <1>1, Landing
<1>5. Move(t, q) => Lands(t, q.at, q.todo, q.cur, q.back) BY <1>2, Landing
<1>6. Move(t, r) => Lands(t, l, {}, {}, b) BY <1>1, <1>4
<1>7. Move(t, q) => Lands(t, l, {}, {}, "off") BY <1>2, <1>5
<1> QED BY <1>3, <1>6, <1>7 DEF r, q

-----------------------------------------------------------------------------
(* What each step does to the threads *)

LEMMA StartSweepLands ==
  ASSUME TypeOK, NEW t \in Threads, NEW S \in SUBSET Folders, NEW b \in Backs,
         StartSweep(t, S, b)
  PROVE  LET todo == IF Halted THEN {} ELSE (S \cap known) \ (latched \cup half \cup running)
         IN /\ todo \in SUBSET Folders
            /\ Lands(t, "sweeping", todo, {}, b)
            /\ rushed' = IF Halted \/ t = Worker THEN rushed
                         ELSE rushed \cup (todo \cap Verifying)
<1> DEFINE todo == IF Halted THEN {} ELSE (S \cap known) \ (latched \cup half \cup running)
<1>1. todo \in SUBSET Folders OBVIOUS
<1>2. /\ Move(t, [Loop("sweeping", todo) EXCEPT !.back = b])
      /\ rushed' = IF Halted \/ t = Worker THEN rushed ELSE rushed \cup (todo \cap Verifying)
  BY DEF StartSweep
<1> HIDE DEF todo
<1>3. Lands(t, "sweeping", todo, {}, b) BY <1>1, <1>2, LoopLands, LabelsAre
<1> QED BY <1>1, <1>2, <1>3 DEF todo

LEMMA SweepLands ==
  ASSUME TypeOK, NEW t \in Threads, Sweep(t)
  PROVE  \E S \in SUBSET Folders :
           /\ thread[t].back = "off" /\ ~adopted => S = {}
           /\ LET todo == IF Halted THEN {} ELSE (S \cap known) \ (latched \cup half \cup running)
              IN /\ todo \in SUBSET Folders
                 /\ Lands(t, "sweeping", todo, {}, thread[t].back)
                 /\ rushed' = IF Halted \/ t = Worker THEN rushed
                              ELSE rushed \cup (todo \cap Verifying)
<1> DEFINE S == IF thread[t].back = "off" THEN Adopted ELSE Folders
<1>1. S \in SUBSET Folders BY DEF Adopted
<1>2. thread[t].back = "off" /\ ~adopted => S = {} BY DEF Adopted
<1>3. StartSweep(t, S, thread[t].back) BY DEF Sweep
<1>4. thread[t].back \in Backs BY DEF TypeOK, Rec, Backs
<1> HIDE DEF S
<1> QED BY <1>1, <1>2, <1>3, <1>4, StartSweepLands

LEMMA ReleaseLands ==
  ASSUME TypeOK, NEW t \in Threads, NEW f \in Folders, Release(t, f)
  PROVE  IF Halted THEN Lands(t, "sweeping", thread[t].todo \ {f}, thread[t].cur, thread[t].back)
         ELSE Lands(t, "release", thread[t].todo \ {f}, {f}, thread[t].back)
<1>1. thread[t].todo \ {f} \in SUBSET Folders BY DEF TypeOK, Rec
<1>2. Halted => Move(t, [thread[t] EXCEPT !.todo = thread[t].todo \ {f}]) BY DEF Release, Drop
<1>3. ~Halted => Take(t, "release", f) BY DEF Release
<1> QED BY <1>1, <1>2, <1>3, DropLands, TakeLands, LabelsAre DEF Release

LEMMA UnpausedLands ==
  ASSUME TypeOK, NEW t \in Threads, Unpaused(t)
  PROVE  /\ thread[t].at = "release" => Lands(t, "sweeping", thread[t].todo, {}, thread[t].back)
         /\ thread[t].at = "retry" => Lands(t, "turns", thread[t].todo, {}, thread[t].back)
         /\ thread[t].at = "accept" => Lands(t, "assert", thread[t].todo, thread[t].cur, thread[t].back)
         /\ thread[t].at = "turn" => Lands(t, "check", thread[t].todo, thread[t].cur, thread[t].back)
BY BackLands, GotoLands, AfterIs, LabelsAre DEF Unpaused

LEMMA UnpauseFailsLands ==
  ASSUME TypeOK, NEW t \in Threads, UnpauseFails(t)
  PROVE  IF thread[t].at = "release" THEN Lands(t, "sweeping", thread[t].todo, {}, thread[t].back)
         ELSE Lands(t, "turns", thread[t].todo, {}, thread[t].back)
BY BackLands, LabelsAre DEF UnpauseFails

LEMMA VerifyLands ==
  ASSUME TypeOK, NEW t \in Threads, NEW f \in Folders, Verify(t, f)
  PROVE  IF t = Worker /\ stop THEN Lands(t, "verify", {}, thread[t].cur, thread[t].back)
         ELSE Lands(t, "verify", thread[t].todo \ {f}, thread[t].cur, thread[t].back)
<1>1. thread[t].todo \ {f} \in SUBSET Folders BY DEF TypeOK, Rec
<1>2. t = Worker /\ stop => Move(t, [thread[t] EXCEPT !.todo = {}]) BY DEF Verify
<1>3. ~(t = Worker /\ stop) => Move(t, [thread[t] EXCEPT !.todo = thread[t].todo \ {f}])
  BY DEF Verify, Drop
<1> QED BY <1>1, <1>2, <1>3, DropLands DEF Verify

LEMMA VerifyFailsLands ==
  ASSUME TypeOK, NEW t \in Threads, NEW f \in Folders, VerifyFails(t, f)
  PROVE  Lands(t, "verify", thread[t].todo \ {f}, thread[t].cur, thread[t].back)
<1>1. thread[t].todo \ {f} \in SUBSET Folders BY DEF TypeOK, Rec
<1>2. Move(t, [thread[t] EXCEPT !.todo = thread[t].todo \ {f}]) BY DEF VerifyFails, Drop
<1> QED BY <1>1, <1>2, DropLands DEF VerifyFails

LEMMA AdoptLands ==
  ASSUME TypeOK, Adopt
  PROVE  Lands(Worker, "verify", Folders, {}, "turns")
BY LoopLands, Distinct, LabelsAre DEF Adopt, Backs

LEMMA StandsLands ==
  ASSUME TypeOK, Stands
  PROVE  IF stop THEN Lands(Worker, "off", {}, {}, "off") ELSE Lands(Worker, "parked", {}, {}, "off")
BY AtLands, Distinct, LabelsAre DEF Stands, Backs, Loops

LEMMA UnparkLands ==
  ASSUME TypeOK, Unpark
  PROVE  Lands(Worker, "adopt", {}, {}, "off")
BY AtLands, Distinct, LabelsAre DEF Unpark, Backs, Loops

LEMMA TurnLands ==
  ASSUME TypeOK, NEW f \in Folders, Turn(f)
  PROVE  IF f \in known THEN Lands(Worker, "assert", thread[Worker].todo \ {f}, {f}, thread[Worker].back)
         ELSE Lands(Worker, "offer", thread[Worker].todo \ {f}, {f}, thread[Worker].back)
BY TakeLands, Distinct, LabelsAre DEF Turn

LEMMA PassEndsLands ==
  ASSUME TypeOK, PassEnds
  PROVE  Lands(Worker, "sweep", {}, {}, "turns")
BY AtLands, Distinct, LabelsAre DEF PassEnds, Backs, Loops

LEMMA OfferLands ==
  ASSUME TypeOK, Offer
  PROVE  Lands(Worker, "ignores", thread[Worker].todo, thread[Worker].cur, thread[Worker].back)
BY GotoLands, Distinct, LabelsAre DEF Offer

LEMMA SetIgnoresLands ==
  ASSUME TypeOK, SetIgnores
  PROVE  Lands(Worker, "accepted", thread[Worker].todo, thread[Worker].cur, thread[Worker].back)
BY GotoLands, Distinct, LabelsAre DEF SetIgnores

LEMMA AcceptFailsLands ==
  ASSUME TypeOK, AcceptFails
  PROVE  Lands(Worker, "turns", thread[Worker].todo, {}, thread[Worker].back)
BY BackLands, Distinct, LabelsAre DEF AcceptFails

LEMMA AcceptedLands ==
  ASSUME TypeOK, Accepted
  PROVE  IF Halted THEN Lands(Worker, "assert", thread[Worker].todo, thread[Worker].cur, thread[Worker].back)
         ELSE Lands(Worker, "accept", thread[Worker].todo, thread[Worker].cur, thread[Worker].back)
BY GotoLands, Distinct, LabelsAre DEF Accepted

LEMMA ReassertLands ==
  ASSUME TypeOK, Reassert
  PROVE  Lands(Worker, "unpause", thread[Worker].todo, thread[Worker].cur, thread[Worker].back)
BY GotoLands, Distinct, LabelsAre DEF Reassert

LEMMA ReassertFailsLands ==
  ASSUME TypeOK, ReassertFails
  PROVE  Lands(Worker, "turns", thread[Worker].todo, {}, thread[Worker].back)
BY BackLands, Distinct, LabelsAre DEF ReassertFails

LEMMA UnpauseLands ==
  ASSUME TypeOK, Unpause
  PROVE  IF stop \/ ~resume \/ Halted THEN Lands(Worker, "turns", thread[Worker].todo, {}, thread[Worker].back)
         ELSE Lands(Worker, "turn", thread[Worker].todo, thread[Worker].cur, thread[Worker].back)
BY BackLands, GotoLands, Distinct, LabelsAre DEF Unpause

LEMMA CheckLands ==
  ASSUME TypeOK, Check
  PROVE  IF Halted \/ thread[Worker].cur \subseteq running THEN Lands(Worker, "turns", thread[Worker].todo, {}, thread[Worker].back)
         ELSE Lands(Worker, "retry", thread[Worker].todo, thread[Worker].cur, thread[Worker].back)
BY BackLands, GotoLands, Distinct, LabelsAre DEF Check

LEMMA PressStopLands ==
  ASSUME TypeOK, NEW c \in Callers, PressStop(c)
  PROVE  Lands(c, "joining", thread[c].todo, thread[c].cur, thread[c].back)
BY GotoLands, Distinct, LabelsAre DEF PressStop

LEMMA HaltAllLands ==
  ASSUME TypeOK, NEW c \in Callers, HaltAll(c)
  PROVE  Lands(c, "joining", thread[c].todo, thread[c].cur, thread[c].back)
BY GotoLands, Distinct, LabelsAre DEF HaltAll

LEMMA QuitLands ==
  ASSUME TypeOK, NEW c \in Callers, Quit(c)
  PROVE  Lands(c, "joining", thread[c].todo, thread[c].cur, thread[c].back)
BY GotoLands, Distinct, LabelsAre DEF Quit

LEMMA JoinedLands ==
  ASSUME TypeOK, NEW c \in Callers, Joined(c)
  PROVE  \E S \in SUBSET Folders :
           /\ ~adopted => S = {}
           /\ LET todo == IF Halted THEN {} ELSE (S \cap known) \ (latched \cup half \cup running)
              IN /\ todo \in SUBSET Folders
                 /\ Lands(c, "sweeping", todo, {}, "down")
                 /\ rushed' = IF Halted THEN rushed ELSE rushed \cup (todo \cap Verifying)
<1>1. Adopted \in SUBSET Folders /\ (~adopted => Adopted = {}) BY DEF Adopted
<1>2. StartSweep(c, Adopted, "down") BY DEF Joined
<1>3. "down" \in Backs BY DEF Backs
<1> QED BY <1>1, <1>2, <1>3, StartSweepLands, Distinct

LEMMA LanesDownLands ==
  ASSUME TypeOK, NEW c \in Callers, LanesDown(c)
  PROVE  IF adopted THEN Lands(c, "pausing", known, {}, "off")
         ELSE Lands(c, "holding", running, {}, "off")
<1>1. known \in SUBSET Folders /\ running \in SUBSET Folders BY DEF TypeOK
<1>2. IF adopted THEN Move(c, Loop("pausing", known)) ELSE Move(c, Loop("holding", running))
  BY DEF LanesDown
<1>3. "off" \in Backs BY DEF Backs
<1> QED BY <1>1, <1>2, <1>3, LoopLands, Distinct, LabelsAre

LEMMA PauseFolderLands ==
  ASSUME TypeOK, NEW c \in Callers, NEW f \in Folders, PauseFolder(c, f)
  PROVE  Lands(c, "pausing", thread[c].todo \ {f}, thread[c].cur, thread[c].back)
<1>1. thread[c].todo \ {f} \in SUBSET Folders BY Distinct DEF TypeOK, Rec
<1>2. Move(c, [thread[c] EXCEPT !.todo = thread[c].todo \ {f}]) BY DEF PauseFolder, Drop
<1> QED BY <1>1, <1>2, DropLands, Distinct DEF PauseFolder

LEMMA HoldNextLands ==
  ASSUME TypeOK, NEW t \in Threads, NEW f \in Folders, HoldNext(t, f)
  PROVE  IF Halted THEN Lands(t, "pause", thread[t].todo \ {f}, {f}, thread[t].back)
         ELSE Lands(t, "off", {}, {}, "off")
<1>1. Halted => Take(t, "pause", f) BY DEF HoldNext
<1>2. ~Halted => Move(t, None) BY DEF HoldNext
<1>3. "pause" \in Labels \ Loops /\ "off" \in Backs BY LabelsAre DEF Loops, Backs
<1>4. Halted => Lands(t, "pause", thread[t].todo \ {f}, {f}, thread[t].back)
  BY <1>1, <1>3, TakeLands
<1>5. ~Halted => Lands(t, "off", {}, {}, "off")
  BY <1>2, <1>3, AtLands
<1> QED BY <1>4, <1>5

LEMMA HeldLands ==
  ASSUME TypeOK, NEW t \in Threads, Held(t)
  PROVE  Lands(t, "holding", thread[t].todo, {}, thread[t].back)
BY BackLands, LabelsAre DEF Held

LEMMA LetGoLands ==
  ASSUME TypeOK, NEW c \in Callers, LetGo(c)
  PROVE  IF adopted THEN Lands(c, "sweep", {}, {}, "gate") ELSE Lands(c, "verify", Folders, {}, "gate")
<1>1. /\ adopted => Move(c, [Loop("sweep", {}) EXCEPT !.back = "gate"])
      /\ ~adopted => Move(c, [Loop("verify", Folders) EXCEPT !.back = "gate"])
  BY DEF LetGo
<1>2. "gate" \in Backs /\ "sweep" \in Labels /\ "verify" \in Labels BY LabelsAre DEF Backs
<1> QED BY <1>1, <1>2, LoopLands, Distinct

LEMMA ReportLands ==
  ASSUME TypeOK, NEW c \in Callers, Report(c)
  PROVE  Lands(c, "reply", thread[c].todo, thread[c].cur, thread[c].back)
BY GotoLands, Distinct, LabelsAre DEF Report

LEMMA TakeReplyLands ==
  ASSUME TypeOK, NEW c \in Callers, TakeReply(c)
  PROVE  CASE errand[c] = "fleet" /\ halt # "fleet" -> Lands(c, "halting", thread[c].todo, thread[c].cur, thread[c].back)
           [] errand[c] = "go" /\ halt = "fleet" -> Lands(c, "lifting", thread[c].todo, thread[c].cur, thread[c].back)
           [] OTHER -> Lands(c, "off", thread[c].todo, thread[c].cur, thread[c].back)
BY GotoLands, Distinct, LabelsAre DEF TakeReply

LEMMA TogglePauseLands ==
  ASSUME TypeOK, NEW c \in Callers, TogglePause(c)
  PROVE  IF paused THEN thread' = thread ELSE Lands(c, "sweep", {}, {}, "off")
BY AtLands, Distinct, LabelsAre DEF TogglePause, Backs, Loops

LEMMA GateLands ==
  ASSUME TypeOK, NEW c \in Callers, Gate(c)
  PROVE  /\ thread' \in [Threads -> Rec]
         /\ \A u \in Threads \ {c, Repause} : thread'[u] = thread[u]
         /\ thread'[c] = IF paused \/ Halted THEN None ELSE At("start")
         /\ IF ~Halted \/ thread[Repause] # None THEN thread'[Repause] = thread[Repause]
            ELSE IF running = {} THEN thread'[Repause] = None
            ELSE /\ thread'[Repause].at = "holding" /\ thread'[Repause].todo = running
<1> DEFINE q == Loop("holding", running)
<1>1. q \in Rec /\ q.at = "holding" /\ q.todo = running BY LoopIs, LabelsAre DEF TypeOK
<1>2. thread' = [thread EXCEPT
        ![c] = IF paused \/ Halted THEN None ELSE At("start"),
        ![Repause] = IF Halted /\ @ = None THEN Onward(q) ELSE @]
  BY DEF Gate
<1> HIDE DEF q
<1>3. Onward(q) \in Rec /\ IF running = {} THEN Onward(q) = None ELSE Onward(q) = q
  BY <1>1, OnwardIs
<1>4. None \in Rec /\ At("start") \in Rec BY RestIs, LabelsAre
<1>5. thread \in [Threads -> Rec] BY DEF TypeOK, Rec, Backs
<1> QED BY <1>1, <1>2, <1>3, <1>4, <1>5, Distinct

LEMMA StartLands ==
  ASSUME TypeOK, NEW c \in Callers, Start(c)
  PROVE  /\ thread' \in [Threads -> Rec]
         /\ \A u \in Threads \ {c, Worker} : thread'[u] = thread[u]
         /\ thread'[c] = None
         /\ thread'[Worker] = IF Alive THEN thread[Worker] ELSE At("adopt")
<1>1. None \in Rec /\ At("adopt") \in Rec /\ Onward(None) = None BY RestIs, LabelsAre, OnwardIs
<1>2. thread \in [Threads -> Rec] BY DEF TypeOK, Rec, Backs
<1>3. thread' = IF Alive THEN [thread EXCEPT ![c] = None]
                ELSE [thread EXCEPT ![c] = None, ![Worker] = At("adopt")]
  BY <1>1 DEF Start, Move
<1> QED BY <1>1, <1>2, <1>3, Distinct

LEMMA RelaunchLands ==
  ASSUME TypeOK, Relaunch
  PROVE  /\ thread' \in [Threads -> Rec] /\ errand' \in [Callers -> {"none", "boot"}]
         /\ \E c \in Callers :
              /\ thread'[c] = At("gate") /\ errand'[c] = "boot"
              /\ \A t \in Threads \ {c} : thread'[t] = None
              /\ \A d \in Callers \ {c} : errand'[d] = "none"
<1>1. PICK c \in Callers :
        /\ thread' = [t \in Threads |-> IF t = c THEN At("gate") ELSE None]
        /\ errand' = [d \in Callers |-> IF d = c THEN "boot" ELSE "none"]
  BY DEF Relaunch
<1>2. None \in Rec /\ At("gate") \in Rec BY RestIs, LabelsAre
<1> QED BY <1>1, <1>2, Distinct

-----------------------------------------------------------------------------
(* Types *)

\* The process gone and back, by a quit or a crash.
Restarted == Relaunch /\ (UNCHANGED left \/ Spend("restarts"))

LEMMA Actions ==
  Next =>
    \/ \E t \in Threads :
         Sweep(t) \/ Unpaused(t) \/ UnpauseFails(t) \/ Held(t)
    \/ \E t \in Threads, f \in Folders :
         Release(t, f) \/ Verify(t, f) \/ VerifyFails(t, f) \/ HoldNext(t, f)
    \/ Adopt \/ Stands \/ Unpark \/ PassEnds \/ Offer \/ SetIgnores \/ AcceptFails \/ Accepted \/ Reassert \/ ReassertFails \/ Unpause \/ Check \/ SetFlag \/ Restarted
    \/ \E f \in Folders :
         Turn(f)
    \/ \E c \in Callers :
         PressStop(c) \/ HaltAll(c) \/ Quit(c) \/ Joined(c) \/ LanesDown(c) \/ PressClear(c) \/ Gate(c) \/ Start(c) \/ TogglePause(c) \/ Report(c) \/ TakeReply(c) \/ Lift(c)
    \/ \E c \in Callers, f \in Folders :
         PauseFolder(c, f)
BY Distinct DEF Next, Sequence, Folderwise, Holding, Carry, Press, Crash, Exit, Restarted

Flags ==
  /\ flag \in BOOLEAN /\ paused \in BOOLEAN /\ armed \in BOOLEAN /\ stop \in BOOLEAN
  /\ resume \in BOOLEAN /\ adopted \in BOOLEAN /\ late \in BOOLEAN
  /\ halt \in {"off", "local", "fleet"}
Records ==
  /\ latched \subseteq Folders /\ half \subseteq Folders /\ known \subseteq Folders
  /\ excused \subseteq Folders /\ rushed \subseteq Folders
  /\ running \subseteq known /\ filtered \subseteq known
Errands == errand \in [Callers -> {"none", "boot", "fleet", "go", "quit"}]
Bounds  == left \in [{"presses", "orders", "restarts", "failures"} -> Nat]

\* The folder of a turn exists from its creation on.
InHand == thread[Worker].at \in {"ignores", "accepted", "accept", "assert"} =>
            thread[Worker].cur \subseteq known

LEMMA TypesAre ==
  /\ TypeOK <=> Flags /\ Records /\ thread \in [Threads -> Rec] /\ Errands /\ Bounds
  /\ (TypeOK <=> Flags /\ Records /\ thread \in [Threads -> Rec] /\ Errands /\ Bounds)'
BY DEF TypeOK, Flags, Records, Errands, Bounds, Rec, Backs

LEMMA SetsAre ==
  ASSUME TypeOK, NEW t \in Threads
  PROVE  /\ thread[t] \in Rec
         /\ thread[t].at \in Labels /\ thread[t].back \in Backs
         /\ thread[t].cur \subseteq Folders /\ thread[t].todo \subseteq Folders
BY TypesAre DEF Rec

LEMMA Counted ==
  ASSUME TypeOK, NEW k \in {"presses", "orders", "restarts", "failures"}, Spend(k)
  PROVE  Bounds'
BY TypesAre DEF Bounds, Spend

LEMMA InFlight ==
  ASSUME TypeOK
  PROVE  Unpausing \subseteq Folders /\ Verifying \subseteq Folders
BY SetsAre, Distinct DEF Unpausing, Verifying

LEMMA StartsTyped == Init => TypeOK
<1> SUFFICES ASSUME Init PROVE TypeOK OBVIOUS
<1>1. Flags /\ Records BY InheritedAssumption DEF Init, Flags, Records
<1>2. thread \in [Threads -> Rec] /\ Errands
  BY RestIs, LabelsAre, Distinct DEF Init, Errands
<1>3. Bounds BY BoundsAssumption DEF Init, Bounds
<1> QED BY <1>1, <1>2, <1>3, TypesAre

LEMMA TypeKept ==
  TypeOK /\ InHand /\ [Next]_vars => TypeOK'
<1> SUFFICES ASSUME TypeOK, InHand, [Next]_vars PROVE TypeOK' OBVIOUS
<1>1. ASSUME NEW t \in Threads, Sweep(t) PROVE TypeOK'
  <2>1. Flags' /\ Errands' BY <1>1, TypesAre DEF Sweep, Flags, Errands, halting, lanes, Engage
  <2>2. Records'
    BY <1>1, TypesAre, InFlight, SweepLands DEF Sweep, Records, halting, filters, syncthing,
      Engage
  <2>3. thread' \in [Threads -> Rec] BY <1>1, TypesAre, SweepLands DEF Sweep, Lands
  <2>4. Bounds' BY <1>1, TypesAre DEF Sweep, Bounds
  <2> QED BY <2>1, <2>2, <2>3, <2>4, TypesAre
<1>2. ASSUME NEW t \in Threads, NEW f \in Folders, Release(t, f) PROVE TypeOK'
  BY <1>2, ReleaseLands, Distinct DEF Release, TypeOK, Lands, Rec, Backs, Spend, halting, lanes,
    filters, syncthing, Engage
<1>3. ASSUME NEW t \in Threads, Unpaused(t) PROVE TypeOK'
  <2>1. Flags' /\ Errands' BY <1>3, TypesAre DEF Unpaused, Flags, Errands, halting, lanes, Engage
  <2>2. Records'
    BY <1>3, TypesAre, InFlight, SetsAre DEF Unpaused, Records, halting, filters, syncthing,
      Engage
  <2>3. thread' \in [Threads -> Rec] BY <1>3, TypesAre, UnpausedLands, AfterIs DEF Unpaused, Lands
  <2>4. Bounds' BY <1>3, TypesAre DEF Unpaused, Bounds
  <2> QED BY <2>1, <2>2, <2>3, <2>4, TypesAre
<1>4. ASSUME NEW t \in Threads, UnpauseFails(t) PROVE TypeOK'
  <2>1. Flags' /\ Errands'
    BY <1>4, TypesAre DEF UnpauseFails, Flags, Errands, halting, lanes, Engage
  <2>2. Records'
    BY <1>4, TypesAre, InFlight, SetsAre DEF UnpauseFails, Records, halting, filters, syncthing,
      Engage
  <2>3. thread' \in [Threads -> Rec] BY <1>4, TypesAre, UnpauseFailsLands DEF UnpauseFails, Lands
  <2>4. Bounds' BY <1>4, TypesAre, Counted DEF UnpauseFails, Bounds
  <2> QED BY <2>1, <2>2, <2>3, <2>4, TypesAre
<1>5. ASSUME NEW t \in Threads, NEW f \in Folders, Verify(t, f) PROVE TypeOK'
  <2>1. Flags' /\ Errands' BY <1>5, TypesAre DEF Verify, Flags, Errands, halting, lanes, Engage
  <2>2. Records'
    BY <1>5, TypesAre, InFlight, SetsAre DEF Verify, Records, halting, filters, syncthing, Engage
  <2>3. thread' \in [Threads -> Rec] BY <1>5, TypesAre, VerifyLands DEF Verify, Lands
  <2>4. Bounds' BY <1>5, TypesAre DEF Verify, Bounds
  <2> QED BY <2>1, <2>2, <2>3, <2>4, TypesAre
<1>6. ASSUME NEW t \in Threads, NEW f \in Folders, VerifyFails(t, f) PROVE TypeOK'
  BY <1>6, VerifyFailsLands, Distinct DEF VerifyFails, TypeOK, Lands, Rec, Backs, Spend,
    halting, lanes, filters, syncthing, Engage
<1>7. ASSUME Adopt PROVE TypeOK'
  BY <1>7, AdoptLands, Distinct DEF Adopt, TypeOK, Lands, Rec, Backs, Spend, halting, lanes,
    filters, syncthing, Engage
<1>8. ASSUME Stands PROVE TypeOK'
  BY <1>8, StandsLands, Distinct DEF Stands, TypeOK, Lands, Rec, Backs, Spend, halting, lanes,
    filters, syncthing, Engage
<1>9. ASSUME Unpark PROVE TypeOK'
  BY <1>9, UnparkLands, Distinct DEF Unpark, TypeOK, Lands, Rec, Backs, Spend, halting, lanes,
    filters, syncthing, Engage
<1>10. ASSUME NEW f \in Folders, Turn(f) PROVE TypeOK'
  BY <1>10, TurnLands, Distinct DEF Turn, TypeOK, Lands, Rec, Backs, Spend, halting, lanes,
    filters, syncthing, Engage
<1>11. ASSUME PassEnds PROVE TypeOK'
  BY <1>11, PassEndsLands, Distinct DEF PassEnds, TypeOK, Lands, Rec, Backs, Spend, halting,
    lanes, filters, syncthing, Engage
<1>12. ASSUME Offer PROVE TypeOK'
  BY <1>12, OfferLands, Distinct DEF Offer, TypeOK, Lands, Rec, Backs, Spend, halting, lanes,
    filters, syncthing, Engage
<1>13. ASSUME SetIgnores PROVE TypeOK'
  <2>1. Flags' /\ Errands' BY <1>13, TypesAre DEF SetIgnores, Flags, Errands, halting, lanes, Engage
  <2>2. Records'
    BY <1>13, TypesAre, InFlight, SetsAre, Distinct DEF SetIgnores, Records, InHand, halting,
      filters, syncthing, Engage
  <2>3. thread' \in [Threads -> Rec] BY <1>13, TypesAre, SetIgnoresLands DEF SetIgnores, Lands
  <2>4. Bounds' BY <1>13, TypesAre DEF SetIgnores, Bounds
  <2> QED BY <2>1, <2>2, <2>3, <2>4, TypesAre
<1>14. ASSUME AcceptFails PROVE TypeOK'
  <2>1. Flags' /\ Errands'
    BY <1>14, TypesAre DEF AcceptFails, Flags, Errands, halting, lanes, Engage
  <2>2. Records'
    BY <1>14, TypesAre, InFlight, SetsAre, Distinct DEF AcceptFails, Records, InHand, halting,
      filters, syncthing, Engage
  <2>3. thread' \in [Threads -> Rec] BY <1>14, TypesAre, AcceptFailsLands DEF AcceptFails, Lands
  <2>4. Bounds' BY <1>14, TypesAre, Counted DEF AcceptFails, Bounds
  <2> QED BY <2>1, <2>2, <2>3, <2>4, TypesAre
<1>15. ASSUME Accepted PROVE TypeOK'
  BY <1>15, AcceptedLands, Distinct DEF Accepted, TypeOK, Lands, Rec, Backs, Spend, halting,
    lanes, filters, syncthing, Engage
<1>16. ASSUME Reassert PROVE TypeOK'
  <2>1. Flags' /\ Errands' BY <1>16, TypesAre DEF Reassert, Flags, Errands, halting, lanes, Engage
  <2>2. Records'
    BY <1>16, TypesAre, InFlight, SetsAre, Distinct DEF Reassert, Records, InHand, halting,
      filters, syncthing, Engage
  <2>3. thread' \in [Threads -> Rec] BY <1>16, TypesAre, ReassertLands DEF Reassert, Lands
  <2>4. Bounds' BY <1>16, TypesAre DEF Reassert, Bounds
  <2> QED BY <2>1, <2>2, <2>3, <2>4, TypesAre
<1>17. ASSUME ReassertFails PROVE TypeOK'
  BY <1>17, ReassertFailsLands, Distinct DEF ReassertFails, TypeOK, Lands, Rec, Backs, Spend,
    halting, lanes, filters, syncthing, Engage
<1>18. ASSUME Unpause PROVE TypeOK'
  BY <1>18, UnpauseLands, Distinct DEF Unpause, TypeOK, Lands, Rec, Backs, Spend, halting,
    lanes, filters, syncthing, Engage
<1>19. ASSUME Check PROVE TypeOK'
  BY <1>19, CheckLands, Distinct DEF Check, TypeOK, Lands, Rec, Backs, Spend, halting, lanes,
    filters, syncthing, Engage
<1>20. ASSUME NEW c \in Callers, PressStop(c) PROVE TypeOK'
  <2>1. Flags' /\ Errands' BY <1>20, TypesAre DEF PressStop, Flags, Errands, halting, lanes, Engage
  <2>2. Records'
    BY <1>20, TypesAre, InFlight DEF PressStop, Records, halting, filters, syncthing, Engage
  <2>3. thread' \in [Threads -> Rec] BY <1>20, TypesAre, PressStopLands DEF PressStop, Lands
  <2>4. Bounds' BY <1>20, TypesAre, Counted DEF PressStop, Bounds
  <2> QED BY <2>1, <2>2, <2>3, <2>4, TypesAre
<1>21. ASSUME NEW c \in Callers, HaltAll(c) PROVE TypeOK'
  <2>1. Flags' /\ Errands' BY <1>21, TypesAre DEF HaltAll, Flags, Errands, halting, lanes, Engage
  <2>2. Records'
    BY <1>21, TypesAre, InFlight DEF HaltAll, Records, halting, filters, syncthing, Engage
  <2>3. thread' \in [Threads -> Rec] BY <1>21, TypesAre, HaltAllLands DEF HaltAll, Lands
  <2>4. Bounds' BY <1>21, TypesAre DEF HaltAll, Bounds
  <2> QED BY <2>1, <2>2, <2>3, <2>4, TypesAre
<1>22. ASSUME NEW c \in Callers, Quit(c) PROVE TypeOK'
  <2>1. Flags' /\ Errands' BY <1>22, TypesAre DEF Quit, Flags, Errands, halting, lanes, Engage
  <2>2. Records' BY <1>22, TypesAre, InFlight DEF Quit, Records, halting, filters, syncthing, Engage
  <2>3. thread' \in [Threads -> Rec] BY <1>22, TypesAre, QuitLands DEF Quit, Lands
  <2>4. Bounds' BY <1>22, TypesAre, Counted DEF Quit, Bounds
  <2> QED BY <2>1, <2>2, <2>3, <2>4, TypesAre
<1>23. ASSUME NEW c \in Callers, Joined(c) PROVE TypeOK'
  BY <1>23, JoinedLands, Distinct DEF Joined, TypeOK, Lands, Rec, Backs, Spend, halting, lanes,
    filters, syncthing, Engage
<1>24. ASSUME NEW c \in Callers, LanesDown(c) PROVE TypeOK'
  BY <1>24, LanesDownLands, Distinct DEF LanesDown, TypeOK, Lands, Rec, Backs, Spend, halting,
    lanes, filters, syncthing, Engage
<1>25. ASSUME NEW c \in Callers, NEW f \in Folders, PauseFolder(c, f) PROVE TypeOK'
  BY <1>25, PauseFolderLands, Distinct DEF PauseFolder, TypeOK, Lands, Rec, Backs, Spend,
    halting, lanes, filters, syncthing, Engage
<1>26. ASSUME NEW t \in Threads, NEW f \in Folders, HoldNext(t, f) PROVE TypeOK'
  BY <1>26, HoldNextLands, Distinct DEF HoldNext, TypeOK, Lands, Rec, Backs, Spend, halting,
    lanes, filters, syncthing, Engage
<1>27. ASSUME NEW t \in Threads, Held(t) PROVE TypeOK'
  BY <1>27, HeldLands, Distinct DEF Held, TypeOK, Lands, Rec, Backs, Spend, halting, lanes,
    filters, syncthing, Engage
<1>28. ASSUME NEW c \in Callers, PressClear(c) PROVE TypeOK'
  BY <1>28, LetGoLands, Distinct DEF PressClear, TypeOK, Lands, Rec, Backs, Spend, halting,
    lanes, filters, syncthing, Engage
<1>29. ASSUME NEW c \in Callers, Gate(c) PROVE TypeOK'
  BY <1>29, GateLands, Distinct DEF Gate, TypeOK, Lands, Rec, Backs, Spend, halting, lanes,
    filters, syncthing, Engage
<1>30. ASSUME NEW c \in Callers, Start(c) PROVE TypeOK'
  BY <1>30, StartLands, Distinct DEF Start, TypeOK, Lands, Rec, Backs, Spend, halting, lanes,
    filters, syncthing, Engage
<1>31. ASSUME NEW c \in Callers, TogglePause(c) PROVE TypeOK'
  BY <1>31, TogglePauseLands, Distinct DEF TogglePause, TypeOK, Lands, Rec, Backs, Spend,
    halting, lanes, filters, syncthing, Engage
<1>32. ASSUME SetFlag PROVE TypeOK'
  BY <1>32, Distinct DEF SetFlag, TypeOK, Lands, Rec, Backs, Spend, halting, lanes, filters,
    syncthing, Engage
<1>33. ASSUME NEW c \in Callers, Report(c) PROVE TypeOK'
  BY <1>33, ReportLands, Distinct DEF Report, TypeOK, Lands, Rec, Backs, Spend, halting, lanes,
    filters, syncthing, Engage
<1>34. ASSUME NEW c \in Callers, TakeReply(c) PROVE TypeOK'
  <2>1. Flags' /\ Errands' BY <1>34, TypesAre DEF TakeReply, Flags, Errands, halting, lanes, Engage
  <2>2. Records'
    BY <1>34, TypesAre, InFlight DEF TakeReply, Records, halting, filters, syncthing, Engage
  <2>3. thread' \in [Threads -> Rec] BY <1>34, TypesAre, TakeReplyLands DEF TakeReply, Lands
  <2>4. Bounds' BY <1>34, TypesAre DEF TakeReply, Bounds
  <2> QED BY <2>1, <2>2, <2>3, <2>4, TypesAre
<1>35. ASSUME NEW c \in Callers, Lift(c) PROVE TypeOK'
  BY <1>35, LetGoLands, GotoLands, LabelsAre, Distinct DEF Lift, TypeOK, Lands, Rec, Backs,
    Spend, halting, lanes, filters, syncthing, Engage
<1>36. ASSUME Restarted PROVE TypeOK'
  <2>1. Flags' /\ Errands'
    BY <1>36, TypesAre DEF Restarted, Relaunch, Flags, Errands, halting, lanes, Engage
  <2>2. Records'
    BY <1>36, TypesAre, InFlight DEF Restarted, Relaunch, Records, halting, filters, syncthing,
      Engage
  <2>3. thread' \in [Threads -> Rec]
    BY <1>36, TypesAre, RelaunchLands DEF Restarted, Relaunch, Lands
  <2>4. Bounds' BY <1>36, TypesAre, Counted DEF Restarted, Relaunch, Bounds
  <2> QED BY <2>1, <2>2, <2>3, <2>4, TypesAre
<1>37. CASE UNCHANGED vars BY <1>37 DEF TypeOK, vars, halting, lanes, filters, syncthing
<1> QED BY <1>1, <1>2, <1>3, <1>4, <1>5, <1>6, <1>7, <1>8, <1>9, <1>10, <1>11, <1>12, <1>13,
  <1>14, <1>15, <1>16, <1>17, <1>18, <1>19, <1>20, <1>21, <1>22, <1>23, <1>24, <1>25, <1>26,
  <1>27, <1>28, <1>29, <1>30, <1>31, <1>32, <1>33, <1>34, <1>35, <1>36, <1>37, Actions

LEMMA InHandKept ==
  TypeOK /\ InHand /\ [Next]_vars => InHand'
<1> SUFFICES ASSUME TypeOK, InHand, [Next]_vars PROVE InHand' OBVIOUS
<1>1. ASSUME NEW t \in Threads, Sweep(t) PROVE InHand'
  BY <1>1, SweepLands, Distinct, SetsAre DEF Sweep, InHand, Lands, Loops, halting, lanes,
    filters, syncthing, Engage
<1>2. ASSUME NEW t \in Threads, NEW f \in Folders, Release(t, f) PROVE InHand'
  BY <1>2, ReleaseLands, Distinct, SetsAre, LabelsAre DEF Release, InHand, Lands, Loops,
    halting, lanes, filters, syncthing, Engage
<1>3. ASSUME NEW t \in Threads, Unpaused(t) PROVE InHand'
  BY <1>3, UnpausedLands, Distinct, SetsAre, AfterIs DEF Unpaused, InHand, Lands, Loops,
    halting, lanes, filters, syncthing, Engage
<1>4. ASSUME NEW t \in Threads, UnpauseFails(t) PROVE InHand'
  BY <1>4, UnpauseFailsLands, Distinct, SetsAre DEF UnpauseFails, InHand, Lands, Loops, halting,
    lanes, filters, syncthing, Engage
<1>5. ASSUME NEW t \in Threads, NEW f \in Folders, Verify(t, f) PROVE InHand'
  BY <1>5, VerifyLands, Distinct, SetsAre DEF Verify, InHand, Lands, Loops, halting, lanes,
    filters, syncthing, Engage
<1>6. ASSUME NEW t \in Threads, NEW f \in Folders, VerifyFails(t, f) PROVE InHand'
  BY <1>6, VerifyFailsLands, Distinct, SetsAre DEF VerifyFails, InHand, Lands, Loops, halting,
    lanes, filters, syncthing, Engage
<1>7. ASSUME Adopt PROVE InHand'
  BY <1>7, AdoptLands, Distinct, SetsAre DEF Adopt, InHand, Lands, Loops, halting, lanes,
    filters, syncthing, Engage
<1>8. ASSUME Stands PROVE InHand'
  BY <1>8, StandsLands, Distinct, SetsAre DEF Stands, InHand, Lands, Loops, halting, lanes,
    filters, syncthing, Engage
<1>9. ASSUME Unpark PROVE InHand'
  BY <1>9, UnparkLands, Distinct, SetsAre DEF Unpark, InHand, Lands, Loops, halting, lanes,
    filters, syncthing, Engage
<1>10. ASSUME NEW f \in Folders, Turn(f) PROVE InHand'
  BY <1>10, TurnLands, Distinct, SetsAre DEF Turn, InHand, Lands, Loops, halting, lanes,
    filters, syncthing, Engage
<1>11. ASSUME PassEnds PROVE InHand'
  BY <1>11, PassEndsLands, Distinct, SetsAre DEF PassEnds, InHand, Lands, Loops, halting, lanes,
    filters, syncthing, Engage
<1>12. ASSUME Offer PROVE InHand'
  BY <1>12, OfferLands, Distinct, SetsAre DEF Offer, InHand, Lands, Loops, halting, lanes,
    filters, syncthing, Engage
<1>13. ASSUME SetIgnores PROVE InHand'
  BY <1>13, SetIgnoresLands, Distinct, SetsAre DEF SetIgnores, InHand, Lands, Loops, halting,
    lanes, filters, syncthing, Engage
<1>14. ASSUME AcceptFails PROVE InHand'
  BY <1>14, AcceptFailsLands, Distinct, SetsAre DEF AcceptFails, InHand, Lands, Loops, halting,
    lanes, filters, syncthing, Engage
<1>15. ASSUME Accepted PROVE InHand'
  BY <1>15, AcceptedLands, Distinct, SetsAre DEF Accepted, InHand, Lands, Loops, halting, lanes,
    filters, syncthing, Engage
<1>16. ASSUME Reassert PROVE InHand'
  BY <1>16, ReassertLands, Distinct, SetsAre DEF Reassert, InHand, Lands, Loops, halting, lanes,
    filters, syncthing, Engage
<1>17. ASSUME ReassertFails PROVE InHand'
  BY <1>17, ReassertFailsLands, Distinct, SetsAre DEF ReassertFails, InHand, Lands, Loops,
    halting, lanes, filters, syncthing, Engage
<1>18. ASSUME Unpause PROVE InHand'
  BY <1>18, UnpauseLands, Distinct, SetsAre DEF Unpause, InHand, Lands, Loops, halting, lanes,
    filters, syncthing, Engage
<1>19. ASSUME Check PROVE InHand'
  BY <1>19, CheckLands, Distinct, SetsAre DEF Check, InHand, Lands, Loops, halting, lanes,
    filters, syncthing, Engage
<1>20. ASSUME NEW c \in Callers, PressStop(c) PROVE InHand'
  BY <1>20, PressStopLands, Distinct, SetsAre DEF PressStop, InHand, Lands, Loops, halting,
    lanes, filters, syncthing, Engage
<1>21. ASSUME NEW c \in Callers, HaltAll(c) PROVE InHand'
  BY <1>21, HaltAllLands, Distinct, SetsAre DEF HaltAll, InHand, Lands, Loops, halting, lanes,
    filters, syncthing, Engage
<1>22. ASSUME NEW c \in Callers, Quit(c) PROVE InHand'
  BY <1>22, QuitLands, Distinct, SetsAre DEF Quit, InHand, Lands, Loops, halting, lanes,
    filters, syncthing, Engage
<1>23. ASSUME NEW c \in Callers, Joined(c) PROVE InHand'
  BY <1>23, JoinedLands, Distinct, SetsAre DEF Joined, InHand, Lands, Loops, halting, lanes,
    filters, syncthing, Engage
<1>24. ASSUME NEW c \in Callers, LanesDown(c) PROVE InHand'
  BY <1>24, LanesDownLands, Distinct, SetsAre DEF LanesDown, InHand, Lands, Loops, halting,
    lanes, filters, syncthing, Engage
<1>25. ASSUME NEW c \in Callers, NEW f \in Folders, PauseFolder(c, f) PROVE InHand'
  BY <1>25, PauseFolderLands, Distinct, SetsAre DEF PauseFolder, InHand, Lands, Loops, halting,
    lanes, filters, syncthing, Engage
<1>26. ASSUME NEW t \in Threads, NEW f \in Folders, HoldNext(t, f) PROVE InHand'
  BY <1>26, HoldNextLands, Distinct, SetsAre DEF HoldNext, InHand, Lands, Loops, halting, lanes,
    filters, syncthing, Engage
<1>27. ASSUME NEW t \in Threads, Held(t) PROVE InHand'
  BY <1>27, HeldLands, Distinct, SetsAre, RestIs DEF Held, InHand, Lands, Loops, halting, lanes,
    filters, syncthing, Engage
<1>28. ASSUME NEW c \in Callers, PressClear(c) PROVE InHand'
  BY <1>28, LetGoLands, Distinct, SetsAre DEF PressClear, InHand, Lands, Loops, halting, lanes,
    filters, syncthing, Engage
<1>29. ASSUME NEW c \in Callers, Gate(c) PROVE InHand'
  BY <1>29, GateLands, Distinct, SetsAre DEF Gate, InHand, Lands, Loops, halting, lanes,
    filters, syncthing, Engage
<1>30. ASSUME NEW c \in Callers, Start(c) PROVE InHand'
  <2>1. thread'[Worker] = thread[Worker] \/ thread'[Worker].at = "adopt"
    BY <1>30, StartLands, Distinct, RestIs, LabelsAre
  <2> QED BY <1>30, <2>1 DEF Start, InHand, syncthing
<1>31. ASSUME NEW c \in Callers, TogglePause(c) PROVE InHand'
  BY <1>31, TogglePauseLands, Distinct, SetsAre DEF TogglePause, InHand, Lands, Loops, halting,
    lanes, filters, syncthing, Engage
<1>32. ASSUME SetFlag PROVE InHand'
  BY <1>32, Distinct, SetsAre DEF SetFlag, InHand, Lands, Loops, halting, lanes, filters,
    syncthing, Engage
<1>33. ASSUME NEW c \in Callers, Report(c) PROVE InHand'
  BY <1>33, ReportLands, Distinct, SetsAre DEF Report, InHand, Lands, Loops, halting, lanes,
    filters, syncthing, Engage
<1>34. ASSUME NEW c \in Callers, TakeReply(c) PROVE InHand'
  BY <1>34, TakeReplyLands, Distinct, SetsAre DEF TakeReply, InHand, Lands, Loops, halting,
    lanes, filters, syncthing, Engage
<1>35. ASSUME NEW c \in Callers, Lift(c) PROVE InHand'
  BY <1>35, LetGoLands, GotoLands, LabelsAre, Distinct, SetsAre DEF Lift, InHand, Lands, Loops,
    halting, lanes, filters, syncthing, Engage
<1>36. ASSUME Restarted PROVE InHand'
  BY <1>36, RelaunchLands, Distinct, SetsAre, RestIs, LabelsAre DEF Restarted, Relaunch, InHand,
    Lands, Loops, halting, lanes, filters, syncthing, Engage
<1>37. CASE UNCHANGED vars BY <1>37 DEF InHand, vars, halting, lanes, filters, syncthing
<1> QED BY <1>1, <1>2, <1>3, <1>4, <1>5, <1>6, <1>7, <1>8, <1>9, <1>10, <1>11, <1>12, <1>13,
  <1>14, <1>15, <1>16, <1>17, <1>18, <1>19, <1>20, <1>21, <1>22, <1>23, <1>24, <1>25, <1>26,
  <1>27, <1>28, <1>29, <1>30, <1>31, <1>32, <1>33, <1>34, <1>35, <1>36, <1>37, Actions

LEMMA StartsHand == Init => InHand
BY RestIs, LabelsAre, Distinct DEF Init, InHand

-----------------------------------------------------------------------------
(* Which thread does what *)

WorkerLabels == {"off", "adopt", "verify", "sweep", "sweeping", "release", "parked", "turns",
                 "offer", "ignores", "accepted", "accept", "assert", "unpause", "turn",
                 "check", "retry"}
CallerLabels == {"off", "verify", "sweep", "sweeping", "release", "reply", "halting",
                 "lifting", "joining", "down", "pausing", "holding", "pause", "gate", "start"}

\* Which thread can be where, and on whose behalf a loop of sweeps runs.
Fits(t, l, b) ==
  /\ t = Worker => /\ l \in WorkerLabels
                   /\ l \in {"verify", "sweep", "sweeping", "release"} => b = "turns"
  /\ t = Repause => l \in {"off", "holding", "pause"}
  /\ t \in Callers => /\ l \in CallerLabels
                      /\ l = "verify" => b = "gate"
                      /\ l = "sweep" => b \in {"off", "gate"}
                      /\ l \in {"sweeping", "release"} => b \in {"off", "gate", "down"}

Placed == \A t \in Threads : Fits(t, thread[t].at, thread[t].back)

LEMMA FitsAt ==
  \A t \in Threads : Fits(t, "off", "off") /\ Fits(t, None.at, None.back)
BY Distinct, RestIs DEF Fits, WorkerLabels, CallerLabels

\* Who makes the sequencer's steps, and who the others.
LEMMA WhoActs ==
  ASSUME Placed, NEW t \in Threads
  PROVE  /\ Fits(t, thread[t].at, thread[t].back)
         /\ thread[t].at \in {"turns", "accept", "turn", "retry"} => t = Worker
         /\ thread[t].at \in {"verify", "sweep", "sweeping", "release"} => t # Repause
         /\ thread[t].at \in {"holding", "pause"} => t # Worker
BY Distinct DEF Placed, Fits, WorkerLabels, CallerLabels

LEMMA PlacedKept ==
  TypeOK /\ Placed /\ [Next]_vars => Placed'
<1> SUFFICES ASSUME TypeOK, Placed, [Next]_vars PROVE Placed' OBVIOUS
<1>1. ASSUME NEW t \in Threads, Sweep(t) PROVE Placed'
  <2>1. PICK S \in SUBSET Folders : Lands(t, "sweeping", S, {}, thread[t].back)
    BY <1>1, SweepLands, Zenon
  <2>2. Fits(t, thread'[t].at, thread'[t].back)
    BY <1>1, <2>1, WhoActs, Distinct DEF Sweep, Lands, Loops, Fits, WorkerLabels, CallerLabels
  <2>3. \A u \in Threads \ {t} : thread'[u] = thread[u] BY <2>1 DEF Lands
  <2> QED BY <2>2, <2>3 DEF Placed
<1>2. ASSUME NEW t \in Threads, NEW f \in Folders, Release(t, f) PROVE Placed'
  <2>1. Fits(t, thread'[t].at, thread'[t].back)
    BY <1>2, ReleaseLands, WhoActs, Distinct, FitsAt, AfterIs DEF Release, Lands, Loops, Fits,
      WorkerLabels, CallerLabels
  <2>2. \A u \in Threads \ {t} : thread'[u] = thread[u]
    BY <1>2, ReleaseLands, WhoActs, Distinct, AfterIs DEF Release, Lands
  <2> QED BY <2>1, <2>2 DEF Placed
<1>3. ASSUME NEW t \in Threads, Unpaused(t) PROVE Placed'
  <2>1. Fits(t, thread'[t].at, thread'[t].back)
    BY <1>3, UnpausedLands, WhoActs, Distinct, FitsAt, AfterIs DEF Unpaused, Lands, Loops, Fits,
      WorkerLabels, CallerLabels
  <2>2. \A u \in Threads \ {t} : thread'[u] = thread[u]
    BY <1>3, UnpausedLands, WhoActs, Distinct, AfterIs DEF Unpaused, Lands
  <2> QED BY <2>1, <2>2 DEF Placed
<1>4. ASSUME NEW t \in Threads, UnpauseFails(t) PROVE Placed'
  <2>1. CASE thread[t].at = "release"
    <3>1. Lands(t, "sweeping", thread[t].todo, {}, thread[t].back) BY <1>4, <2>1, UnpauseFailsLands
    <3>2. Fits(t, thread'[t].at, thread'[t].back)
      BY <2>1, <3>1, WhoActs, Distinct DEF Lands, Loops, Fits, WorkerLabels, CallerLabels
    <3> QED BY <3>1, <3>2 DEF Placed, Lands
  <2>2. CASE thread[t].at # "release"
    <3>1. t = Worker BY <1>4, <2>2, AfterIs, WhoActs DEF UnpauseFails
    <3>2. Lands(t, "turns", thread[t].todo, {}, thread[t].back) BY <1>4, <2>2, UnpauseFailsLands
    <3>3. Fits(t, thread'[t].at, thread'[t].back)
      BY <3>1, <3>2, Distinct DEF Lands, Loops, Fits, WorkerLabels
    <3> QED BY <3>2, <3>3 DEF Placed, Lands
  <2> QED BY <2>1, <2>2
<1>5. ASSUME NEW t \in Threads, NEW f \in Folders, Verify(t, f) PROVE Placed'
  <2>1. Fits(t, thread'[t].at, thread'[t].back)
    BY <1>5, VerifyLands, WhoActs, Distinct, FitsAt, AfterIs DEF Verify, Lands, Loops, Fits,
      WorkerLabels, CallerLabels
  <2>2. \A u \in Threads \ {t} : thread'[u] = thread[u]
    BY <1>5, VerifyLands, WhoActs, Distinct, AfterIs DEF Verify, Lands
  <2> QED BY <2>1, <2>2 DEF Placed
<1>6. ASSUME NEW t \in Threads, NEW f \in Folders, VerifyFails(t, f) PROVE Placed'
  <2>1. Fits(t, thread'[t].at, thread'[t].back)
    BY <1>6, VerifyFailsLands, WhoActs, Distinct, FitsAt, AfterIs DEF VerifyFails, Lands, Loops,
      Fits, WorkerLabels, CallerLabels
  <2>2. \A u \in Threads \ {t} : thread'[u] = thread[u]
    BY <1>6, VerifyFailsLands, WhoActs, Distinct, AfterIs DEF VerifyFails, Lands
  <2> QED BY <2>1, <2>2 DEF Placed
<1>7. ASSUME Adopt PROVE Placed'
  <2>1. Fits(Worker, thread'[Worker].at, thread'[Worker].back)
    BY <1>7, AdoptLands, WhoActs, Distinct, FitsAt, AfterIs DEF Adopt, Lands, Loops, Fits,
      WorkerLabels, CallerLabels
  <2>2. \A u \in Threads \ {Worker} : thread'[u] = thread[u]
    BY <1>7, AdoptLands, WhoActs, Distinct, AfterIs DEF Adopt, Lands
  <2> QED BY <2>1, <2>2 DEF Placed
<1>8. ASSUME Stands PROVE Placed'
  <2>1. Fits(Worker, thread'[Worker].at, thread'[Worker].back)
    BY <1>8, StandsLands, WhoActs, Distinct, FitsAt, AfterIs DEF Stands, Lands, Loops, Fits,
      WorkerLabels, CallerLabels
  <2>2. \A u \in Threads \ {Worker} : thread'[u] = thread[u]
    BY <1>8, StandsLands, WhoActs, Distinct, AfterIs DEF Stands, Lands
  <2> QED BY <2>1, <2>2 DEF Placed
<1>9. ASSUME Unpark PROVE Placed'
  <2>1. Fits(Worker, thread'[Worker].at, thread'[Worker].back)
    BY <1>9, UnparkLands, WhoActs, Distinct, FitsAt, AfterIs DEF Unpark, Lands, Loops, Fits,
      WorkerLabels, CallerLabels
  <2>2. \A u \in Threads \ {Worker} : thread'[u] = thread[u]
    BY <1>9, UnparkLands, WhoActs, Distinct, AfterIs DEF Unpark, Lands
  <2> QED BY <2>1, <2>2 DEF Placed
<1>10. ASSUME NEW f \in Folders, Turn(f) PROVE Placed'
  <2>1. Fits(Worker, thread'[Worker].at, thread'[Worker].back)
    BY <1>10, TurnLands, WhoActs, Distinct, FitsAt, AfterIs DEF Turn, Lands, Loops, Fits,
      WorkerLabels, CallerLabels
  <2>2. \A u \in Threads \ {Worker} : thread'[u] = thread[u]
    BY <1>10, TurnLands, WhoActs, Distinct, AfterIs DEF Turn, Lands
  <2> QED BY <2>1, <2>2 DEF Placed
<1>11. ASSUME PassEnds PROVE Placed'
  <2>1. Fits(Worker, thread'[Worker].at, thread'[Worker].back)
    BY <1>11, PassEndsLands, WhoActs, Distinct, FitsAt, AfterIs DEF PassEnds, Lands, Loops, Fits,
      WorkerLabels, CallerLabels
  <2>2. \A u \in Threads \ {Worker} : thread'[u] = thread[u]
    BY <1>11, PassEndsLands, WhoActs, Distinct, AfterIs DEF PassEnds, Lands
  <2> QED BY <2>1, <2>2 DEF Placed
<1>12. ASSUME Offer PROVE Placed'
  <2>1. Fits(Worker, thread'[Worker].at, thread'[Worker].back)
    BY <1>12, OfferLands, WhoActs, Distinct, FitsAt, AfterIs DEF Offer, Lands, Loops, Fits,
      WorkerLabels, CallerLabels
  <2>2. \A u \in Threads \ {Worker} : thread'[u] = thread[u]
    BY <1>12, OfferLands, WhoActs, Distinct, AfterIs DEF Offer, Lands
  <2> QED BY <2>1, <2>2 DEF Placed
<1>13. ASSUME SetIgnores PROVE Placed'
  <2>1. Fits(Worker, thread'[Worker].at, thread'[Worker].back)
    BY <1>13, SetIgnoresLands, WhoActs, Distinct, FitsAt, AfterIs DEF SetIgnores, Lands, Loops,
      Fits, WorkerLabels, CallerLabels
  <2>2. \A u \in Threads \ {Worker} : thread'[u] = thread[u]
    BY <1>13, SetIgnoresLands, WhoActs, Distinct, AfterIs DEF SetIgnores, Lands
  <2> QED BY <2>1, <2>2 DEF Placed
<1>14. ASSUME AcceptFails PROVE Placed'
  <2>1. Fits(Worker, thread'[Worker].at, thread'[Worker].back)
    BY <1>14, AcceptFailsLands, WhoActs, Distinct, FitsAt, AfterIs DEF AcceptFails, Lands, Loops,
      Fits, WorkerLabels, CallerLabels
  <2>2. \A u \in Threads \ {Worker} : thread'[u] = thread[u]
    BY <1>14, AcceptFailsLands, WhoActs, Distinct, AfterIs DEF AcceptFails, Lands
  <2> QED BY <2>1, <2>2 DEF Placed
<1>15. ASSUME Accepted PROVE Placed'
  <2>1. Fits(Worker, thread'[Worker].at, thread'[Worker].back)
    BY <1>15, AcceptedLands, WhoActs, Distinct, FitsAt, AfterIs DEF Accepted, Lands, Loops, Fits,
      WorkerLabels, CallerLabels
  <2>2. \A u \in Threads \ {Worker} : thread'[u] = thread[u]
    BY <1>15, AcceptedLands, WhoActs, Distinct, AfterIs DEF Accepted, Lands
  <2> QED BY <2>1, <2>2 DEF Placed
<1>16. ASSUME Reassert PROVE Placed'
  <2>1. Fits(Worker, thread'[Worker].at, thread'[Worker].back)
    BY <1>16, ReassertLands, WhoActs, Distinct, FitsAt, AfterIs DEF Reassert, Lands, Loops, Fits,
      WorkerLabels, CallerLabels
  <2>2. \A u \in Threads \ {Worker} : thread'[u] = thread[u]
    BY <1>16, ReassertLands, WhoActs, Distinct, AfterIs DEF Reassert, Lands
  <2> QED BY <2>1, <2>2 DEF Placed
<1>17. ASSUME ReassertFails PROVE Placed'
  <2>1. Fits(Worker, thread'[Worker].at, thread'[Worker].back)
    BY <1>17, ReassertFailsLands, WhoActs, Distinct, FitsAt, AfterIs DEF ReassertFails, Lands,
      Loops, Fits, WorkerLabels, CallerLabels
  <2>2. \A u \in Threads \ {Worker} : thread'[u] = thread[u]
    BY <1>17, ReassertFailsLands, WhoActs, Distinct, AfterIs DEF ReassertFails, Lands
  <2> QED BY <2>1, <2>2 DEF Placed
<1>18. ASSUME Unpause PROVE Placed'
  <2>1. Fits(Worker, thread'[Worker].at, thread'[Worker].back)
    BY <1>18, UnpauseLands, WhoActs, Distinct, FitsAt, AfterIs DEF Unpause, Lands, Loops, Fits,
      WorkerLabels, CallerLabels
  <2>2. \A u \in Threads \ {Worker} : thread'[u] = thread[u]
    BY <1>18, UnpauseLands, WhoActs, Distinct, AfterIs DEF Unpause, Lands
  <2> QED BY <2>1, <2>2 DEF Placed
<1>19. ASSUME Check PROVE Placed'
  <2>1. Fits(Worker, thread'[Worker].at, thread'[Worker].back)
    BY <1>19, CheckLands, WhoActs, Distinct, FitsAt, AfterIs DEF Check, Lands, Loops, Fits,
      WorkerLabels, CallerLabels
  <2>2. \A u \in Threads \ {Worker} : thread'[u] = thread[u]
    BY <1>19, CheckLands, WhoActs, Distinct, AfterIs DEF Check, Lands
  <2> QED BY <2>1, <2>2 DEF Placed
<1>20. ASSUME NEW c \in Callers, PressStop(c) PROVE Placed'
  <2>1. Fits(c, thread'[c].at, thread'[c].back)
    BY <1>20, PressStopLands, WhoActs, Distinct, FitsAt, AfterIs DEF PressStop, Lands, Loops,
      Fits, WorkerLabels, CallerLabels
  <2>2. \A u \in Threads \ {c} : thread'[u] = thread[u]
    BY <1>20, PressStopLands, WhoActs, Distinct, AfterIs DEF PressStop, Lands
  <2> QED BY <2>1, <2>2 DEF Placed
<1>21. ASSUME NEW c \in Callers, HaltAll(c) PROVE Placed'
  <2>1. Fits(c, thread'[c].at, thread'[c].back)
    BY <1>21, HaltAllLands, WhoActs, Distinct, FitsAt, AfterIs DEF HaltAll, Lands, Loops, Fits,
      WorkerLabels, CallerLabels
  <2>2. \A u \in Threads \ {c} : thread'[u] = thread[u]
    BY <1>21, HaltAllLands, WhoActs, Distinct, AfterIs DEF HaltAll, Lands
  <2> QED BY <2>1, <2>2 DEF Placed
<1>22. ASSUME NEW c \in Callers, Quit(c) PROVE Placed'
  <2>1. Fits(c, thread'[c].at, thread'[c].back)
    BY <1>22, QuitLands, WhoActs, Distinct, FitsAt, AfterIs DEF Quit, Lands, Loops, Fits,
      WorkerLabels, CallerLabels
  <2>2. \A u \in Threads \ {c} : thread'[u] = thread[u]
    BY <1>22, QuitLands, WhoActs, Distinct, AfterIs DEF Quit, Lands
  <2> QED BY <2>1, <2>2 DEF Placed
<1>23. ASSUME NEW c \in Callers, Joined(c) PROVE Placed'
  <2>1. Fits(c, thread'[c].at, thread'[c].back)
    BY <1>23, JoinedLands, WhoActs, Distinct, FitsAt, AfterIs DEF Joined, Lands, Loops, Fits,
      WorkerLabels, CallerLabels
  <2>2. \A u \in Threads \ {c} : thread'[u] = thread[u]
    BY <1>23, JoinedLands, WhoActs, Distinct, AfterIs DEF Joined, Lands
  <2> QED BY <2>1, <2>2 DEF Placed
<1>24. ASSUME NEW c \in Callers, LanesDown(c) PROVE Placed'
  <2>1. Fits(c, thread'[c].at, thread'[c].back)
    BY <1>24, LanesDownLands, WhoActs, Distinct, FitsAt, AfterIs DEF LanesDown, Lands, Loops,
      Fits, WorkerLabels, CallerLabels
  <2>2. \A u \in Threads \ {c} : thread'[u] = thread[u]
    BY <1>24, LanesDownLands, WhoActs, Distinct, AfterIs DEF LanesDown, Lands
  <2> QED BY <2>1, <2>2 DEF Placed
<1>25. ASSUME NEW c \in Callers, NEW f \in Folders, PauseFolder(c, f) PROVE Placed'
  <2>1. Fits(c, thread'[c].at, thread'[c].back)
    BY <1>25, PauseFolderLands, WhoActs, Distinct, FitsAt, AfterIs DEF PauseFolder, Lands, Loops,
      Fits, WorkerLabels, CallerLabels
  <2>2. \A u \in Threads \ {c} : thread'[u] = thread[u]
    BY <1>25, PauseFolderLands, WhoActs, Distinct, AfterIs DEF PauseFolder, Lands
  <2> QED BY <2>1, <2>2 DEF Placed
<1>26. ASSUME NEW t \in Threads, NEW f \in Folders, HoldNext(t, f) PROVE Placed'
  <2>1. Fits(t, thread'[t].at, thread'[t].back)
    BY <1>26, HoldNextLands, WhoActs, Distinct, FitsAt, AfterIs DEF HoldNext, Lands, Loops, Fits,
      WorkerLabels, CallerLabels
  <2>2. \A u \in Threads \ {t} : thread'[u] = thread[u]
    BY <1>26, HoldNextLands, WhoActs, Distinct, AfterIs DEF HoldNext, Lands
  <2> QED BY <2>1, <2>2 DEF Placed
<1>27. ASSUME NEW t \in Threads, Held(t) PROVE Placed'
  <2>1. Fits(t, thread'[t].at, thread'[t].back)
    BY <1>27, HeldLands, WhoActs, Distinct, FitsAt, AfterIs DEF Held, Lands, Loops, Fits,
      WorkerLabels, CallerLabels
  <2>2. \A u \in Threads \ {t} : thread'[u] = thread[u]
    BY <1>27, HeldLands, WhoActs, Distinct, AfterIs DEF Held, Lands
  <2> QED BY <2>1, <2>2 DEF Placed
<1>28. ASSUME NEW c \in Callers, PressClear(c) PROVE Placed'
  <2>1. Fits(c, thread'[c].at, thread'[c].back)
    BY <1>28, LetGoLands, WhoActs, Distinct, FitsAt, AfterIs DEF PressClear, Lands, Loops, Fits,
      WorkerLabels, CallerLabels
  <2>2. \A u \in Threads \ {c} : thread'[u] = thread[u]
    BY <1>28, LetGoLands, WhoActs, Distinct, AfterIs DEF PressClear, Lands
  <2> QED BY <2>1, <2>2 DEF Placed
<1>29. ASSUME NEW c \in Callers, Gate(c) PROVE Placed'
  <2>1. \A u \in Threads : Fits(u, thread'[u].at, thread'[u].back)
    BY <1>29, GateLands, FitsAt, Distinct, RestIs, LabelsAre
    DEF Placed, Fits, WorkerLabels, CallerLabels
  <2> QED BY <2>1 DEF Placed
<1>30. ASSUME NEW c \in Callers, Start(c) PROVE Placed'
  <2>1. \A u \in Threads : Fits(u, thread'[u].at, thread'[u].back)
    BY <1>30, StartLands, FitsAt, Distinct, RestIs, LabelsAre
    DEF Placed, Fits, WorkerLabels, CallerLabels
  <2> QED BY <2>1 DEF Placed
<1>31. ASSUME NEW c \in Callers, TogglePause(c) PROVE Placed'
  <2>1. Fits(c, thread'[c].at, thread'[c].back)
    BY <1>31, TogglePauseLands, WhoActs, Distinct, FitsAt, AfterIs DEF TogglePause, Lands, Loops,
      Fits, WorkerLabels, CallerLabels
  <2>2. \A u \in Threads \ {c} : thread'[u] = thread[u]
    BY <1>31, TogglePauseLands, WhoActs, Distinct, AfterIs DEF TogglePause, Lands
  <2> QED BY <2>1, <2>2 DEF Placed
<1>32. ASSUME SetFlag PROVE Placed'
  BY <1>32, Distinct, LabelsAre DEF SetFlag, Placed
<1>33. ASSUME NEW c \in Callers, Report(c) PROVE Placed'
  <2>1. Fits(c, thread'[c].at, thread'[c].back)
    BY <1>33, ReportLands, WhoActs, Distinct, FitsAt, AfterIs DEF Report, Lands, Loops, Fits,
      WorkerLabels, CallerLabels
  <2>2. \A u \in Threads \ {c} : thread'[u] = thread[u]
    BY <1>33, ReportLands, WhoActs, Distinct, AfterIs DEF Report, Lands
  <2> QED BY <2>1, <2>2 DEF Placed
<1>34. ASSUME NEW c \in Callers, TakeReply(c) PROVE Placed'
  <2>1. Fits(c, thread'[c].at, thread'[c].back)
    BY <1>34, TakeReplyLands, WhoActs, Distinct, FitsAt, AfterIs DEF TakeReply, Lands, Loops,
      Fits, WorkerLabels, CallerLabels
  <2>2. \A u \in Threads \ {c} : thread'[u] = thread[u]
    BY <1>34, TakeReplyLands, WhoActs, Distinct, AfterIs DEF TakeReply, Lands
  <2> QED BY <2>1, <2>2 DEF Placed
<1>35. ASSUME NEW c \in Callers, Lift(c) PROVE Placed'
  <2>1. Fits(c, thread'[c].at, thread'[c].back)
    BY <1>35, LetGoLands, GotoLands, LabelsAre, WhoActs, Distinct, FitsAt, AfterIs DEF Lift,
      Lands, Loops, Fits, WorkerLabels, CallerLabels
  <2>2. \A u \in Threads \ {c} : thread'[u] = thread[u]
    BY <1>35, LetGoLands, GotoLands, LabelsAre, WhoActs, Distinct, AfterIs DEF Lift, Lands
  <2> QED BY <2>1, <2>2 DEF Placed
<1>36. ASSUME Restarted PROVE Placed'
  <2>1. \A u \in Threads : Fits(u, thread'[u].at, thread'[u].back)
    BY <1>36, RelaunchLands, FitsAt, Distinct, RestIs, LabelsAre
    DEF Restarted, Fits, WorkerLabels, CallerLabels
  <2> QED BY <2>1 DEF Placed
<1>37. CASE UNCHANGED vars BY <1>37 DEF Placed, vars, halting, lanes, filters, syncthing
<1> QED BY <1>1, <1>2, <1>3, <1>4, <1>5, <1>6, <1>7, <1>8, <1>9, <1>10, <1>11, <1>12, <1>13,
  <1>14, <1>15, <1>16, <1>17, <1>18, <1>19, <1>20, <1>21, <1>22, <1>23, <1>24, <1>25, <1>26,
  <1>27, <1>28, <1>29, <1>30, <1>31, <1>32, <1>33, <1>34, <1>35, <1>36, <1>37, Actions

LEMMA StartsPlaced == Init => Placed
BY RestIs, LabelsAre, Distinct DEF Init, Placed, Fits, WorkerLabels, CallerLabels

-----------------------------------------------------------------------------
(* Folders whose .stignore is missing *)

\* Folders without a .stignore that no record names yet.
Unnoticed == (known \ filtered) \ (latched \cup half)

\* The startup verification is all that is left to notice them: the
\* sequencer's, or that of the thread that sweeps in its place.
Noticed ==
  /\ thread[Worker].at \notin {"off", "adopt"} => adopted
  /\ adopted => Unnoticed \subseteq Verifying
  /\ \A c \in Callers :
       /\ thread[c].at = "verify" => Unnoticed \subseteq thread[c].todo
       /\ thread[c].at = "sweep" /\ thread[c].back = "gate" => Unnoticed \subseteq Verifying

Base == TypeOK /\ InHand /\ Placed

\* What a step of thread x has to keep for it.
KeepsNoticed(x) ==
  /\ \A u \in Threads \ {x} : thread'[u] = thread[u]
  /\ adopted' = adopted
  /\ Unnoticed' \subseteq Unnoticed /\ Unnoticed' \cap Verifying \subseteq Verifying'
  /\ thread'[Worker].at \notin {"off", "adopt"} => adopted
  /\ x \in Callers =>
       /\ thread'[x].at = "verify" => Unnoticed' \subseteq thread'[x].todo
       /\ thread'[x].at = "sweep" /\ thread'[x].back = "gate" => Unnoticed' \subseteq Verifying'

LEMMA NoticedStep ==
  ASSUME Noticed, NEW t \in Threads, KeepsNoticed(t)
  PROVE  Noticed'
<1>1. \A c \in Callers \ {t} :
        /\ thread'[c].at = "verify" => Unnoticed' \subseteq thread'[c].todo
        /\ thread'[c].at = "sweep" /\ thread'[c].back = "gate" => Unnoticed' \subseteq Verifying'
  BY Distinct DEF Noticed, KeepsNoticed
<1>2. adopted' => Unnoticed' \subseteq Verifying' BY DEF Noticed, KeepsNoticed
<1> QED BY <1>1, <1>2 DEF Noticed, KeepsNoticed

LEMMA NoticedKept ==
  Base /\ Noticed /\ [Next]_vars => Noticed'
<1> SUFFICES ASSUME Base, Noticed, [Next]_vars PROVE Noticed' OBVIOUS
<1> USE DEF Base
<1>1. ASSUME NEW t \in Threads, Sweep(t) PROVE Noticed'
  <2>1. Unnoticed' = Unnoticed /\ adopted' = adopted
    BY <1>1 DEF Sweep, Unnoticed, filters, syncthing
  <2>2. \A u \in Threads \ {t} : thread'[u] = thread[u] BY <1>1, SweepLands DEF Lands
  <2>3. thread'[t].at \notin {"verify", "sweep"}
    BY <1>1, SweepLands, RestIs, WhoActs, Distinct DEF Sweep, Lands, Loops, Fits, CallerLabels
  <2>4. Verifying' = Verifying BY <1>1, <2>2, <2>3, Distinct DEF Sweep, Verifying
  <2>5. t = Worker => adopted BY <1>1, Distinct DEF Sweep, Noticed
  <2>6. KeepsNoticed(t) BY <2>1, <2>2, <2>3, <2>4, <2>5, Distinct DEF KeepsNoticed, Noticed
  <2> QED BY <2>6, NoticedStep, Distinct
<1>2. ASSUME NEW t \in Threads, NEW f \in Folders, Release(t, f) PROVE Noticed'
  <2>1. KeepsNoticed(t)
    BY <1>2, ReleaseLands, WhoActs, Distinct, RestIs, AfterIs
    DEF Release, KeepsNoticed, Unnoticed, filters, syncthing, Lands, Loops, Verifying, Noticed, Fits, CallerLabels
  <2> QED BY <2>1, NoticedStep, Distinct
<1>3. ASSUME NEW t \in Threads, Unpaused(t) PROVE Noticed'
  <2>1. KeepsNoticed(t)
    BY <1>3, UnpausedLands, WhoActs, Distinct, RestIs, AfterIs
    DEF Unpaused, KeepsNoticed, Unnoticed, filters, syncthing, Lands, Loops, Verifying, Noticed, Fits, CallerLabels
  <2> QED BY <2>1, NoticedStep, Distinct
<1>4. ASSUME NEW t \in Threads, UnpauseFails(t) PROVE Noticed'
  <2>1. KeepsNoticed(t)
    BY <1>4, UnpauseFailsLands, WhoActs, Distinct, RestIs, AfterIs
    DEF UnpauseFails, KeepsNoticed, Unnoticed, filters, syncthing, Lands, Loops, Verifying, Noticed, Fits, CallerLabels
  <2> QED BY <2>1, NoticedStep, Distinct
<1>5. ASSUME NEW t \in Threads, NEW f \in Folders, Verify(t, f) PROVE Noticed'
  <2>1. Unnoticed' \subseteq Unnoticed BY <1>5 DEF Verify, Unnoticed, filters, syncthing
  <2>2. \A u \in Threads \ {t} : thread'[u] = thread[u] BY <1>5, VerifyLands DEF Lands
  <2>3. adopted' = adopted BY <1>5 DEF Verify
  <2>4. PICK S \in SUBSET Folders :
          /\ Lands(t, "verify", S, thread[t].cur, thread[t].back)
          /\ thread[t].todo \cap Unnoticed' \subseteq S
    <3>1. CASE t = Worker /\ stop
      <4>1. Lands(t, "verify", {}, thread[t].cur, thread[t].back) BY <1>5, <3>1, VerifyLands
      <4>2. thread[t].todo \cap Unnoticed' \subseteq {}
        BY <1>5, <3>1 DEF Verify, Unnoticed, syncthing
      <4> QED BY <4>1, <4>2
    <3>2. CASE ~(t = Worker /\ stop)
      <4>1. Lands(t, "verify", thread[t].todo \ {f}, thread[t].cur, thread[t].back)
        BY <1>5, <3>2, VerifyLands
      <4>2. thread[t].todo \cap Unnoticed' \subseteq thread[t].todo \ {f}
        BY <1>5, <3>2 DEF Verify, Unnoticed, syncthing
      <4> QED BY <4>1, <4>2, SetsAre
    <3> QED BY <3>1, <3>2
  <2>5. thread[t].at = "verify" BY <1>5 DEF Verify
  <2>6. /\ thread'[t].at \in {"verify", "sweep"}
        /\ thread'[t].at = "verify" => thread[t].todo \cap Unnoticed' \subseteq thread'[t].todo
        /\ thread'[t].at = "sweep" => thread[t].todo \cap Unnoticed' = {}
    BY <2>4 DEF Lands, Loops
  <2>7. Unnoticed' \cap Verifying \subseteq Verifying'
    <3>1. CASE t = Worker BY <2>5, <2>6, <3>1 DEF Verifying
    <3>2. CASE t # Worker BY <2>2, <3>2, Distinct DEF Verifying
    <3> QED BY <3>1, <3>2
  <2>8. thread'[Worker].at \notin {"off", "adopt"} => adopted
    BY <2>2, <2>5, Distinct DEF Noticed
  <2>9. t \in Callers =>
          /\ thread'[t].at = "verify" => Unnoticed' \subseteq thread'[t].todo
          /\ thread'[t].at = "sweep" /\ thread'[t].back = "gate" => Unnoticed' \subseteq Verifying'
    BY <2>1, <2>5, <2>6 DEF Noticed
  <2> QED BY <2>1, <2>2, <2>3, <2>7, <2>8, <2>9, NoticedStep DEF KeepsNoticed
<1>6. ASSUME NEW t \in Threads, NEW f \in Folders, VerifyFails(t, f) PROVE Noticed'
  <2>1. Unnoticed' \subseteq Unnoticed BY <1>6 DEF VerifyFails, Unnoticed, filters, syncthing
  <2>2. \A u \in Threads \ {t} : thread'[u] = thread[u] BY <1>6, VerifyFailsLands DEF Lands
  <2>3. adopted' = adopted BY <1>6 DEF VerifyFails
  <2>4. PICK S \in SUBSET Folders :
          /\ Lands(t, "verify", S, thread[t].cur, thread[t].back)
          /\ thread[t].todo \cap Unnoticed' \subseteq S
    <3>1. Lands(t, "verify", thread[t].todo \ {f}, thread[t].cur, thread[t].back)
      BY <1>6, VerifyFailsLands
    <3>2. thread[t].todo \cap Unnoticed' \subseteq thread[t].todo \ {f}
      BY <1>6 DEF VerifyFails, Unnoticed
    <3> QED BY <3>1, <3>2, SetsAre
  <2>5. thread[t].at = "verify" BY <1>6 DEF VerifyFails
  <2>6. /\ thread'[t].at \in {"verify", "sweep"}
        /\ thread'[t].at = "verify" => thread[t].todo \cap Unnoticed' \subseteq thread'[t].todo
        /\ thread'[t].at = "sweep" => thread[t].todo \cap Unnoticed' = {}
    BY <2>4 DEF Lands, Loops
  <2>7. Unnoticed' \cap Verifying \subseteq Verifying'
    <3>1. CASE t = Worker BY <2>5, <2>6, <3>1 DEF Verifying
    <3>2. CASE t # Worker BY <2>2, <3>2, Distinct DEF Verifying
    <3> QED BY <3>1, <3>2
  <2>8. thread'[Worker].at \notin {"off", "adopt"} => adopted
    BY <2>2, <2>5, Distinct DEF Noticed
  <2>9. t \in Callers =>
          /\ thread'[t].at = "verify" => Unnoticed' \subseteq thread'[t].todo
          /\ thread'[t].at = "sweep" /\ thread'[t].back = "gate" => Unnoticed' \subseteq Verifying'
    BY <2>1, <2>5, <2>6 DEF Noticed
  <2> QED BY <2>1, <2>2, <2>3, <2>7, <2>8, <2>9, NoticedStep DEF KeepsNoticed
<1>7. ASSUME Adopt PROVE Noticed'
  <2>1. Lands(Worker, "verify", Folders, {}, "turns") BY <1>7, AdoptLands
  <2>2. Unnoticed' = Unnoticed /\ adopted' BY <1>7 DEF Adopt, Unnoticed, filters, syncthing
  <2>3. Unnoticed' \subseteq Verifying'
    BY <2>1, <2>2, TypesAre DEF Lands, Loops, Verifying, Unnoticed, Records
  <2>4. \A c \in Callers : thread'[c] = thread[c] BY <2>1, Distinct DEF Lands
  <2> QED BY <2>2, <2>3, <2>4 DEF Noticed
<1>8. ASSUME Stands PROVE Noticed'
  <2>1. KeepsNoticed(Worker)
    BY <1>8, StandsLands, WhoActs, Distinct, RestIs, AfterIs
    DEF Stands, KeepsNoticed, Unnoticed, filters, syncthing, Lands, Loops, Verifying, Noticed, Fits, CallerLabels
  <2> QED BY <2>1, NoticedStep, Distinct
<1>9. ASSUME Unpark PROVE Noticed'
  <2>1. KeepsNoticed(Worker)
    BY <1>9, UnparkLands, WhoActs, Distinct, RestIs, AfterIs
    DEF Unpark, KeepsNoticed, Unnoticed, filters, syncthing, Lands, Loops, Verifying, Noticed, Fits, CallerLabels
  <2> QED BY <2>1, NoticedStep, Distinct
<1>10. ASSUME NEW f \in Folders, Turn(f) PROVE Noticed'
  <2>1. KeepsNoticed(Worker)
    BY <1>10, TurnLands, WhoActs, Distinct, RestIs, AfterIs
    DEF Turn, KeepsNoticed, Unnoticed, filters, syncthing, Lands, Loops, Verifying, Noticed, Fits, CallerLabels
  <2> QED BY <2>1, NoticedStep, Distinct
<1>11. ASSUME PassEnds PROVE Noticed'
  <2>1. KeepsNoticed(Worker)
    BY <1>11, PassEndsLands, WhoActs, Distinct, RestIs, AfterIs
    DEF PassEnds, KeepsNoticed, Unnoticed, filters, syncthing, Lands, Loops, Verifying, Noticed, Fits, CallerLabels
  <2> QED BY <2>1, NoticedStep, Distinct
<1>12. ASSUME Offer PROVE Noticed'
  <2>1. KeepsNoticed(Worker)
    BY <1>12, OfferLands, WhoActs, Distinct, RestIs, AfterIs
    DEF Offer, KeepsNoticed, Unnoticed, filters, syncthing, Lands, Loops, Verifying, Noticed, Fits, CallerLabels
  <2> QED BY <2>1, NoticedStep, Distinct
<1>13. ASSUME SetIgnores PROVE Noticed'
  <2>1. KeepsNoticed(Worker)
    BY <1>13, SetIgnoresLands, WhoActs, Distinct, RestIs, AfterIs
    DEF SetIgnores, KeepsNoticed, Unnoticed, filters, syncthing, Lands, Loops, Verifying, Noticed, Fits, CallerLabels
  <2> QED BY <2>1, NoticedStep, Distinct
<1>14. ASSUME AcceptFails PROVE Noticed'
  <2>1. KeepsNoticed(Worker)
    BY <1>14, AcceptFailsLands, WhoActs, Distinct, RestIs, AfterIs
    DEF AcceptFails, KeepsNoticed, Unnoticed, filters, syncthing, Lands, Loops, Verifying, Noticed, Fits, CallerLabels
  <2> QED BY <2>1, NoticedStep, Distinct
<1>15. ASSUME Accepted PROVE Noticed'
  <2>1. KeepsNoticed(Worker)
    BY <1>15, AcceptedLands, WhoActs, Distinct, RestIs, AfterIs
    DEF Accepted, KeepsNoticed, Unnoticed, filters, syncthing, Lands, Loops, Verifying, Noticed, Fits, CallerLabels
  <2> QED BY <2>1, NoticedStep, Distinct
<1>16. ASSUME Reassert PROVE Noticed'
  <2>1. KeepsNoticed(Worker)
    BY <1>16, ReassertLands, WhoActs, Distinct, RestIs, AfterIs
    DEF Reassert, KeepsNoticed, Unnoticed, filters, syncthing, Lands, Loops, Verifying, Noticed, Fits, CallerLabels
  <2> QED BY <2>1, NoticedStep, Distinct
<1>17. ASSUME ReassertFails PROVE Noticed'
  <2>1. KeepsNoticed(Worker)
    BY <1>17, ReassertFailsLands, WhoActs, Distinct, RestIs, AfterIs
    DEF ReassertFails, KeepsNoticed, Unnoticed, filters, syncthing, Lands, Loops, Verifying, Noticed, Fits, CallerLabels
  <2> QED BY <2>1, NoticedStep, Distinct
<1>18. ASSUME Unpause PROVE Noticed'
  <2>1. KeepsNoticed(Worker)
    BY <1>18, UnpauseLands, WhoActs, Distinct, RestIs, AfterIs
    DEF Unpause, KeepsNoticed, Unnoticed, filters, syncthing, Lands, Loops, Verifying, Noticed, Fits, CallerLabels
  <2> QED BY <2>1, NoticedStep, Distinct
<1>19. ASSUME Check PROVE Noticed'
  <2>1. KeepsNoticed(Worker)
    BY <1>19, CheckLands, WhoActs, Distinct, RestIs, AfterIs
    DEF Check, KeepsNoticed, Unnoticed, filters, syncthing, Lands, Loops, Verifying, Noticed, Fits, CallerLabels
  <2> QED BY <2>1, NoticedStep, Distinct
<1>20. ASSUME NEW c \in Callers, PressStop(c) PROVE Noticed'
  <2>1. KeepsNoticed(c)
    BY <1>20, PressStopLands, WhoActs, Distinct, RestIs, AfterIs
    DEF PressStop, KeepsNoticed, Unnoticed, filters, syncthing, Lands, Loops, Verifying, Noticed, Fits, CallerLabels
  <2> QED BY <2>1, NoticedStep, Distinct
<1>21. ASSUME NEW c \in Callers, HaltAll(c) PROVE Noticed'
  <2>1. Unnoticed' = Unnoticed /\ adopted' = adopted
    BY <1>21 DEF HaltAll, Unnoticed, filters, syncthing
  <2>2. \A u \in Threads \ {c} : thread'[u] = thread[u] BY <1>21, HaltAllLands DEF Lands
  <2>3. thread'[c].at \notin {"verify", "sweep"}
    BY <1>21, HaltAllLands, RestIs, WhoActs, Distinct DEF HaltAll, Lands, Loops, Fits, CallerLabels
  <2>4. Verifying' = Verifying BY <1>21, <2>2, <2>3, Distinct DEF HaltAll, Verifying
  <2>5. c = Worker => adopted BY <1>21, Distinct DEF HaltAll, Noticed
  <2>6. KeepsNoticed(c) BY <2>1, <2>2, <2>3, <2>4, <2>5, Distinct DEF KeepsNoticed, Noticed
  <2> QED BY <2>6, NoticedStep, Distinct
<1>22. ASSUME NEW c \in Callers, Quit(c) PROVE Noticed'
  <2>1. Unnoticed' = Unnoticed /\ adopted' = adopted
    BY <1>22 DEF Quit, Unnoticed, filters, syncthing
  <2>2. \A u \in Threads \ {c} : thread'[u] = thread[u] BY <1>22, QuitLands DEF Lands
  <2>3. thread'[c].at \notin {"verify", "sweep"}
    BY <1>22, QuitLands, RestIs, WhoActs, Distinct DEF Quit, Lands, Loops, Fits, CallerLabels
  <2>4. Verifying' = Verifying BY <1>22, <2>2, <2>3, Distinct DEF Quit, Verifying
  <2>5. c = Worker => adopted BY <1>22, Distinct DEF Quit, Noticed
  <2>6. KeepsNoticed(c) BY <2>1, <2>2, <2>3, <2>4, <2>5, Distinct DEF KeepsNoticed, Noticed
  <2> QED BY <2>6, NoticedStep, Distinct
<1>23. ASSUME NEW c \in Callers, Joined(c) PROVE Noticed'
  <2>1. Unnoticed' = Unnoticed /\ adopted' = adopted
    BY <1>23 DEF Joined, Unnoticed, filters, syncthing
  <2>2. \A u \in Threads \ {c} : thread'[u] = thread[u] BY <1>23, JoinedLands DEF Lands
  <2>3. thread'[c].at \notin {"verify", "sweep"}
    BY <1>23, JoinedLands, RestIs, WhoActs, Distinct DEF Joined, Lands, Loops, Fits, CallerLabels
  <2>4. Verifying' = Verifying BY <1>23, <2>2, <2>3, Distinct DEF Joined, Verifying
  <2>5. c = Worker => adopted BY <1>23, Distinct DEF Joined, Noticed
  <2>6. KeepsNoticed(c) BY <2>1, <2>2, <2>3, <2>4, <2>5, Distinct DEF KeepsNoticed, Noticed
  <2> QED BY <2>6, NoticedStep, Distinct
<1>24. ASSUME NEW c \in Callers, LanesDown(c) PROVE Noticed'
  <2>1. Unnoticed' = Unnoticed /\ adopted' = adopted
    BY <1>24 DEF LanesDown, Unnoticed, filters, syncthing
  <2>2. \A u \in Threads \ {c} : thread'[u] = thread[u] BY <1>24, LanesDownLands DEF Lands
  <2>3. thread'[c].at \notin {"verify", "sweep"}
    BY <1>24, LanesDownLands, RestIs, WhoActs, Distinct DEF LanesDown, Lands, Loops, Fits,
      CallerLabels
  <2>4. Verifying' = Verifying BY <1>24, <2>2, <2>3, Distinct DEF LanesDown, Verifying
  <2>5. c = Worker => adopted BY <1>24, Distinct DEF LanesDown, Noticed
  <2>6. KeepsNoticed(c) BY <2>1, <2>2, <2>3, <2>4, <2>5, Distinct DEF KeepsNoticed, Noticed
  <2> QED BY <2>6, NoticedStep, Distinct
<1>25. ASSUME NEW c \in Callers, NEW f \in Folders, PauseFolder(c, f) PROVE Noticed'
  <2>1. KeepsNoticed(c)
    BY <1>25, PauseFolderLands, WhoActs, Distinct, RestIs, AfterIs
    DEF PauseFolder, KeepsNoticed, Unnoticed, filters, syncthing, Lands, Loops, Verifying, Noticed, Fits, CallerLabels
  <2> QED BY <2>1, NoticedStep, Distinct
<1>26. ASSUME NEW t \in Threads, NEW f \in Folders, HoldNext(t, f) PROVE Noticed'
  <2>1. KeepsNoticed(t)
    BY <1>26, HoldNextLands, WhoActs, Distinct, RestIs, AfterIs
    DEF HoldNext, KeepsNoticed, Unnoticed, filters, syncthing, Lands, Loops, Verifying, Noticed, Fits, CallerLabels
  <2> QED BY <2>1, NoticedStep, Distinct
<1>27. ASSUME NEW t \in Threads, Held(t) PROVE Noticed'
  <2>1. KeepsNoticed(t)
    BY <1>27, HeldLands, WhoActs, Distinct, RestIs, AfterIs
    DEF Held, KeepsNoticed, Unnoticed, filters, syncthing, Lands, Loops, Verifying, Noticed, Fits, CallerLabels
  <2> QED BY <2>1, NoticedStep, Distinct
<1>28. ASSUME NEW c \in Callers, PressClear(c) PROVE Noticed'
  <2>1. \A u \in Threads \ {c} : thread'[u] = thread[u]
    BY <1>28, LetGoLands, Distinct DEF PressClear, Lands
  <2>2. Unnoticed' = Unnoticed /\ adopted' = adopted
    BY <1>28 DEF PressClear, Unnoticed, filters, syncthing
  <2>3. Unnoticed \subseteq Folders BY TypesAre DEF Unnoticed, Records
  <2>4. Verifying' = Verifying BY <2>1, Distinct DEF Verifying
  <2>5. \/ Lands(c, "sweep", {}, {}, "gate") /\ adopted
        \/ Lands(c, "verify", Folders, {}, "gate")
        \/ Lands(c, "off", thread[c].todo, thread[c].cur, thread[c].back)
    BY <1>28, LetGoLands, GotoLands, LabelsAre, Distinct DEF PressClear
  <2>6. KeepsNoticed(c)
    BY <2>1, <2>2, <2>3, <2>4, <2>5, Distinct DEF KeepsNoticed, Lands, Loops, Noticed
  <2> QED BY <2>6, NoticedStep, Distinct
<1>29. ASSUME NEW c \in Callers, Gate(c) PROVE Noticed'
  <2>1. Unnoticed' = Unnoticed /\ adopted' = adopted
    BY <1>29 DEF Gate, Unnoticed, filters, syncthing
  <2>2. thread'[Worker] = thread[Worker] BY <1>29, GateLands, Distinct
  <2>3. Verifying' = Verifying BY <2>2 DEF Verifying
  <2>4. \A d \in Callers \ {c} : thread'[d] = thread[d] BY <1>29, GateLands, Distinct
  <2>5. thread'[c].at \in {"off", "start"} BY <1>29, GateLands, RestIs, LabelsAre
  <2> QED BY <2>1, <2>2, <2>3, <2>4, <2>5 DEF Noticed
<1>30. ASSUME NEW c \in Callers, Start(c) PROVE Noticed'
  <2>1. Unnoticed' = Unnoticed /\ adopted' = adopted
    BY <1>30 DEF Start, Unnoticed, filters, syncthing
  <2>2. \/ thread'[Worker] = thread[Worker]
        \/ thread[Worker].at = "off" /\ thread'[Worker].at = "adopt"
    BY <1>30, StartLands, RestIs, LabelsAre DEF Alive
  <2>3. Verifying' = Verifying BY <2>2 DEF Verifying
  <2>4. \A d \in Callers \ {c} : thread'[d] = thread[d] BY <1>30, StartLands, Distinct
  <2>5. thread'[c].at = "off" BY <1>30, StartLands, RestIs
  <2> QED BY <2>1, <2>2, <2>3, <2>4, <2>5 DEF Noticed
<1>31. ASSUME NEW c \in Callers, TogglePause(c) PROVE Noticed'
  <2>1. KeepsNoticed(c)
    BY <1>31, TogglePauseLands, WhoActs, Distinct, RestIs, AfterIs
    DEF TogglePause, KeepsNoticed, Unnoticed, filters, syncthing, Lands, Loops, Verifying, Noticed, Fits, CallerLabels
  <2> QED BY <2>1, NoticedStep, Distinct
<1>32. ASSUME SetFlag PROVE Noticed'
  BY <1>32 DEF SetFlag, Noticed, Unnoticed, Verifying, filters, syncthing
<1>33. ASSUME NEW c \in Callers, Report(c) PROVE Noticed'
  <2>1. Unnoticed' = Unnoticed /\ adopted' = adopted
    BY <1>33 DEF Report, Unnoticed, filters, syncthing
  <2>2. \A u \in Threads \ {c} : thread'[u] = thread[u] BY <1>33, ReportLands DEF Lands
  <2>3. thread'[c].at \notin {"verify", "sweep"}
    BY <1>33, ReportLands, RestIs, WhoActs, Distinct DEF Report, Lands, Loops, Fits, CallerLabels
  <2>4. Verifying' = Verifying BY <1>33, <2>2, <2>3, Distinct DEF Report, Verifying
  <2>5. c = Worker => adopted BY <1>33, Distinct DEF Report, Noticed
  <2>6. KeepsNoticed(c) BY <2>1, <2>2, <2>3, <2>4, <2>5, Distinct DEF KeepsNoticed, Noticed
  <2> QED BY <2>6, NoticedStep, Distinct
<1>34. ASSUME NEW c \in Callers, TakeReply(c) PROVE Noticed'
  <2>1. Unnoticed' = Unnoticed /\ adopted' = adopted
    BY <1>34 DEF TakeReply, Unnoticed, filters, syncthing
  <2>2. \A u \in Threads \ {c} : thread'[u] = thread[u] BY <1>34, TakeReplyLands DEF Lands
  <2>3. thread'[c].at \notin {"verify", "sweep"}
    BY <1>34, TakeReplyLands, RestIs, WhoActs, Distinct DEF TakeReply, Lands, Loops, Fits,
      CallerLabels
  <2>4. Verifying' = Verifying BY <1>34, <2>2, <2>3, Distinct DEF TakeReply, Verifying
  <2>5. c = Worker => adopted BY <1>34, Distinct DEF TakeReply, Noticed
  <2>6. KeepsNoticed(c) BY <2>1, <2>2, <2>3, <2>4, <2>5, Distinct DEF KeepsNoticed, Noticed
  <2> QED BY <2>6, NoticedStep, Distinct
<1>35. ASSUME NEW c \in Callers, Lift(c) PROVE Noticed'
  <2>1. \A u \in Threads \ {c} : thread'[u] = thread[u]
    BY <1>35, LetGoLands, GotoLands, LabelsAre, Distinct DEF Lift, Lands
  <2>2. Unnoticed' = Unnoticed /\ adopted' = adopted
    BY <1>35 DEF Lift, Unnoticed, filters, syncthing
  <2>3. Unnoticed \subseteq Folders BY TypesAre DEF Unnoticed, Records
  <2>4. Verifying' = Verifying BY <2>1, Distinct DEF Verifying
  <2>5. \/ Lands(c, "sweep", {}, {}, "gate") /\ adopted
        \/ Lands(c, "verify", Folders, {}, "gate")
        \/ Lands(c, "off", thread[c].todo, thread[c].cur, thread[c].back)
    BY <1>35, LetGoLands, GotoLands, LabelsAre, Distinct DEF Lift
  <2>6. KeepsNoticed(c)
    BY <2>1, <2>2, <2>3, <2>4, <2>5, Distinct DEF KeepsNoticed, Lands, Loops, Noticed
  <2> QED BY <2>6, NoticedStep, Distinct
<1>36. ASSUME Restarted PROVE Noticed'
  <2>1. \A t \in Threads : thread'[t].at \in {"off", "gate"}
    BY <1>36, RelaunchLands, RestIs, LabelsAre DEF Restarted
  <2>2. thread'[Worker].at = "off" BY <1>36, RelaunchLands, RestIs, Distinct DEF Restarted
  <2> QED BY <1>36, <2>1, <2>2, Distinct DEF Restarted, Relaunch, Noticed
<1>37. CASE UNCHANGED vars
  BY <1>37 DEF Noticed, Unnoticed, Verifying, vars, halting, lanes, filters, syncthing
<1> QED BY <1>1, <1>2, <1>3, <1>4, <1>5, <1>6, <1>7, <1>8, <1>9, <1>10, <1>11, <1>12, <1>13,
  <1>14, <1>15, <1>16, <1>17, <1>18, <1>19, <1>20, <1>21, <1>22, <1>23, <1>24, <1>25, <1>26,
  <1>27, <1>28, <1>29, <1>30, <1>31, <1>32, <1>33, <1>34, <1>35, <1>36, <1>37, Actions

LEMMA StartsNoticed == Init => Noticed
<1> SUFFICES ASSUME Init PROVE Noticed OBVIOUS
<1>1. \A t \in Threads : thread[t].at \in {"off", "gate"} BY RestIs, LabelsAre DEF Init
<1>2. thread[Worker].at = "off" BY RestIs, Distinct DEF Init
<1> QED BY <1>1, <1>2, Distinct DEF Init, Noticed

\* Past the writing of the folder's filter in a turn.
Passed == {"accepted", "accept", "unpause", "turn", "check", "retry"}

\* What a thread is about to release may run.
Fit(r) ==
  /\ r.at \in {"sweeping", "release"} => r.todo \subseteq filtered \cup rushed
  /\ r.at = "release" => r.cur \subseteq filtered \cup rushed
  /\ r.at \in Passed => r.cur \subseteq filtered

Ready == \A t \in Threads : Fit(thread[t])

LEMMA FitAtRest == Fit(None)' BY RestIs DEF Fit, Passed

KeepsReady(t) ==
  /\ \A u \in Threads \ {t} : thread'[u] = thread[u]
  /\ filtered \subseteq filtered' /\ rushed \subseteq rushed' /\ Fit(thread[t])'

LEMMA ReadyStep ==
  ASSUME Ready, NEW t \in Threads, KeepsReady(t)
  PROVE  Ready'
<1> USE DEF KeepsReady
<1>1. \A u \in Threads \ {t} : Fit(thread[u])' BY DEF Ready, Fit
<1> QED BY <1>1 DEF Ready

\* What a sweep takes up is filtered, or its verification is still to come.
LEMMA SweepsReady ==
  ASSUME Base, Noticed, NEW t \in Threads, NEW S \in SUBSET Folders,
         adopted \/ S = {} \/ (thread[t].at = "sweep" /\ thread[t].back = "gate"),
         t = Worker => Verifying = {},
         LET todo == IF Halted THEN {} ELSE (S \cap known) \ (latched \cup half \cup running)
         IN rushed' = IF Halted \/ t = Worker THEN rushed ELSE rushed \cup (todo \cap Verifying)
  PROVE  LET todo == IF Halted THEN {} ELSE (S \cap known) \ (latched \cup half \cup running)
         IN todo \subseteq filtered \cup rushed'
<1>1. CASE Halted BY <1>1
<1>2. CASE S = {} BY <1>2
<1>3. CASE ~Halted /\ S # {}
  <2>1. thread[t].at = "sweep" /\ thread[t].back = "gate" => t \in Callers
    BY WhoActs, Distinct DEF Base, Fits
  <2>2. Unnoticed \subseteq Verifying BY <1>3, <2>1 DEF Noticed
  <2>3. (S \cap known) \ (latched \cup half \cup running) \subseteq filtered \cup Verifying
    BY <2>2 DEF Unnoticed
  <2>4. t = Worker => Verifying = {} OBVIOUS
  <2> QED BY <1>3, <2>3, <2>4
<1> QED BY <1>1, <1>2, <1>3

LEMMA ReadyKept ==
  Base /\ Noticed /\ Ready /\ [Next]_vars => Ready'
<1> SUFFICES ASSUME Base, Noticed, Ready, [Next]_vars PROVE Ready' OBVIOUS
<1> USE DEF Base
<1>1. ASSUME NEW t \in Threads, Sweep(t) PROVE Ready'
  <2>1. PICK S \in SUBSET Folders :
          /\ thread[t].back = "off" /\ ~adopted => S = {}
          /\ LET todo == IF Halted THEN {} ELSE (S \cap known) \ (latched \cup half \cup running)
             IN /\ todo \in SUBSET Folders
                /\ Lands(t, "sweeping", todo, {}, thread[t].back)
                /\ rushed' = IF Halted \/ t = Worker THEN rushed
                             ELSE rushed \cup (todo \cap Verifying)
    BY <1>1, SweepLands
  <2> DEFINE todo == IF Halted THEN {} ELSE (S \cap known) \ (latched \cup half \cup running)
  <2>2. Lands(t, "sweeping", todo, {}, thread[t].back) BY <2>1
  <2>3. filtered' = filtered BY <1>1 DEF Sweep, syncthing
  <2>4. todo \subseteq filtered \cup rushed'
    <3>1. thread[t].at = "sweep" BY <1>1 DEF Sweep
    <3>2. t # Repause /\ (t = Worker => thread[t].back = "turns") /\ thread[t].back \in {"off", "gate", "turns"}
      BY <3>1, WhoActs, Distinct DEF Fits
    <3>3. adopted \/ S = {} \/ (thread[t].at = "sweep" /\ thread[t].back = "gate")
      <4>1. CASE t = Worker BY <3>1, <4>1 DEF Noticed
      <4>2. CASE t # Worker
        <5>1. thread[t].back \in {"off", "gate"} BY <3>1, <3>2, <4>2, WhoActs, Distinct DEF Fits
        <5> QED BY <2>1, <3>1, <5>1
      <4> QED BY <4>1, <4>2
    <3>4. t = Worker => Verifying = {} BY <3>1 DEF Verifying
    <3> QED BY <2>1, <3>2, <3>3, <3>4, SweepsReady, Distinct
  <2>5. rushed \subseteq rushed' BY <2>1
  <2> HIDE DEF todo
  <2>6. Fit(thread[t])'
    BY <2>2, <2>3, <2>4, Distinct, WhoActs, <1>1, SetsAre DEF Lands, Loops, Fit, Passed, Fits,
      CallerLabels, Sweep
  <2>7. \A u \in Threads \ {t} : thread'[u] = thread[u] BY <2>2 DEF Lands
  <2> QED BY <2>3, <2>5, <2>6, <2>7, ReadyStep, Distinct DEF KeepsReady
<1>2. ASSUME NEW t \in Threads, NEW f \in Folders, Release(t, f) PROVE Ready'
  <2>1. KeepsReady(t)
    BY <1>2, ReleaseLands, WhoActs, Distinct, RestIs, AfterIs
    DEF Release, KeepsReady, Ready, Fit, Passed, syncthing, Lands, Loops, Fits, CallerLabels
  <2> QED BY <2>1, ReadyStep, Distinct
<1>3. ASSUME NEW t \in Threads, Unpaused(t) PROVE Ready'
  <2>1. KeepsReady(t)
    BY <1>3, UnpausedLands, WhoActs, Distinct, RestIs, AfterIs
    DEF Unpaused, KeepsReady, Ready, Fit, Passed, syncthing, Lands, Loops, Fits, CallerLabels
  <2> QED BY <2>1, ReadyStep, Distinct
<1>4. ASSUME NEW t \in Threads, UnpauseFails(t) PROVE Ready'
  <2>1. KeepsReady(t)
    BY <1>4, UnpauseFailsLands, WhoActs, Distinct, RestIs, AfterIs
    DEF UnpauseFails, KeepsReady, Ready, Fit, Passed, syncthing, Lands, Loops, Fits, CallerLabels
  <2> QED BY <2>1, ReadyStep, Distinct
<1>5. ASSUME NEW t \in Threads, NEW f \in Folders, Verify(t, f) PROVE Ready'
  <2>1. KeepsReady(t)
    BY <1>5, VerifyLands, WhoActs, Distinct, RestIs, AfterIs
    DEF Verify, KeepsReady, Ready, Fit, Passed, syncthing, Lands, Loops, Fits, CallerLabels
  <2> QED BY <2>1, ReadyStep, Distinct
<1>6. ASSUME NEW t \in Threads, NEW f \in Folders, VerifyFails(t, f) PROVE Ready'
  <2>1. KeepsReady(t)
    BY <1>6, VerifyFailsLands, WhoActs, Distinct, RestIs, AfterIs
    DEF VerifyFails, KeepsReady, Ready, Fit, Passed, syncthing, Lands, Loops, Fits, CallerLabels
  <2> QED BY <2>1, ReadyStep, Distinct
<1>7. ASSUME Adopt PROVE Ready'
  <2>1. KeepsReady(Worker)
    BY <1>7, AdoptLands, WhoActs, Distinct, RestIs, AfterIs
    DEF Adopt, KeepsReady, Ready, Fit, Passed, syncthing, Lands, Loops, Fits, CallerLabels
  <2> QED BY <2>1, ReadyStep, Distinct
<1>8. ASSUME Stands PROVE Ready'
  <2>1. KeepsReady(Worker)
    BY <1>8, StandsLands, WhoActs, Distinct, RestIs, AfterIs
    DEF Stands, KeepsReady, Ready, Fit, Passed, syncthing, Lands, Loops, Fits, CallerLabels
  <2> QED BY <2>1, ReadyStep, Distinct
<1>9. ASSUME Unpark PROVE Ready'
  <2>1. KeepsReady(Worker)
    BY <1>9, UnparkLands, WhoActs, Distinct, RestIs, AfterIs
    DEF Unpark, KeepsReady, Ready, Fit, Passed, syncthing, Lands, Loops, Fits, CallerLabels
  <2> QED BY <2>1, ReadyStep, Distinct
<1>10. ASSUME NEW f \in Folders, Turn(f) PROVE Ready'
  <2>1. KeepsReady(Worker)
    BY <1>10, TurnLands, WhoActs, Distinct, RestIs, AfterIs
    DEF Turn, KeepsReady, Ready, Fit, Passed, syncthing, Lands, Loops, Fits, CallerLabels
  <2> QED BY <2>1, ReadyStep, Distinct
<1>11. ASSUME PassEnds PROVE Ready'
  <2>1. KeepsReady(Worker)
    BY <1>11, PassEndsLands, WhoActs, Distinct, RestIs, AfterIs
    DEF PassEnds, KeepsReady, Ready, Fit, Passed, syncthing, Lands, Loops, Fits, CallerLabels
  <2> QED BY <2>1, ReadyStep, Distinct
<1>12. ASSUME Offer PROVE Ready'
  <2>1. KeepsReady(Worker)
    BY <1>12, OfferLands, WhoActs, Distinct, RestIs, AfterIs
    DEF Offer, KeepsReady, Ready, Fit, Passed, syncthing, Lands, Loops, Fits, CallerLabels
  <2> QED BY <2>1, ReadyStep, Distinct
<1>13. ASSUME SetIgnores PROVE Ready'
  <2>1. KeepsReady(Worker)
    BY <1>13, SetIgnoresLands, WhoActs, Distinct, RestIs, AfterIs
    DEF SetIgnores, KeepsReady, Ready, Fit, Passed, syncthing, Lands, Loops, Fits, CallerLabels
  <2> QED BY <2>1, ReadyStep, Distinct
<1>14. ASSUME AcceptFails PROVE Ready'
  <2>1. KeepsReady(Worker)
    BY <1>14, AcceptFailsLands, WhoActs, Distinct, RestIs, AfterIs
    DEF AcceptFails, KeepsReady, Ready, Fit, Passed, syncthing, Lands, Loops, Fits, CallerLabels
  <2> QED BY <2>1, ReadyStep, Distinct
<1>15. ASSUME Accepted PROVE Ready'
  <2>1. KeepsReady(Worker)
    BY <1>15, AcceptedLands, WhoActs, Distinct, RestIs, AfterIs
    DEF Accepted, KeepsReady, Ready, Fit, Passed, syncthing, Lands, Loops, Fits, CallerLabels
  <2> QED BY <2>1, ReadyStep, Distinct
<1>16. ASSUME Reassert PROVE Ready'
  <2>1. KeepsReady(Worker)
    BY <1>16, ReassertLands, WhoActs, Distinct, RestIs, AfterIs
    DEF Reassert, KeepsReady, Ready, Fit, Passed, syncthing, Lands, Loops, Fits, CallerLabels
  <2> QED BY <2>1, ReadyStep, Distinct
<1>17. ASSUME ReassertFails PROVE Ready'
  <2>1. KeepsReady(Worker)
    BY <1>17, ReassertFailsLands, WhoActs, Distinct, RestIs, AfterIs
    DEF ReassertFails, KeepsReady, Ready, Fit, Passed, syncthing, Lands, Loops, Fits, CallerLabels
  <2> QED BY <2>1, ReadyStep, Distinct
<1>18. ASSUME Unpause PROVE Ready'
  <2>1. KeepsReady(Worker)
    BY <1>18, UnpauseLands, WhoActs, Distinct, RestIs, AfterIs
    DEF Unpause, KeepsReady, Ready, Fit, Passed, syncthing, Lands, Loops, Fits, CallerLabels
  <2> QED BY <2>1, ReadyStep, Distinct
<1>19. ASSUME Check PROVE Ready'
  <2>1. KeepsReady(Worker)
    BY <1>19, CheckLands, WhoActs, Distinct, RestIs, AfterIs
    DEF Check, KeepsReady, Ready, Fit, Passed, syncthing, Lands, Loops, Fits, CallerLabels
  <2> QED BY <2>1, ReadyStep, Distinct
<1>20. ASSUME NEW c \in Callers, PressStop(c) PROVE Ready'
  <2>1. KeepsReady(c)
    BY <1>20, PressStopLands, WhoActs, Distinct, RestIs, AfterIs
    DEF PressStop, KeepsReady, Ready, Fit, Passed, syncthing, Lands, Loops, Fits, CallerLabels
  <2> QED BY <2>1, ReadyStep, Distinct
<1>21. ASSUME NEW c \in Callers, HaltAll(c) PROVE Ready'
  <2>1. KeepsReady(c)
    BY <1>21, HaltAllLands, WhoActs, Distinct, RestIs, AfterIs
    DEF HaltAll, KeepsReady, Ready, Fit, Passed, syncthing, Lands, Loops, Fits, CallerLabels
  <2> QED BY <2>1, ReadyStep, Distinct
<1>22. ASSUME NEW c \in Callers, Quit(c) PROVE Ready'
  <2>1. KeepsReady(c)
    BY <1>22, QuitLands, WhoActs, Distinct, RestIs, AfterIs
    DEF Quit, KeepsReady, Ready, Fit, Passed, syncthing, Lands, Loops, Fits, CallerLabels
  <2> QED BY <2>1, ReadyStep, Distinct
<1>23. ASSUME NEW c \in Callers, Joined(c) PROVE Ready'
  <2>1. PICK S \in SUBSET Folders :
          /\ ~adopted => S = {}
          /\ LET todo == IF Halted THEN {} ELSE (S \cap known) \ (latched \cup half \cup running)
             IN /\ todo \in SUBSET Folders
                /\ Lands(c, "sweeping", todo, {}, "down")
                /\ rushed' = IF Halted THEN rushed ELSE rushed \cup (todo \cap Verifying)
    BY <1>23, JoinedLands
  <2> DEFINE todo == IF Halted THEN {} ELSE (S \cap known) \ (latched \cup half \cup running)
  <2>2. Lands(c, "sweeping", todo, {}, "down") BY <2>1
  <2>3. filtered' = filtered BY <1>23 DEF Joined, syncthing
  <2>4. todo \subseteq filtered \cup rushed'
    <3>1. c \in Threads /\ c # Worker BY Distinct
    <3> QED BY <2>1, <3>1, SweepsReady
  <2>5. rushed \subseteq rushed' BY <2>1
  <2> HIDE DEF todo
  <2>6. Fit(thread[c])' BY <2>2, <2>3, <2>4, Distinct DEF Lands, Loops, Fit, Passed
  <2>7. \A u \in Threads \ {c} : thread'[u] = thread[u] BY <2>2 DEF Lands
  <2> QED BY <2>3, <2>5, <2>6, <2>7, ReadyStep, Distinct DEF KeepsReady
<1>24. ASSUME NEW c \in Callers, LanesDown(c) PROVE Ready'
  <2>1. KeepsReady(c)
    BY <1>24, LanesDownLands, WhoActs, Distinct, RestIs, AfterIs
    DEF LanesDown, KeepsReady, Ready, Fit, Passed, syncthing, Lands, Loops, Fits, CallerLabels
  <2> QED BY <2>1, ReadyStep, Distinct
<1>25. ASSUME NEW c \in Callers, NEW f \in Folders, PauseFolder(c, f) PROVE Ready'
  <2>1. KeepsReady(c)
    BY <1>25, PauseFolderLands, WhoActs, Distinct, RestIs, AfterIs
    DEF PauseFolder, KeepsReady, Ready, Fit, Passed, syncthing, Lands, Loops, Fits, CallerLabels
  <2> QED BY <2>1, ReadyStep, Distinct
<1>26. ASSUME NEW t \in Threads, NEW f \in Folders, HoldNext(t, f) PROVE Ready'
  <2>1. KeepsReady(t)
    BY <1>26, HoldNextLands, WhoActs, Distinct, RestIs, AfterIs
    DEF HoldNext, KeepsReady, Ready, Fit, Passed, syncthing, Lands, Loops, Fits, CallerLabels
  <2> QED BY <2>1, ReadyStep, Distinct
<1>27. ASSUME NEW t \in Threads, Held(t) PROVE Ready'
  <2>1. KeepsReady(t)
    BY <1>27, HeldLands, WhoActs, Distinct, RestIs, AfterIs
    DEF Held, KeepsReady, Ready, Fit, Passed, syncthing, Lands, Loops, Fits, CallerLabels
  <2> QED BY <2>1, ReadyStep, Distinct
<1>28. ASSUME NEW c \in Callers, PressClear(c) PROVE Ready'
  <2>1. KeepsReady(c)
    BY <1>28, LetGoLands, WhoActs, Distinct, RestIs, AfterIs
    DEF PressClear, KeepsReady, Ready, Fit, Passed, syncthing, Lands, Loops, Fits, CallerLabels
  <2> QED BY <2>1, ReadyStep, Distinct
<1>29. ASSUME NEW c \in Callers, Gate(c) PROVE Ready'
  <2>1. filtered' = filtered /\ rushed' = rushed BY <1>29 DEF Gate, syncthing
  <2>2. \A t \in Threads : thread'[t] = thread[t] \/ thread'[t].at \in {"off", "start", "holding"}
    BY <1>29, GateLands, RestIs, LabelsAre
  <2> QED BY <2>1, <2>2 DEF Ready, Fit, Passed
<1>30. ASSUME NEW c \in Callers, Start(c) PROVE Ready'
  <2>1. filtered' = filtered /\ rushed' = rushed BY <1>30 DEF Start, syncthing
  <2>2. \A t \in Threads : thread'[t] = thread[t] \/ thread'[t].at \in {"off", "adopt"}
    BY <1>30, StartLands, RestIs, LabelsAre
  <2> QED BY <2>1, <2>2 DEF Ready, Fit, Passed
<1>31. ASSUME NEW c \in Callers, TogglePause(c) PROVE Ready'
  <2>1. KeepsReady(c)
    BY <1>31, TogglePauseLands, WhoActs, Distinct, RestIs, AfterIs
    DEF TogglePause, KeepsReady, Ready, Fit, Passed, syncthing, Lands, Loops, Fits, CallerLabels
  <2> QED BY <2>1, ReadyStep, Distinct
<1>32. ASSUME SetFlag PROVE Ready'
  BY <1>32 DEF SetFlag, Ready, Fit, syncthing
<1>33. ASSUME NEW c \in Callers, Report(c) PROVE Ready'
  <2>1. KeepsReady(c)
    BY <1>33, ReportLands, WhoActs, Distinct, RestIs, AfterIs
    DEF Report, KeepsReady, Ready, Fit, Passed, syncthing, Lands, Loops, Fits, CallerLabels
  <2> QED BY <2>1, ReadyStep, Distinct
<1>34. ASSUME NEW c \in Callers, TakeReply(c) PROVE Ready'
  <2>1. KeepsReady(c)
    BY <1>34, TakeReplyLands, WhoActs, Distinct, RestIs, AfterIs
    DEF TakeReply, KeepsReady, Ready, Fit, Passed, syncthing, Lands, Loops, Fits, CallerLabels
  <2> QED BY <2>1, ReadyStep, Distinct
<1>35. ASSUME NEW c \in Callers, Lift(c) PROVE Ready'
  <2>1. KeepsReady(c)
    BY <1>35, LetGoLands, GotoLands, LabelsAre, WhoActs, Distinct, RestIs, AfterIs
    DEF Lift, KeepsReady, Ready, Fit, Passed, syncthing, Lands, Loops, Fits, CallerLabels
  <2> QED BY <2>1, ReadyStep, Distinct
<1>36. ASSUME Restarted PROVE Ready'
  <2>1. \A t \in Threads : thread'[t].at \in {"off", "gate"}
    BY <1>36, RelaunchLands, RestIs, LabelsAre DEF Restarted
  <2> QED BY <2>1 DEF Ready, Fit, Passed
<1>37. CASE UNCHANGED vars BY <1>37 DEF Ready, Fit, vars, halting, lanes, filters, syncthing
<1> QED BY <1>1, <1>2, <1>3, <1>4, <1>5, <1>6, <1>7, <1>8, <1>9, <1>10, <1>11, <1>12, <1>13,
  <1>14, <1>15, <1>16, <1>17, <1>18, <1>19, <1>20, <1>21, <1>22, <1>23, <1>24, <1>25, <1>26,
  <1>27, <1>28, <1>29, <1>30, <1>31, <1>32, <1>33, <1>34, <1>35, <1>36, <1>37, Actions

LEMMA StartsReady == Init => Ready /\ FilteredFirst
<1> SUFFICES ASSUME Init PROVE Ready /\ FilteredFirst OBVIOUS
<1>1. \A t \in Threads : thread[t].at \in {"off", "gate"} BY RestIs, LabelsAre DEF Init
<1> QED BY <1>1 DEF Init, Ready, Fit, Passed, FilteredFirst

LEMMA FilteredKept ==
  Base /\ Ready /\ FilteredFirst /\ [Next]_vars => FilteredFirst'
<1> SUFFICES ASSUME Base, Ready, FilteredFirst, [Next]_vars PROVE FilteredFirst' OBVIOUS
<1> USE DEF Base
<1>1. ASSUME NEW t \in Threads, Sweep(t) PROVE FilteredFirst'
  <2>1. rushed \subseteq rushed' BY <1>1, SweepLands
  <2> QED BY <1>1, <2>1 DEF Sweep, FilteredFirst, syncthing
<1>2. ASSUME NEW t \in Threads, NEW f \in Folders, Release(t, f) PROVE FilteredFirst'
  BY <1>2, ReleaseLands DEF Release, FilteredFirst, syncthing
<1>3. ASSUME NEW t \in Threads, Unpaused(t) PROVE FilteredFirst'
  <2>1. Fit(thread[t]) BY DEF Ready
  <2>2. thread[t].cur \cap known \subseteq filtered \cup rushed
    BY <1>3, <2>1, AfterIs DEF Unpaused, Fit, Passed
  <2> QED BY <1>3, <2>2 DEF Unpaused, FilteredFirst
<1>4. ASSUME NEW t \in Threads, UnpauseFails(t) PROVE FilteredFirst'
  BY <1>4, UnpauseFailsLands DEF UnpauseFails, FilteredFirst, syncthing
<1>5. ASSUME NEW t \in Threads, NEW f \in Folders, Verify(t, f) PROVE FilteredFirst'
  BY <1>5, VerifyLands DEF Verify, FilteredFirst, syncthing
<1>6. ASSUME NEW t \in Threads, NEW f \in Folders, VerifyFails(t, f) PROVE FilteredFirst'
  BY <1>6, VerifyFailsLands DEF VerifyFails, FilteredFirst, syncthing
<1>7. ASSUME Adopt PROVE FilteredFirst'
  BY <1>7, AdoptLands DEF Adopt, FilteredFirst, syncthing
<1>8. ASSUME Stands PROVE FilteredFirst'
  BY <1>8, StandsLands DEF Stands, FilteredFirst, syncthing
<1>9. ASSUME Unpark PROVE FilteredFirst'
  BY <1>9, UnparkLands DEF Unpark, FilteredFirst, syncthing
<1>10. ASSUME NEW f \in Folders, Turn(f) PROVE FilteredFirst'
  BY <1>10, TurnLands DEF Turn, FilteredFirst, syncthing
<1>11. ASSUME PassEnds PROVE FilteredFirst'
  BY <1>11, PassEndsLands DEF PassEnds, FilteredFirst, syncthing
<1>12. ASSUME Offer PROVE FilteredFirst'
  BY <1>12, OfferLands DEF Offer, FilteredFirst, syncthing
<1>13. ASSUME SetIgnores PROVE FilteredFirst'
  BY <1>13, SetIgnoresLands DEF SetIgnores, FilteredFirst, syncthing
<1>14. ASSUME AcceptFails PROVE FilteredFirst'
  BY <1>14, AcceptFailsLands DEF AcceptFails, FilteredFirst, syncthing
<1>15. ASSUME Accepted PROVE FilteredFirst'
  BY <1>15, AcceptedLands DEF Accepted, FilteredFirst, syncthing
<1>16. ASSUME Reassert PROVE FilteredFirst'
  BY <1>16, ReassertLands DEF Reassert, FilteredFirst, syncthing
<1>17. ASSUME ReassertFails PROVE FilteredFirst'
  BY <1>17, ReassertFailsLands DEF ReassertFails, FilteredFirst, syncthing
<1>18. ASSUME Unpause PROVE FilteredFirst'
  BY <1>18, UnpauseLands DEF Unpause, FilteredFirst, syncthing
<1>19. ASSUME Check PROVE FilteredFirst'
  BY <1>19, CheckLands DEF Check, FilteredFirst, syncthing
<1>20. ASSUME NEW c \in Callers, PressStop(c) PROVE FilteredFirst'
  BY <1>20, PressStopLands DEF PressStop, FilteredFirst, syncthing
<1>21. ASSUME NEW c \in Callers, HaltAll(c) PROVE FilteredFirst'
  BY <1>21, HaltAllLands DEF HaltAll, FilteredFirst, syncthing
<1>22. ASSUME NEW c \in Callers, Quit(c) PROVE FilteredFirst'
  BY <1>22, QuitLands DEF Quit, FilteredFirst, syncthing
<1>23. ASSUME NEW c \in Callers, Joined(c) PROVE FilteredFirst'
  <2>1. rushed \subseteq rushed' BY <1>23, JoinedLands
  <2> QED BY <1>23, <2>1 DEF Joined, FilteredFirst, syncthing
<1>24. ASSUME NEW c \in Callers, LanesDown(c) PROVE FilteredFirst'
  BY <1>24, LanesDownLands DEF LanesDown, FilteredFirst, syncthing
<1>25. ASSUME NEW c \in Callers, NEW f \in Folders, PauseFolder(c, f) PROVE FilteredFirst'
  BY <1>25, PauseFolderLands DEF PauseFolder, FilteredFirst, syncthing
<1>26. ASSUME NEW t \in Threads, NEW f \in Folders, HoldNext(t, f) PROVE FilteredFirst'
  BY <1>26, HoldNextLands DEF HoldNext, FilteredFirst, syncthing
<1>27. ASSUME NEW t \in Threads, Held(t) PROVE FilteredFirst'
  BY <1>27, HeldLands DEF Held, FilteredFirst, syncthing
<1>28. ASSUME NEW c \in Callers, PressClear(c) PROVE FilteredFirst'
  BY <1>28, LetGoLands DEF PressClear, FilteredFirst, syncthing
<1>29. ASSUME NEW c \in Callers, Gate(c) PROVE FilteredFirst'
  BY <1>29, GateLands DEF Gate, FilteredFirst, syncthing
<1>30. ASSUME NEW c \in Callers, Start(c) PROVE FilteredFirst'
  BY <1>30, StartLands DEF Start, FilteredFirst, syncthing
<1>31. ASSUME NEW c \in Callers, TogglePause(c) PROVE FilteredFirst'
  BY <1>31, TogglePauseLands DEF TogglePause, FilteredFirst, syncthing
<1>32. ASSUME SetFlag PROVE FilteredFirst'
  BY <1>32 DEF SetFlag, FilteredFirst, syncthing
<1>33. ASSUME NEW c \in Callers, Report(c) PROVE FilteredFirst'
  BY <1>33, ReportLands DEF Report, FilteredFirst, syncthing
<1>34. ASSUME NEW c \in Callers, TakeReply(c) PROVE FilteredFirst'
  BY <1>34, TakeReplyLands DEF TakeReply, FilteredFirst, syncthing
<1>35. ASSUME NEW c \in Callers, Lift(c) PROVE FilteredFirst'
  BY <1>35, LetGoLands, GotoLands, LabelsAre DEF Lift, FilteredFirst, syncthing
<1>36. ASSUME Restarted PROVE FilteredFirst'
  BY <1>36, RelaunchLands DEF Restarted, Relaunch, FilteredFirst, syncthing, syncthing
<1>37. CASE UNCHANGED vars BY <1>37 DEF FilteredFirst, vars, halting, lanes, filters, syncthing
<1> QED BY <1>1, <1>2, <1>3, <1>4, <1>5, <1>6, <1>7, <1>8, <1>9, <1>10, <1>11, <1>12, <1>13,
  <1>14, <1>15, <1>16, <1>17, <1>18, <1>19, <1>20, <1>21, <1>22, <1>23, <1>24, <1>25, <1>26,
  <1>27, <1>28, <1>29, <1>30, <1>31, <1>32, <1>33, <1>34, <1>35, <1>36, <1>37, Actions

-----------------------------------------------------------------------------
BaseInv == Base /\ Noticed /\ Ready /\ FilteredFirst

LEMMA BaseHolds == Spec => []BaseInv
<1>1. Init => BaseInv
  BY StartsTyped, StartsHand, StartsPlaced, StartsNoticed, StartsReady DEF BaseInv, Base
<1>2. BaseInv /\ [Next]_vars => BaseInv'
  BY TypeKept, InHandKept, PlacedKept, NoticedKept, ReadyKept, FilteredKept DEF BaseInv, Base
<1> QED BY <1>1, <1>2, PTL DEF Spec

\* Every variable keeps its type: in particular Syncthing runs and filters only
\* folders that exist there (accept_folder creates the folder before it sends
\* the ignores), and no thread is in a place the code does not have.
THEOREM TypeCorrect == Spec => []TypeOK
<1>1. BaseInv => TypeOK BY DEF BaseInv, Base
<1> QED BY <1>1, BaseHolds, PTL

\* No folder runs without its .stignore, except one released by another thread's
\* sweep before the startup verification had got to it.
THEOREM OnlyFilteredRun == Spec => []FilteredFirst
<1>1. BaseInv => FilteredFirst BY DEF BaseInv
<1> QED BY <1>1, BaseHolds, PTL

-----------------------------------------------------------------------------
(* A start has the process to itself *)

NoBoot == \A c \in Callers : errand[c] # "boot"

Booting ==
  \A c \in Callers : errand[c] = "boot" =>
    /\ thread[c].at \in {"gate", "start"}
    /\ thread[c].at = "start" => ~Halted
    /\ \A t \in Threads \ {c} : thread[t] = None

LEMMA BootAlone ==
  ASSUME Booting, NEW t \in Threads, thread[t].at \notin {"off", "gate", "start"}
  PROVE  NoBoot
BY RestIs DEF Booting, NoBoot

LEMMA BootingKept ==
  Base /\ Booting /\ [Next]_vars => Booting'
<1> SUFFICES ASSUME Base, Booting, [Next]_vars PROVE Booting' OBVIOUS
<1> USE DEF Base
<1>1. ASSUME NEW t \in Threads, Sweep(t) PROVE Booting'
  <2>1. NoBoot BY <1>1, BootAlone, Distinct, AfterIs DEF Sweep, Idle, NoBoot
  <2>2. NoBoot' BY <1>1, <2>1, TypesAre DEF Sweep, NoBoot, Errands
  <2> QED BY <2>2 DEF NoBoot, Booting
<1>2. ASSUME NEW t \in Threads, NEW f \in Folders, Release(t, f) PROVE Booting'
  <2>1. NoBoot BY <1>2, BootAlone, Distinct, AfterIs DEF Release, Idle, NoBoot
  <2>2. NoBoot' BY <1>2, <2>1, TypesAre DEF Release, NoBoot, Errands
  <2> QED BY <2>2 DEF NoBoot, Booting
<1>3. ASSUME NEW t \in Threads, Unpaused(t) PROVE Booting'
  <2>1. NoBoot BY <1>3, BootAlone, Distinct, AfterIs DEF Unpaused, Idle, NoBoot
  <2>2. NoBoot' BY <1>3, <2>1, TypesAre DEF Unpaused, NoBoot, Errands
  <2> QED BY <2>2 DEF NoBoot, Booting
<1>4. ASSUME NEW t \in Threads, UnpauseFails(t) PROVE Booting'
  <2>1. NoBoot BY <1>4, BootAlone, Distinct, AfterIs DEF UnpauseFails, Idle, NoBoot
  <2>2. NoBoot' BY <1>4, <2>1, TypesAre DEF UnpauseFails, NoBoot, Errands
  <2> QED BY <2>2 DEF NoBoot, Booting
<1>5. ASSUME NEW t \in Threads, NEW f \in Folders, Verify(t, f) PROVE Booting'
  <2>1. NoBoot BY <1>5, BootAlone, Distinct, AfterIs DEF Verify, Idle, NoBoot
  <2>2. NoBoot' BY <1>5, <2>1, TypesAre DEF Verify, NoBoot, Errands
  <2> QED BY <2>2 DEF NoBoot, Booting
<1>6. ASSUME NEW t \in Threads, NEW f \in Folders, VerifyFails(t, f) PROVE Booting'
  <2>1. NoBoot BY <1>6, BootAlone, Distinct, AfterIs DEF VerifyFails, Idle, NoBoot
  <2>2. NoBoot' BY <1>6, <2>1, TypesAre DEF VerifyFails, NoBoot, Errands
  <2> QED BY <2>2 DEF NoBoot, Booting
<1>7. ASSUME Adopt PROVE Booting'
  <2>1. NoBoot BY <1>7, BootAlone, Distinct, AfterIs DEF Adopt, Idle, NoBoot
  <2>2. NoBoot' BY <1>7, <2>1, TypesAre DEF Adopt, NoBoot, Errands
  <2> QED BY <2>2 DEF NoBoot, Booting
<1>8. ASSUME Stands PROVE Booting'
  <2>1. NoBoot BY <1>8, BootAlone, Distinct, AfterIs DEF Stands, Idle, NoBoot
  <2>2. NoBoot' BY <1>8, <2>1, TypesAre DEF Stands, NoBoot, Errands
  <2> QED BY <2>2 DEF NoBoot, Booting
<1>9. ASSUME Unpark PROVE Booting'
  <2>1. NoBoot BY <1>9, BootAlone, Distinct, AfterIs DEF Unpark, Idle, NoBoot
  <2>2. NoBoot' BY <1>9, <2>1, TypesAre DEF Unpark, NoBoot, Errands
  <2> QED BY <2>2 DEF NoBoot, Booting
<1>10. ASSUME NEW f \in Folders, Turn(f) PROVE Booting'
  <2>1. NoBoot BY <1>10, BootAlone, Distinct, AfterIs DEF Turn, Idle, NoBoot
  <2>2. NoBoot' BY <1>10, <2>1, TypesAre DEF Turn, NoBoot, Errands
  <2> QED BY <2>2 DEF NoBoot, Booting
<1>11. ASSUME PassEnds PROVE Booting'
  <2>1. NoBoot BY <1>11, BootAlone, Distinct, AfterIs DEF PassEnds, Idle, NoBoot
  <2>2. NoBoot' BY <1>11, <2>1, TypesAre DEF PassEnds, NoBoot, Errands
  <2> QED BY <2>2 DEF NoBoot, Booting
<1>12. ASSUME Offer PROVE Booting'
  <2>1. NoBoot BY <1>12, BootAlone, Distinct, AfterIs DEF Offer, Idle, NoBoot
  <2>2. NoBoot' BY <1>12, <2>1, TypesAre DEF Offer, NoBoot, Errands
  <2> QED BY <2>2 DEF NoBoot, Booting
<1>13. ASSUME SetIgnores PROVE Booting'
  <2>1. NoBoot BY <1>13, BootAlone, Distinct, AfterIs DEF SetIgnores, Idle, NoBoot
  <2>2. NoBoot' BY <1>13, <2>1, TypesAre DEF SetIgnores, NoBoot, Errands
  <2> QED BY <2>2 DEF NoBoot, Booting
<1>14. ASSUME AcceptFails PROVE Booting'
  <2>1. NoBoot BY <1>14, BootAlone, Distinct, AfterIs DEF AcceptFails, Idle, NoBoot
  <2>2. NoBoot' BY <1>14, <2>1, TypesAre DEF AcceptFails, NoBoot, Errands
  <2> QED BY <2>2 DEF NoBoot, Booting
<1>15. ASSUME Accepted PROVE Booting'
  <2>1. NoBoot BY <1>15, BootAlone, Distinct, AfterIs DEF Accepted, Idle, NoBoot
  <2>2. NoBoot' BY <1>15, <2>1, TypesAre DEF Accepted, NoBoot, Errands
  <2> QED BY <2>2 DEF NoBoot, Booting
<1>16. ASSUME Reassert PROVE Booting'
  <2>1. NoBoot BY <1>16, BootAlone, Distinct, AfterIs DEF Reassert, Idle, NoBoot
  <2>2. NoBoot' BY <1>16, <2>1, TypesAre DEF Reassert, NoBoot, Errands
  <2> QED BY <2>2 DEF NoBoot, Booting
<1>17. ASSUME ReassertFails PROVE Booting'
  <2>1. NoBoot BY <1>17, BootAlone, Distinct, AfterIs DEF ReassertFails, Idle, NoBoot
  <2>2. NoBoot' BY <1>17, <2>1, TypesAre DEF ReassertFails, NoBoot, Errands
  <2> QED BY <2>2 DEF NoBoot, Booting
<1>18. ASSUME Unpause PROVE Booting'
  <2>1. NoBoot BY <1>18, BootAlone, Distinct, AfterIs DEF Unpause, Idle, NoBoot
  <2>2. NoBoot' BY <1>18, <2>1, TypesAre DEF Unpause, NoBoot, Errands
  <2> QED BY <2>2 DEF NoBoot, Booting
<1>19. ASSUME Check PROVE Booting'
  <2>1. NoBoot BY <1>19, BootAlone, Distinct, AfterIs DEF Check, Idle, NoBoot
  <2>2. NoBoot' BY <1>19, <2>1, TypesAre DEF Check, NoBoot, Errands
  <2> QED BY <2>2 DEF NoBoot, Booting
<1>20. ASSUME NEW c \in Callers, PressStop(c) PROVE Booting'
  <2>1. NoBoot BY <1>20, BootAlone, Distinct, AfterIs DEF PressStop, Idle, NoBoot
  <2>2. NoBoot' BY <1>20, <2>1, TypesAre DEF PressStop, NoBoot, Errands
  <2> QED BY <2>2 DEF NoBoot, Booting
<1>21. ASSUME NEW c \in Callers, HaltAll(c) PROVE Booting'
  <2>1. NoBoot BY <1>21, BootAlone, Distinct, AfterIs DEF HaltAll, Idle, NoBoot
  <2>2. NoBoot' BY <1>21, <2>1, TypesAre DEF HaltAll, NoBoot, Errands
  <2> QED BY <2>2 DEF NoBoot, Booting
<1>22. ASSUME NEW c \in Callers, Quit(c) PROVE Booting'
  <2>1. NoBoot BY <1>22, BootAlone, Distinct, AfterIs DEF Quit, Idle, NoBoot
  <2>2. NoBoot' BY <1>22, <2>1, TypesAre DEF Quit, NoBoot, Errands
  <2> QED BY <2>2 DEF NoBoot, Booting
<1>23. ASSUME NEW c \in Callers, Joined(c) PROVE Booting'
  <2>1. NoBoot BY <1>23, BootAlone, Distinct, AfterIs DEF Joined, Idle, NoBoot
  <2>2. NoBoot' BY <1>23, <2>1, TypesAre DEF Joined, NoBoot, Errands
  <2> QED BY <2>2 DEF NoBoot, Booting
<1>24. ASSUME NEW c \in Callers, LanesDown(c) PROVE Booting'
  <2>1. NoBoot BY <1>24, BootAlone, Distinct, AfterIs DEF LanesDown, Idle, NoBoot
  <2>2. NoBoot' BY <1>24, <2>1, TypesAre DEF LanesDown, NoBoot, Errands
  <2> QED BY <2>2 DEF NoBoot, Booting
<1>25. ASSUME NEW c \in Callers, NEW f \in Folders, PauseFolder(c, f) PROVE Booting'
  <2>1. NoBoot BY <1>25, BootAlone, Distinct, AfterIs DEF PauseFolder, Idle, NoBoot
  <2>2. NoBoot' BY <1>25, <2>1, TypesAre DEF PauseFolder, NoBoot, Errands
  <2> QED BY <2>2 DEF NoBoot, Booting
<1>26. ASSUME NEW t \in Threads, NEW f \in Folders, HoldNext(t, f) PROVE Booting'
  <2>1. NoBoot BY <1>26, BootAlone, Distinct, AfterIs DEF HoldNext, Idle, NoBoot
  <2>2. NoBoot' BY <1>26, <2>1, TypesAre DEF HoldNext, NoBoot, Errands
  <2> QED BY <2>2 DEF NoBoot, Booting
<1>27. ASSUME NEW t \in Threads, Held(t) PROVE Booting'
  <2>1. NoBoot BY <1>27, BootAlone, Distinct, AfterIs DEF Held, Idle, NoBoot
  <2>2. NoBoot' BY <1>27, <2>1, TypesAre DEF Held, NoBoot, Errands
  <2> QED BY <2>2 DEF NoBoot, Booting
<1>28. ASSUME NEW c \in Callers, PressClear(c) PROVE Booting'
  <2>1. NoBoot BY <1>28, BootAlone, Distinct, AfterIs DEF PressClear, Idle, NoBoot
  <2>2. NoBoot' BY <1>28, <2>1, TypesAre DEF PressClear, NoBoot, Errands
  <2> QED BY <2>2 DEF NoBoot, Booting
<1>29. ASSUME NEW c \in Callers, Gate(c) PROVE Booting'
  <2>1. thread[c].at = "gate" BY <1>29 DEF Gate
  <2>2. CASE errand[c] = "boot"
    <3>1. \A d \in Callers \ {c} : errand[d] # "boot"
      BY <2>1, <2>2, RestIs, Distinct DEF Booting
    <3>2. \A d \in Callers \ {c} : errand'[d] # "boot" BY <1>29, <3>1, TypesAre DEF Gate, Errands
    <3>3. CASE paused \/ Halted
      <4>1. errand'[c] # "boot" BY <1>29, <3>3, TypesAre DEF Gate, Errands
      <4> QED BY <3>2, <4>1 DEF Booting
    <3>4. CASE ~(paused \/ Halted)
      <4>1. \A t \in Threads \ {c} : thread'[t] = None
        BY <1>29, <2>2, <3>4, GateLands, Distinct DEF Booting
      <4>2. thread'[c].at = "start" BY <1>29, <3>4, GateLands, RestIs, LabelsAre
      <4>3. ~Halted' BY <1>29, <3>4 DEF Gate, Halted, halting
      <4> QED BY <3>2, <4>1, <4>2, <4>3 DEF Booting
    <3> QED BY <3>3, <3>4
  <2>3. CASE errand[c] # "boot"
    <3>1. NoBoot BY <2>1, <2>3, RestIs, Distinct DEF Booting, NoBoot
    <3>2. NoBoot' BY <1>29, <3>1, TypesAre DEF Gate, NoBoot, Errands
    <3> QED BY <3>2 DEF NoBoot, Booting
  <2> QED BY <2>2, <2>3
<1>30. ASSUME NEW c \in Callers, Start(c) PROVE Booting'
  <2>1. thread[c].at = "start" BY <1>30 DEF Start
  <2>2. \A d \in Callers \ {c} : errand[d] # "boot" BY <2>1, RestIs, Distinct DEF Booting
  <2>3. NoBoot' BY <1>30, <2>2, TypesAre DEF Start, NoBoot, Errands
  <2> QED BY <2>3 DEF NoBoot, Booting
<1>31. ASSUME NEW c \in Callers, TogglePause(c) PROVE Booting'
  <2>1. NoBoot BY <1>31, BootAlone, Distinct, AfterIs DEF TogglePause, Idle, NoBoot
  <2>2. NoBoot' BY <1>31, <2>1, TypesAre DEF TogglePause, NoBoot, Errands
  <2> QED BY <2>2 DEF NoBoot, Booting
<1>32. ASSUME SetFlag PROVE Booting'
  BY <1>32 DEF SetFlag, Booting, Halted, halting
<1>33. ASSUME NEW c \in Callers, Report(c) PROVE Booting'
  <2>1. NoBoot BY <1>33, BootAlone, Distinct, AfterIs DEF Report, Idle, NoBoot
  <2>2. NoBoot' BY <1>33, <2>1, TypesAre DEF Report, NoBoot, Errands
  <2> QED BY <2>2 DEF NoBoot, Booting
<1>34. ASSUME NEW c \in Callers, TakeReply(c) PROVE Booting'
  <2>1. NoBoot BY <1>34, BootAlone, Distinct, AfterIs DEF TakeReply, Idle, NoBoot
  <2>2. NoBoot' BY <1>34, <2>1, TypesAre DEF TakeReply, NoBoot, Errands
  <2> QED BY <2>2 DEF NoBoot, Booting
<1>35. ASSUME NEW c \in Callers, Lift(c) PROVE Booting'
  <2>1. NoBoot BY <1>35, BootAlone, Distinct, AfterIs DEF Lift, Idle, NoBoot
  <2>2. NoBoot' BY <1>35, <2>1, TypesAre DEF Lift, NoBoot, Errands
  <2> QED BY <2>2 DEF NoBoot, Booting
<1>36. ASSUME Restarted PROVE Booting'
  <2>1. PICK c \in Callers :
          /\ thread'[c] = At("gate") /\ \A d \in Callers \ {c} : errand'[d] = "none"
          /\ \A t \in Threads \ {c} : thread'[t] = None
    BY <1>36, RelaunchLands DEF Restarted
  <2>2. thread'[c].at = "gate" BY <2>1, RestIs, LabelsAre
  <2> QED BY <2>1, <2>2 DEF Booting
<1>37. CASE UNCHANGED vars BY <1>37 DEF Booting, Halted, vars, halting, lanes, filters, syncthing
<1> QED BY <1>1, <1>2, <1>3, <1>4, <1>5, <1>6, <1>7, <1>8, <1>9, <1>10, <1>11, <1>12, <1>13,
  <1>14, <1>15, <1>16, <1>17, <1>18, <1>19, <1>20, <1>21, <1>22, <1>23, <1>24, <1>25, <1>26,
  <1>27, <1>28, <1>29, <1>30, <1>31, <1>32, <1>33, <1>34, <1>35, <1>36, <1>37, Actions

-----------------------------------------------------------------------------
(* Who will still act on a halt *)

\* On the way to latching lanes A and B, and to pausing the folders.
Stopping(c) ==
  \/ thread[c].at \in {"halting", "joining", "down"}
  \/ thread[c].at \in {"sweeping", "release"} /\ thread[c].back = "down"

\* ... or about to start the re-pause.
Obliged(c) == Stopping(c) \/ (thread[c].at = "gate" /\ errand[c] = "boot")

\* Pausing what runs unexcused, all of it.
Covers(t) ==
  \/ thread[t].at \in {"pausing", "holding"} /\ running \ excused \subseteq thread[t].todo
  \/ thread[t].at = "pause" /\ running \ excused \subseteq thread[t].todo \cup thread[t].cur

Spared       == \A t \in Threads : thread[t].at \in DOMAIN After => thread[t].cur \subseteq excused
StartsLate   == \A c \in Callers : thread[c].at = "start" => late
StopsComing  == late \/ ~armed \/ \E c \in Callers : Stopping(c)
PausesComing == \/ running \subseteq excused
                \/ \E c \in Callers : Obliged(c)
                \/ \E t \in Threads : Covers(t)

Standing == Spared /\ StartsLate /\ StopsComing /\ PausesComing
HeldOff == Halted => Standing

\* What a step of thread x has to keep for a halt to stand.
KeepsHalt(x) ==
  /\ \A u \in Threads \ {x} : thread'[u] = thread[u]
  /\ \A d \in Callers \ {x} : errand'[d] = errand[d]
  /\ halt' = halt /\ late' = late /\ (armed' => armed)
  /\ Halted =>
       /\ excused \subseteq excused' /\ running' \subseteq running \cup excused'
       /\ thread'[x].at \in DOMAIN After => thread'[x].cur \subseteq excused'
       /\ x \in Callers =>
            /\ thread'[x].at = "start" => late
            /\ Stopping(x) => Stopping(x)' \/ ~armed'
            /\ Obliged(x) => Obliged(x)' \/ Covers(x)' \/ running' \subseteq excused'
       /\ Covers(x) => Covers(x)' \/ running' \subseteq excused'

LEMMA HeldStep ==
  ASSUME HeldOff, NEW x \in Threads, KeepsHalt(x)
  PROVE  HeldOff'
<1> USE DEF KeepsHalt
<1> SUFFICES ASSUME Halted' PROVE Standing' BY DEF HeldOff
<1>1. Halted /\ Standing BY DEF Halted, HeldOff
<1>2. Spared' BY <1>1 DEF Standing, Spared
<1>3. StartsLate' BY <1>1, Distinct DEF Standing, StartsLate
<1>4. \A c \in Callers \ {x} : Stopping(c) => Stopping(c)' BY Distinct DEF Stopping
<1>5. StopsComing' BY <1>1, <1>4 DEF Standing, StopsComing
<1>6. \A c \in Callers \ {x} : Obliged(c) => Obliged(c)' BY <1>4, Distinct DEF Obliged
<1>7. \A t \in Threads \ {x} : Covers(t) => Covers(t)' BY <1>1 DEF Covers
<1>8. running \subseteq excused => running' \subseteq excused' BY <1>1
<1>9. PausesComing' BY <1>1, <1>6, <1>7, <1>8 DEF Standing, PausesComing
<1> QED BY <1>2, <1>3, <1>5, <1>9 DEF Standing

\* Whoever engages the halt is bound to act on it.
LEMMA EngageHolds ==
  ASSUME HeldOff, NEW c \in Callers, NEW s \in {"local", "fleet"}, Engage(s),
         \A u \in Threads \ {c} : thread'[u] = thread[u],
         thread[c].at # "start", thread'[c].at \in {"halting", "joining"},
         running' = running
  PROVE  HeldOff'
<1> SUFFICES ASSUME Halted' PROVE Standing' BY DEF HeldOff
<1>1. Stopping(c)' BY DEF Stopping
<1>2. c \in Threads BY Distinct
<1>3. thread'[c].at \notin DOMAIN After BY AfterIs
<1>4. CASE Halted
  <2>1. Spared /\ StartsLate /\ excused' = excused /\ late' = late
    BY <1>4 DEF HeldOff, Standing, Engage
  <2>2. Spared' BY <1>2, <1>3, <2>1 DEF Spared
  <2>3. StartsLate' BY <2>1, Distinct DEF StartsLate
  <2> QED BY <1>1, <2>2, <2>3 DEF Standing, StopsComing, PausesComing, Obliged
<1>5. CASE ~Halted
  <2>1. excused' = Unpausing /\ (late' <=> \E d \in Callers : thread[d].at = "start")
    BY <1>5 DEF Engage
  <2>2. \A t \in Threads : thread[t].at \in DOMAIN After => thread[t].cur \subseteq Unpausing
    BY DEF Unpausing
  <2>3. Spared' BY <1>2, <1>3, <2>1, <2>2 DEF Spared
  <2>4. StartsLate' BY <2>1, Distinct DEF StartsLate
  <2> QED BY <1>1, <2>3, <2>4 DEF Standing, StopsComing, PausesComing, Obliged
<1> QED BY <1>4, <1>5

LEMMA HeldOffKept ==
  Base /\ Booting /\ HeldOff /\ [Next]_vars => HeldOff'
<1> SUFFICES ASSUME Base, Booting, HeldOff, [Next]_vars PROVE HeldOff' OBVIOUS
<1> USE DEF Base
<1>1. ASSUME NEW t \in Threads, Sweep(t) PROVE HeldOff'
  <2>1. KeepsHalt(t)
    BY <1>1, SweepLands, WhoActs, Distinct, RestIs, AfterIs, TypesAre
    DEF Sweep, KeepsHalt, halting, lanes, syncthing, Errands, Lands, Loops, HeldOff, Standing, Spared,
        Stopping, Obliged, Covers, Fits, CallerLabels, WorkerLabels, Idle
  <2> QED BY <2>1, HeldStep, Distinct
<1>2. ASSUME NEW t \in Threads, NEW f \in Folders, Release(t, f) PROVE HeldOff'
  <2>1. KeepsHalt(t)
    BY <1>2, ReleaseLands, WhoActs, Distinct, RestIs, AfterIs, TypesAre
    DEF Release, KeepsHalt, halting, lanes, syncthing, Errands, Lands, Loops, HeldOff, Standing, Spared,
        Stopping, Obliged, Covers, Fits, CallerLabels, WorkerLabels, Idle
  <2> QED BY <2>1, HeldStep, Distinct
<1>3. ASSUME NEW t \in Threads, Unpaused(t) PROVE HeldOff'
  <2>1. KeepsHalt(t)
    BY <1>3, UnpausedLands, WhoActs, Distinct, RestIs, AfterIs, TypesAre
    DEF Unpaused, KeepsHalt, halting, lanes, syncthing, Errands, Lands, Loops, HeldOff, Standing, Spared,
        Stopping, Obliged, Covers, Fits, CallerLabels, WorkerLabels, Idle
  <2> QED BY <2>1, HeldStep, Distinct
<1>4. ASSUME NEW t \in Threads, UnpauseFails(t) PROVE HeldOff'
  <2>1. KeepsHalt(t)
    BY <1>4, UnpauseFailsLands, WhoActs, Distinct, RestIs, AfterIs, TypesAre
    DEF UnpauseFails, KeepsHalt, halting, lanes, syncthing, Errands, Lands, Loops, HeldOff, Standing, Spared,
        Stopping, Obliged, Covers, Fits, CallerLabels, WorkerLabels, Idle
  <2> QED BY <2>1, HeldStep, Distinct
<1>5. ASSUME NEW t \in Threads, NEW f \in Folders, Verify(t, f) PROVE HeldOff'
  <2>1. KeepsHalt(t)
    BY <1>5, VerifyLands, WhoActs, Distinct, RestIs, AfterIs, TypesAre
    DEF Verify, KeepsHalt, halting, lanes, syncthing, Errands, Lands, Loops, HeldOff, Standing, Spared,
        Stopping, Obliged, Covers, Fits, CallerLabels, WorkerLabels, Idle
  <2> QED BY <2>1, HeldStep, Distinct
<1>6. ASSUME NEW t \in Threads, NEW f \in Folders, VerifyFails(t, f) PROVE HeldOff'
  <2>1. KeepsHalt(t)
    BY <1>6, VerifyFailsLands, WhoActs, Distinct, RestIs, AfterIs, TypesAre
    DEF VerifyFails, KeepsHalt, halting, lanes, syncthing, Errands, Lands, Loops, HeldOff, Standing, Spared,
        Stopping, Obliged, Covers, Fits, CallerLabels, WorkerLabels, Idle
  <2> QED BY <2>1, HeldStep, Distinct
<1>7. ASSUME Adopt PROVE HeldOff'
  <2>1. KeepsHalt(Worker)
    BY <1>7, AdoptLands, WhoActs, Distinct, RestIs, AfterIs, TypesAre
    DEF Adopt, KeepsHalt, halting, lanes, syncthing, Errands, Lands, Loops, HeldOff, Standing, Spared,
        Stopping, Obliged, Covers, Fits, CallerLabels, WorkerLabels, Idle
  <2> QED BY <2>1, HeldStep, Distinct
<1>8. ASSUME Stands PROVE HeldOff'
  <2>1. KeepsHalt(Worker)
    BY <1>8, StandsLands, WhoActs, Distinct, RestIs, AfterIs, TypesAre
    DEF Stands, KeepsHalt, halting, lanes, syncthing, Errands, Lands, Loops, HeldOff, Standing, Spared,
        Stopping, Obliged, Covers, Fits, CallerLabels, WorkerLabels, Idle
  <2> QED BY <2>1, HeldStep, Distinct
<1>9. ASSUME Unpark PROVE HeldOff'
  <2>1. KeepsHalt(Worker)
    BY <1>9, UnparkLands, WhoActs, Distinct, RestIs, AfterIs, TypesAre
    DEF Unpark, KeepsHalt, halting, lanes, syncthing, Errands, Lands, Loops, HeldOff, Standing, Spared,
        Stopping, Obliged, Covers, Fits, CallerLabels, WorkerLabels, Idle
  <2> QED BY <2>1, HeldStep, Distinct
<1>10. ASSUME NEW f \in Folders, Turn(f) PROVE HeldOff'
  <2>1. KeepsHalt(Worker)
    BY <1>10, TurnLands, WhoActs, Distinct, RestIs, AfterIs, TypesAre
    DEF Turn, KeepsHalt, halting, lanes, syncthing, Errands, Lands, Loops, HeldOff, Standing, Spared,
        Stopping, Obliged, Covers, Fits, CallerLabels, WorkerLabels, Idle
  <2> QED BY <2>1, HeldStep, Distinct
<1>11. ASSUME PassEnds PROVE HeldOff'
  <2>1. KeepsHalt(Worker)
    BY <1>11, PassEndsLands, WhoActs, Distinct, RestIs, AfterIs, TypesAre
    DEF PassEnds, KeepsHalt, halting, lanes, syncthing, Errands, Lands, Loops, HeldOff, Standing, Spared,
        Stopping, Obliged, Covers, Fits, CallerLabels, WorkerLabels, Idle
  <2> QED BY <2>1, HeldStep, Distinct
<1>12. ASSUME Offer PROVE HeldOff'
  <2>1. KeepsHalt(Worker)
    BY <1>12, OfferLands, WhoActs, Distinct, RestIs, AfterIs, TypesAre
    DEF Offer, KeepsHalt, halting, lanes, syncthing, Errands, Lands, Loops, HeldOff, Standing, Spared,
        Stopping, Obliged, Covers, Fits, CallerLabels, WorkerLabels, Idle
  <2> QED BY <2>1, HeldStep, Distinct
<1>13. ASSUME SetIgnores PROVE HeldOff'
  <2>1. KeepsHalt(Worker)
    BY <1>13, SetIgnoresLands, WhoActs, Distinct, RestIs, AfterIs, TypesAre
    DEF SetIgnores, KeepsHalt, halting, lanes, syncthing, Errands, Lands, Loops, HeldOff, Standing, Spared,
        Stopping, Obliged, Covers, Fits, CallerLabels, WorkerLabels, Idle
  <2> QED BY <2>1, HeldStep, Distinct
<1>14. ASSUME AcceptFails PROVE HeldOff'
  <2>1. KeepsHalt(Worker)
    BY <1>14, AcceptFailsLands, WhoActs, Distinct, RestIs, AfterIs, TypesAre
    DEF AcceptFails, KeepsHalt, halting, lanes, syncthing, Errands, Lands, Loops, HeldOff, Standing, Spared,
        Stopping, Obliged, Covers, Fits, CallerLabels, WorkerLabels, Idle
  <2> QED BY <2>1, HeldStep, Distinct
<1>15. ASSUME Accepted PROVE HeldOff'
  <2>1. KeepsHalt(Worker)
    BY <1>15, AcceptedLands, WhoActs, Distinct, RestIs, AfterIs, TypesAre
    DEF Accepted, KeepsHalt, halting, lanes, syncthing, Errands, Lands, Loops, HeldOff, Standing, Spared,
        Stopping, Obliged, Covers, Fits, CallerLabels, WorkerLabels, Idle
  <2> QED BY <2>1, HeldStep, Distinct
<1>16. ASSUME Reassert PROVE HeldOff'
  <2>1. KeepsHalt(Worker)
    BY <1>16, ReassertLands, WhoActs, Distinct, RestIs, AfterIs, TypesAre
    DEF Reassert, KeepsHalt, halting, lanes, syncthing, Errands, Lands, Loops, HeldOff, Standing, Spared,
        Stopping, Obliged, Covers, Fits, CallerLabels, WorkerLabels, Idle
  <2> QED BY <2>1, HeldStep, Distinct
<1>17. ASSUME ReassertFails PROVE HeldOff'
  <2>1. KeepsHalt(Worker)
    BY <1>17, ReassertFailsLands, WhoActs, Distinct, RestIs, AfterIs, TypesAre
    DEF ReassertFails, KeepsHalt, halting, lanes, syncthing, Errands, Lands, Loops, HeldOff, Standing, Spared,
        Stopping, Obliged, Covers, Fits, CallerLabels, WorkerLabels, Idle
  <2> QED BY <2>1, HeldStep, Distinct
<1>18. ASSUME Unpause PROVE HeldOff'
  <2>1. KeepsHalt(Worker)
    BY <1>18, UnpauseLands, WhoActs, Distinct, RestIs, AfterIs, TypesAre
    DEF Unpause, KeepsHalt, halting, lanes, syncthing, Errands, Lands, Loops, HeldOff, Standing, Spared,
        Stopping, Obliged, Covers, Fits, CallerLabels, WorkerLabels, Idle
  <2> QED BY <2>1, HeldStep, Distinct
<1>19. ASSUME Check PROVE HeldOff'
  <2>1. KeepsHalt(Worker)
    BY <1>19, CheckLands, WhoActs, Distinct, RestIs, AfterIs, TypesAre
    DEF Check, KeepsHalt, halting, lanes, syncthing, Errands, Lands, Loops, HeldOff, Standing, Spared,
        Stopping, Obliged, Covers, Fits, CallerLabels, WorkerLabels, Idle
  <2> QED BY <2>1, HeldStep, Distinct
<1>20. ASSUME NEW c \in Callers, PressStop(c) PROVE HeldOff'
  <2>1. Engage("local") /\ running' = running /\ thread[c].at \in {"off", "halting"}
    BY <1>20 DEF PressStop, Idle, syncthing
  <2>2. thread'[c].at = "joining" /\ \A u \in Threads \ {c} : thread'[u] = thread[u]
    BY <1>20, PressStopLands DEF Lands, Loops
  <2> QED BY <2>1, <2>2, EngageHolds
<1>21. ASSUME NEW c \in Callers, HaltAll(c) PROVE HeldOff'
  <2>1. Engage("fleet") /\ running' = running /\ thread[c].at \in {"off", "halting"}
    BY <1>21 DEF HaltAll, Idle, syncthing
  <2>2. thread'[c].at = "joining" /\ \A u \in Threads \ {c} : thread'[u] = thread[u]
    BY <1>21, HaltAllLands DEF Lands, Loops
  <2> QED BY <2>1, <2>2, EngageHolds
<1>22. ASSUME NEW c \in Callers, Quit(c) PROVE HeldOff'
  <2>1. KeepsHalt(c)
    BY <1>22, QuitLands, WhoActs, Distinct, RestIs, AfterIs, TypesAre
    DEF Quit, KeepsHalt, halting, lanes, syncthing, Errands, Lands, Loops, HeldOff, Standing, Spared,
        Stopping, Obliged, Covers, Fits, CallerLabels, WorkerLabels, Idle
  <2> QED BY <2>1, HeldStep, Distinct
<1>23. ASSUME NEW c \in Callers, Joined(c) PROVE HeldOff'
  <2>1. KeepsHalt(c)
    BY <1>23, JoinedLands, WhoActs, Distinct, RestIs, AfterIs, TypesAre
    DEF Joined, KeepsHalt, halting, lanes, syncthing, Errands, Lands, Loops, HeldOff, Standing, Spared,
        Stopping, Obliged, Covers, Fits, CallerLabels, WorkerLabels, Idle
  <2> QED BY <2>1, HeldStep, Distinct
<1>24. ASSUME NEW c \in Callers, LanesDown(c) PROVE HeldOff'
  <2>1. UNCHANGED <<halt, late, excused, running, errand>> /\ ~armed'
    BY <1>24 DEF LanesDown, halting, syncthing
  <2>2. PICK S \in SUBSET Folders, l \in {"pausing", "holding"} :
          Lands(c, l, S, {}, "off") /\ running \subseteq S
    BY <1>24, LanesDownLands, TypesAre DEF Records
  <2>3. thread'[c].at \in {"pausing", "holding", "off"} BY <2>2, RestIs DEF Lands, Loops
  <2>4. S = {} => running' \subseteq excused' BY <2>1, <2>2
  <2>5. S # {} => Covers(c)' BY <2>1, <2>2 DEF Lands, Covers
  <2>6. thread[c].at = "down" BY <1>24 DEF LanesDown
  <2>7. ~Covers(c) BY <2>6 DEF Covers
  <2>8. KeepsHalt(c) BY <2>1, <2>2, <2>3, <2>4, <2>5, <2>7, AfterIs DEF KeepsHalt, Lands
  <2> QED BY <2>8, HeldStep, Distinct
<1>25. ASSUME NEW c \in Callers, NEW f \in Folders, PauseFolder(c, f) PROVE HeldOff'
  <2>1. KeepsHalt(c)
    BY <1>25, PauseFolderLands, WhoActs, Distinct, RestIs, AfterIs, TypesAre
    DEF PauseFolder, KeepsHalt, halting, lanes, syncthing, Errands, Lands, Loops, HeldOff, Standing, Spared,
        Stopping, Obliged, Covers, Fits, CallerLabels, WorkerLabels, Idle
  <2> QED BY <2>1, HeldStep, Distinct
<1>26. ASSUME NEW t \in Threads, NEW f \in Folders, HoldNext(t, f) PROVE HeldOff'
  <2>1. KeepsHalt(t)
    BY <1>26, HoldNextLands, WhoActs, Distinct, RestIs, AfterIs, TypesAre
    DEF HoldNext, KeepsHalt, halting, lanes, syncthing, Errands, Lands, Loops, HeldOff, Standing, Spared,
        Stopping, Obliged, Covers, Fits, CallerLabels, WorkerLabels, Idle
  <2> QED BY <2>1, HeldStep, Distinct
<1>27. ASSUME NEW t \in Threads, Held(t) PROVE HeldOff'
  <2>1. KeepsHalt(t)
    BY <1>27, HeldLands, WhoActs, Distinct, RestIs, AfterIs, TypesAre
    DEF Held, KeepsHalt, halting, lanes, syncthing, Errands, Lands, Loops, HeldOff, Standing, Spared,
        Stopping, Obliged, Covers, Fits, CallerLabels, WorkerLabels, Idle
  <2> QED BY <2>1, HeldStep, Distinct
<1>28. ASSUME NEW c \in Callers, PressClear(c) PROVE HeldOff'
  <2>1. ~Halted' BY <1>28 DEF PressClear, Halted
  <2> QED BY <2>1 DEF HeldOff
<1>29. ASSUME NEW c \in Callers, Gate(c) PROVE HeldOff'
  <2>1. UNCHANGED <<halt, late, excused, armed, running>> /\ thread[c].at = "gate"
    BY <1>29 DEF Gate, halting, lanes, syncthing
  <2> SUFFICES ASSUME Halted' PROVE Standing' BY DEF HeldOff
  <2>2. Halted /\ Standing BY <2>1 DEF Halted, HeldOff
  <2>3. \A u \in Threads \ {c, Repause} : thread'[u] = thread[u] BY <1>29, GateLands
  <2>4. thread'[c] = None /\ thread'[c].at = "off" BY <1>29, <2>2, GateLands, RestIs
  <2>5. thread'[Repause].at \notin DOMAIN After
    BY <1>29, <2>2, GateLands, RestIs, WhoActs, Distinct, AfterIs DEF Fits
  <2>6. Spared' BY <2>1, <2>2, <2>3, <2>4, <2>5, AfterIs DEF Standing, Spared
  <2>7. StartsLate' BY <2>1, <2>2, <2>3, <2>4, Distinct DEF Standing, StartsLate
  <2>8. \A d \in Callers : Stopping(d) => Stopping(d)'
    BY <2>1, <2>3, Distinct DEF Stopping
  <2>9. StopsComing' BY <2>1, <2>2, <2>8 DEF Standing, StopsComing
  <2>10. CASE thread[Repause] = None
    <3>1. running = {} \/ Covers(Repause)'
      BY <1>29, <2>1, <2>2, <2>10, GateLands DEF Covers
    <3> QED BY <2>1, <2>6, <2>7, <2>9, <3>1, Distinct DEF Standing, PausesComing
  <2>11. CASE thread[Repause] # None
    <3>1. errand[c] # "boot" BY <2>11, Distinct DEF Booting
    <3>2. thread'[Repause] = thread[Repause] BY <1>29, <2>11, GateLands
    <3>3. \A t \in Threads : Covers(t) => Covers(t)' BY <2>1, <2>3, <3>2 DEF Covers
    <3>4. ~Obliged(c) BY <2>1, <3>1 DEF Obliged, Stopping
    <3>5. \A d \in Callers \ {c} : errand'[d] = errand[d] BY <1>29, TypesAre DEF Gate, Errands
    <3>6. \A d \in Callers : Obliged(d) => Obliged(d)'
      BY <2>3, <2>8, <3>4, <3>5, Distinct DEF Obliged
    <3>7. PausesComing' BY <2>1, <2>2, <3>3, <3>6 DEF Standing, PausesComing
    <3> QED BY <2>6, <2>7, <2>9, <3>7 DEF Standing
  <2> QED BY <2>10, <2>11
<1>30. ASSUME NEW c \in Callers, Start(c) PROVE HeldOff'
  <2>1. UNCHANGED <<halt, late, excused, running>> /\ thread[c].at = "start"
    BY <1>30 DEF Start, halting, syncthing
  <2> SUFFICES ASSUME Halted' PROVE Standing' BY DEF HeldOff
  <2>2. Halted /\ Standing BY <2>1 DEF Halted, HeldOff
  <2>3. late' BY <2>1, <2>2 DEF Standing, StartsLate
  <2>4. \A u \in Threads : thread'[u] = thread[u] \/ thread'[u].at \in {"off", "adopt"}
    BY <1>30, StartLands, RestIs, LabelsAre
  <2>5. Spared' BY <2>1, <2>2, <2>4, AfterIs DEF Standing, Spared
  <2>6. \A u \in Threads : thread'[u] = thread[u] \/ thread[u].at \in {"off", "start"}
    BY <1>30, <2>1, StartLands DEF Alive
  <2>7. \A d \in Callers : errand'[d] = errand[d] \/ d = c BY <1>30, TypesAre DEF Start, Errands
  <2>8. \A d \in Callers : Obliged(d) => Obliged(d)'
    BY <2>1, <2>6, <2>7, Distinct DEF Obliged, Stopping
  <2>9. \A t \in Threads : Covers(t) => Covers(t)' BY <2>1, <2>6 DEF Covers
  <2>10. PausesComing' BY <2>1, <2>2, <2>8, <2>9 DEF Standing, PausesComing
  <2> QED BY <2>3, <2>5, <2>10 DEF Standing, StartsLate, StopsComing
<1>31. ASSUME NEW c \in Callers, TogglePause(c) PROVE HeldOff'
  <2>1. KeepsHalt(c)
    BY <1>31, TogglePauseLands, WhoActs, Distinct, RestIs, AfterIs, TypesAre
    DEF TogglePause, KeepsHalt, halting, lanes, syncthing, Errands, Lands, Loops, HeldOff, Standing, Spared,
        Stopping, Obliged, Covers, Fits, CallerLabels, WorkerLabels, Idle
  <2> QED BY <2>1, HeldStep, Distinct
<1>32. ASSUME SetFlag PROVE HeldOff'
  BY <1>32 DEF SetFlag, HeldOff, Halted, Standing, Spared, StartsLate, StopsComing, PausesComing,
         Obliged, Stopping, Covers, halting, lanes, syncthing
<1>33. ASSUME NEW c \in Callers, Report(c) PROVE HeldOff'
  <2>1. KeepsHalt(c)
    BY <1>33, ReportLands, WhoActs, Distinct, RestIs, AfterIs, TypesAre
    DEF Report, KeepsHalt, halting, lanes, syncthing, Errands, Lands, Loops, HeldOff, Standing, Spared,
        Stopping, Obliged, Covers, Fits, CallerLabels, WorkerLabels, Idle
  <2> QED BY <2>1, HeldStep, Distinct
<1>34. ASSUME NEW c \in Callers, TakeReply(c) PROVE HeldOff'
  <2>1. running' = running /\ thread[c].at = "reply" BY <1>34 DEF TakeReply, syncthing
  <2>2. \A u \in Threads \ {c} : thread'[u] = thread[u]
    BY <1>34, TakeReplyLands DEF Lands
  <2>3. CASE errand[c] = "fleet" /\ halt # "fleet"
    <3>1. Engage("fleet") BY <1>34, <2>3 DEF TakeReply
    <3>2. thread'[c].at = "halting" BY <1>34, <2>3, TakeReplyLands DEF Lands, Loops
    <3> QED BY <2>1, <2>2, <3>1, <3>2, EngageHolds
  <2>4. CASE ~(errand[c] = "fleet" /\ halt # "fleet")
    <3>1. halt' = halt /\ late' = late /\ excused' = excused /\ armed' = armed
      BY <1>34, <2>4 DEF TakeReply, halting, lanes
    <3>2. thread'[c].at \in {"off", "lifting"} BY <1>34, <2>4, TakeReplyLands DEF Lands, Loops
    <3>3. \A d \in Callers \ {c} : errand'[d] = errand[d] BY <1>34, TypesAre DEF TakeReply, Errands
    <3>4. ~Stopping(c) /\ ~Obliged(c) /\ ~Covers(c) BY <2>1 DEF Stopping, Obliged, Covers
    <3>5. KeepsHalt(c) BY <2>1, <2>2, <3>1, <3>2, <3>3, <3>4, AfterIs DEF KeepsHalt
    <3> QED BY <3>5, HeldStep, Distinct
  <2> QED BY <2>3, <2>4
<1>35. ASSUME NEW c \in Callers, Lift(c) PROVE HeldOff'
  <2>1. ~Halted' BY <1>35 DEF Lift, Halted
  <2> QED BY <2>1 DEF HeldOff
<1>36. ASSUME Restarted PROVE HeldOff'
  <2>1. PICK c \in Callers :
          /\ thread'[c] = At("gate") /\ errand'[c] = "boot"
          /\ \A t \in Threads \ {c} : thread'[t] = None
    BY <1>36, RelaunchLands DEF Restarted
  <2>2. \A t \in Threads : thread'[t].at \in {"off", "gate"} BY <2>1, RestIs, LabelsAre
  <2>3. ~armed' BY <1>36 DEF Restarted, Relaunch
  <2>4. Obliged(c)' BY <2>1, RestIs, LabelsAre DEF Obliged
  <2>5. Spared' /\ StartsLate' BY <2>2, AfterIs, Distinct DEF Spared, StartsLate
  <2> QED BY <2>3, <2>4, <2>5 DEF HeldOff, Standing, StopsComing, PausesComing
<1>37. CASE UNCHANGED vars
  BY <1>37 DEF HeldOff, Halted, Standing, Spared, StartsLate, StopsComing, PausesComing, Obliged,
    Stopping, Covers, vars, halting, lanes, filters, syncthing
<1> QED BY <1>1, <1>2, <1>3, <1>4, <1>5, <1>6, <1>7, <1>8, <1>9, <1>10, <1>11, <1>12, <1>13,
  <1>14, <1>15, <1>16, <1>17, <1>18, <1>19, <1>20, <1>21, <1>22, <1>23, <1>24, <1>25, <1>26,
  <1>27, <1>28, <1>29, <1>30, <1>31, <1>32, <1>33, <1>34, <1>35, <1>36, <1>37, Actions

LEMMA StartsHalt == Init => Booting /\ HeldOff
<1> SUFFICES ASSUME Init PROVE Booting /\ HeldOff OBVIOUS
<1>1. PICK c \in Callers :
        /\ thread = [t \in Threads |-> IF t = c THEN At("gate") ELSE None]
        /\ errand = [d \in Callers |-> IF d = c THEN "boot" ELSE "none"]
  BY DEF Init
<1>2. thread[c].at = "gate" /\ errand[c] = "boot" BY <1>1, RestIs, LabelsAre, Distinct
<1>3. \A t \in Threads \ {c} : thread[t] = None BY <1>1
<1>4. \A d \in Callers : errand[d] = "boot" => d = c BY <1>1
<1>5. \A t \in Threads : thread[t].at \in {"off", "gate"} BY <1>2, <1>3, RestIs, LabelsAre
<1>6. Spared /\ StartsLate BY <1>5, AfterIs, Distinct DEF Spared, StartsLate
<1>7. ~armed BY DEF Init
<1>8. Obliged(c) BY <1>2 DEF Obliged
<1> QED BY <1>2, <1>3, <1>4, <1>6, <1>7, <1>8
        DEF Booting, HeldOff, Standing, StopsComing, PausesComing

HaltInv == BaseInv /\ Booting /\ HeldOff

LEMMA HaltInvHolds == Spec => []HaltInv
<1>1. Init => Booting /\ HeldOff BY StartsHalt
<1>2. BaseInv /\ Booting /\ HeldOff /\ [Next]_vars => (Booting /\ HeldOff)'
  BY BootingKept, HeldOffKept DEF BaseInv
<1> QED BY <1>1, <1>2, BaseHolds, PTL DEF Spec, HaltInv

\* A halt holds: once the threads that act on it are done, lanes A and B are
\* latched and every folder is paused, but for a refused pause, and an unpause
\* or a start that had asked before the halt engaged.
THEOREM HaltStands == Spec => []HaltHolds
<1>1. HaltInv => HaltHolds
  <2> SUFFICES ASSUME HaltInv, Halted, Quiet PROVE (late \/ ~armed) /\ running \subseteq excused
    BY DEF HaltHolds
  <2>1. Standing /\ Placed BY DEF HaltInv, HeldOff, BaseInv, Base
  <2>2. \A c \in Callers : ~Stopping(c) /\ ~Obliged(c)
    BY Distinct DEF Quiet, Stopping, Obliged
  <2>3. \A t \in Threads : ~Covers(t)
    BY <2>1, WhoActs, Distinct DEF Quiet, Covers, Fits, WorkerLabels
  <2> QED BY <2>1, <2>2, <2>3 DEF Standing, StopsComing, PausesComing
<1> QED BY <1>1, HaltInvHolds, PTL

\* What lands is all that makes a folder run.
LEMMA OnlyWritesRelease ==
  Next => running' \subseteq running \/ \E t \in Threads : Unpaused(t)
BY Actions DEF Sweep, Release, UnpauseFails, Verify, VerifyFails, Adopt, Stands, Unpark, Turn,
  PassEnds, Offer, SetIgnores, AcceptFails, Accepted, Reassert, ReassertFails, Unpause, Check,
  PressStop, HaltAll, Quit, Joined, LanesDown, PauseFolder, HoldNext, Held, PressClear, Gate,
  Start, TogglePause, SetFlag, Report, TakeReply, Lift, Relaunch, Restarted, syncthing

\* While a halt stands no folder begins to run, a restart included, but for the
\* unpauses that had asked before it engaged (_set_paused, accept_folder's
\* release_ok, _verify_current_folder_unpaused).
THEOREM NothingReleased ==
  Spec => [][Halted /\ Halted' => running' \subseteq running \cup excused]_vars
<1>1. ASSUME HaltInv, Halted, [Next]_vars PROVE running' \subseteq running \cup excused
  <2>1. Spared BY <1>1 DEF HaltInv, HeldOff, Standing
  <2>2. ASSUME NEW t \in Threads, Unpaused(t) PROVE running' \subseteq running \cup excused
    BY <2>1, <2>2 DEF Unpaused, Spared
  <2>3. CASE UNCHANGED vars BY <2>3 DEF vars, syncthing
  <2> QED BY <1>1, <2>2, <2>3, OnlyWritesRelease
<1>2. HaltInv /\ [Next]_vars => [Halted /\ Halted' => running' \subseteq running \cup excused]_vars
  BY <1>1
<1> QED BY <1>2, HaltInvHolds, PTL DEF Spec
====
