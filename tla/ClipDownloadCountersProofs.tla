--------------------- MODULE ClipDownloadCountersProofs ---------------------
(***************************************************************************)
(* That the counters of a job of ClipDownload are its rows, for every set   *)
(* of clips, machines and tabs and every bound.                             *)
(*                                                                          *)
(* While the executors do not cross and nothing dies, the counters are the  *)
(* rows but for what the worker, and the one request that writes for the    *)
(* job, have between a row and its count (Account).  That needs to know     *)
(* whose request it is (Talk), that no row is settled twice (Listed,        *)
(* Crediting), that what was done when the run began stays done (OldDone),  *)
(* and that a press leaves nothing failed before it resets (MarksAll).      *)
(***************************************************************************)
EXTENDS ClipDownloadSettledProofs

-----------------------------------------------------------------------------
(* The counters: what they wait for *)

\* The request of the machine that holds the job.
Talk == IF LeaseLive THEN call[job.holder] ELSE NoCall

\* A request whose caller lost the job: it can only end in a crossing.
Stuck == \E m \in Machines : call[m] # NoCall /\ TooLate(m)
Sound == Clean /\ NoMishap /\ ~Stuck

\* What the worker, and the server inside a request, have still to count, and still
\* to take off again.
One(b) == IF b THEN 1 ELSE 0
DoneAtWork(w) == One(w.pc = "count" /\ ~w.bad)
FailedAtWork(w) == One(w.pc = "count" /\ w.bad)
OffAtWork(w) == IF w.pc = "credit" THEN w.n ELSE 0
DoneInCall(k) == One(k.at = "count" /\ ~k.bad)
FailedInCall(k) == One(k.at = "count" /\ k.bad)
OffInCall(k) == IF k.at = "end" THEN k.n ELSE 0

DoneSum == job.done + DoneAtWork(wk) + DoneInCall(Talk)
FailedSum == job.failed + FailedAtWork(wk) + FailedInCall(Talk) - OffAtWork(wk) - OffInCall(Talk)

\* The counters are the rows, but for what is between a row and its count, and
\* between the marks of a press and its reset.
DoneNow == InState("done") \ hist.old
Account == /\ DoneSum = Cardinality(DoneNow)
           /\ FailedSum = Cardinality(InState("failed"))
Marking == \E t \in Tabs : tab[t] = "marked"
Balanced == Sound /\ ~hist.found /\ ~Marking => Account

\* The bounds, as they are used up.
Kept == left \in [presses : Nat, stops : Nat, claims : Nat, resends : Nat, mishaps : 0..Mishaps]

\* A job that is local is some machine's, and its pick is counted from nothing.
HolderIs == /\ job.mode = "local" => job.holder \in Machines
            /\ wk.pc = "setup" => wk.n = 0

\* The server is inside the request that the thread, if it is still there, waits for.
Waiting(r, k) ==
    k # NoCall /\ r.pc # "off" =>
        /\ r.todo = k.todo
        /\ k.at = "manifest" => r.pc = "manifest"
        /\ k.at = "say" => r.pc = "say"
        /\ k.at \in {"report", "count"} => r.pc = "report"
        /\ k.at \in {"sweep", "end"} => r.pc = IF k.todo = {} THEN "manifest" ELSE "report"
Paired ==
    /\ \A m \in Machines : run[m].pc = "manifest" => run[m].todo = {}
    /\ Clean => \A m \in Machines : Waiting(run[m], call[m])

\* What the holder has on its list is neither done nor failed, but for the clip it
\* reports.
Open(rw, S) == \A c \in S : rw[c] \in Unfinished
Listed ==
    Clean /\ LeaseLive =>
        /\ run[job.holder].pc \in {"work", "say", "fetch"} => Open(row, run[job.holder].todo)
        /\ run[job.holder].pc = "report"
             => Open(row, run[job.holder].todo \ {First(run[job.holder].todo)})
        /\ call[job.holder].at = "say" => Open(row, call[job.holder].todo)

\* What was done when the run began stays done.
OldDone == Clean => hist.old \subseteq InState("done")

\* A reclaim has the job to itself, and its list has every failed clip.
Crediting ==
    Clean /\ wk.pc = "credit" =>
        /\ job.mode = "server" /\ job.lock
        /\ \A c \in wk.todo : row[c] \in Unfinished \cup {"failed"}
        /\ InState("failed") = wk.failed \cap wk.todo

\* The marks of a press leave nothing failed.
MarksAll == Clean /\ Pressed => InState("failed") = {}

LEMMA StepKept == Kept /\ [Next]_vars => Kept'
<1> SUFFICES ASSUME Kept, [Next]_vars PROVE Kept' OBVIOUS
<1> USE DEF Kept
<1>0. Mishaps \in Nat BY ClipDownloadAssumption
<1>1. ASSUME left' = left PROVE Kept' BY <1>1
<1>2. CASE UNCHANGED vars BY <1>1, <1>2 DEF vars
<1>3. ASSUME NEW t \in Tabs, PressChecks(t) \/ Cancel(t) \/ Pin(t) \/ Answers(t) PROVE Kept'
  <2>1. CASE PressChecks(t) BY <2>1 DEF PressChecks
  <2>2. CASE Cancel(t) BY <2>2 DEF Cancel
  <2>3. CASE Pin(t) BY <2>3 DEF Pin
  <2> QED BY <1>1, <1>3, <2>1, <2>2, <2>3 DEF Answers, Marks, Clears, Starts, Expires
<1>4. ASSUME NEW m \in Machines, Claim(m) \/ Leave(m) \/ Companion(m) \/ Handler(m) PROVE Kept'
  <2>1. ASSUME NEW a, NEW next, Answered(m, a, next) PROVE Kept'
    <3>1. left' = left \/ (left.resends > 0 /\ left' = [left EXCEPT !.resends = @ - 1])
      BY <2>1 DEF Answered
    <3> QED BY <3>1
  <2>2. CASE Claim(m) BY <2>2 DEF Claim
  <2> QED BY <1>1, <1>4, <2>1, <2>2 DEF Leave, Companion, Asks, Gone, NextClip, Fetched, Handler,
          Manifest, Say, Moves, Counts, Requeues, EndsLease
<1>5. CASE (\E c \in Clips : Upload(c)) \/ Lapse BY <1>1, <1>5 DEF Upload, Lapse
<1>6. CASE ServerStep \/ Raises \/ Restart
  <2>1. left' = left \/ (left.mishaps > 0 /\ left' = [left EXCEPT !.mishaps = @ - 1])
    BY <1>6 DEF ServerStep, Picks, SetsUp, Credits, Waits, Lists, Turns, Takes, Lands,
       CountsLanded, CountsFailed, CountsBlocked, Raises, Restart
  <2> QED BY <1>0, <2>1
<1> QED BY <1>2, <1>3, <1>4, <1>5, <1>6 DEF Next

-----------------------------------------------------------------------------
(* What a step leaves as it was *)

\* Without a mishap no step was one.
LEMMA NoMishapTells ==
    ASSUME Kept, [Next]_vars, NoMishap'
    PROVE  NoMishap /\ ~Restart /\ ~Raises /\ (Lists => job' = job)
<1> USE DEF Kept, NoMishap
<1>0. Mishaps \in Nat BY ClipDownloadAssumption
<1>1. left'.mishaps = left.mishaps \/ (left.mishaps > 0 /\ left'.mishaps = left.mishaps - 1)
  <2>1. ASSUME left' = left PROVE left'.mishaps = left.mishaps BY <2>1
  <2>2. CASE UNCHANGED vars BY <2>1, <2>2 DEF vars
  <2>3. ASSUME NEW t \in Tabs, PressChecks(t) \/ Cancel(t) \/ Pin(t) \/ Answers(t)
        PROVE  left'.mishaps = left.mishaps
    BY <2>1, <2>3 DEF PressChecks, Cancel, Pin, Answers, Marks, Clears, Starts, Expires
  <2>4. ASSUME NEW m \in Machines, Claim(m) \/ Leave(m) \/ Companion(m) \/ Handler(m)
        PROVE  left'.mishaps = left.mishaps
    BY <2>1, <2>4 DEF Claim, Leave, Companion, Asks, Gone, NextClip, Fetched, Handler,
       Manifest, Say, Moves, Counts, Requeues, EndsLease, Answered
  <2>5. CASE (\E c \in Clips : Upload(c)) \/ Lapse BY <2>1, <2>5 DEF Upload, Lapse
  <2>6. CASE ServerStep \/ Raises \/ Restart
    BY <2>1, <2>6 DEF ServerStep, Picks, SetsUp, Credits, Waits, Lists, Turns, Takes, Lands,
       CountsLanded, CountsFailed, CountsBlocked, Raises, Restart
  <2> QED BY <2>2, <2>3, <2>4, <2>5, <2>6 DEF Next
<1>2. left'.mishaps = left.mishaps /\ NoMishap BY <1>0, <1>1
<1>3. ~(left' = [left EXCEPT !.mishaps = @ - 1]) BY <1>0, <1>2
<1> QED BY <1>2, <1>3 DEF Restart, Raises, Lists

\* Who talks to the server changes only as it is answered, asks or is restarted.
LEMMA CallStays ==
    ASSUME Ind, [Next]_vars, NEW m \in Machines, call'[m] # call[m], ~Restart
    PROVE  Asks(m) \/ Handler(m)
<1>0. call \in [Machines -> Call] BY DEF Ind, TypeOK
<1>1. CASE UNCHANGED vars BY <1>1 DEF vars
<1>2. ASSUME NEW t \in Tabs, PressChecks(t) \/ Cancel(t) \/ Pin(t) \/ Answers(t) PROVE FALSE
  BY <1>2 DEF PressChecks, Cancel, Pin, Answers, Marks, Clears, Starts, Expires
<1>3. ASSUME NEW x \in Machines, Claim(x) \/ Leave(x) \/ Companion(x) PROVE Asks(m)
  <2>1. CASE Asks(x) BY <1>0, <2>1 DEF Asks
  <2> QED BY <1>3, <2>1 DEF Claim, Leave, Companion, Gone, NextClip, Fetched
<1>4. ASSUME NEW x \in Machines, Handler(x) PROVE x = m
  <2>1. ASSUME NEW a, NEW next, Answered(x, a, next) PROVE call' = [call EXCEPT ![x] = NoCall]
    BY <2>1 DEF Answered
  <2>2. \/ \E a, next : Answered(x, a, next)
        \/ \E a : call' = [call EXCEPT ![x].at = a]
        \/ \E a, n : call' = [call EXCEPT ![x].at = a, ![x].n = n]
    BY <1>4 DEF Handler, Manifest, Say, Moves, Counts, Requeues, EndsLease
  <2> QED BY <1>0, <2>1, <2>2
<1>5. CASE (\E c \in Clips : Upload(c)) \/ Lapse BY <1>5 DEF Upload, Lapse
<1>6. CASE ServerStep \/ Raises
  BY <1>6 DEF ServerStep, Picks, SetsUp, Credits, Waits, Lists, Turns, Takes, Lands,
     CountsLanded, CountsFailed, CountsBlocked, Raises
<1> QED BY <1>1, <1>2, <1>3, <1>4, <1>5, <1>6 DEF Next

\* A claim that crosses nobody finds no request of the claimant in the server.
LEMMA ClaimFinds ==
    ASSUME Ind, NEW m \in Machines, Claim(m), Clean'
    PROVE  /\ call[m] = NoCall /\ call' = call
           /\ job'.holder = m /\ LeaseLive' /\ (LeaseLive => job.holder = m)
<1>1. hist'.crossed = (hist.crossed \/ call[m] # NoCall) BY DEF Claim, Ind, TypeOK, Hist
<1> QED BY <1>1 DEF Claim, Claimable, Clean, LeaseLive, Ind, TypeOK, Job

LEMMA SoundStays ==
    ASSUME Ind, Kept, [Next]_vars, Sound'
    PROVE  Sound /\ ~Restart /\ ~Raises /\ (Lists => job' = job)
<1>1. Clean /\ NoMishap /\ ~Restart /\ ~Raises /\ (Lists => job' = job)
  BY CleanStays, NoMishapTells DEF Sound
<1>2. ASSUME NEW m \in Machines, call[m] # NoCall, TooLate(m) PROVE FALSE
  <2>1. ~Handler(m) /\ ~Asks(m) BY <1>2, HandlerHolds DEF Sound, TooLate, Asks
  <2>2. call'[m] = call[m] BY <1>1, <2>1, CallStays
  <2>3. ~TooLate(m)' BY <1>2, <2>2 DEF Sound, Stuck
  <2>4. LeaseLive' /\ job'.holder = m BY <2>3 DEF TooLate
  <2>5. CASE \E x \in Machines : Claim(x) BY <1>2, <2>4, <2>5, ClaimFinds DEF Sound
  <2>6. CASE \A x \in Machines : ~Claim(x) BY <1>2, <2>4, <2>6, LeaseFalls DEF TooLate
  <2> QED BY <2>5, <2>6
<1> QED BY <1>1, <1>2 DEF Sound, Stuck

\* Nobody but the holder is talked to.
LEMMA OnlyHolderTalks ==
    ASSUME ~Stuck, NEW m \in Machines, call[m] # NoCall
    PROVE  LeaseLive /\ job.holder = m
BY DEF Stuck, TooLate

\* While nobody asks and nobody is answered, the holder's request is what it was.
LEMMA TalkStays ==
    ASSUME Ind, HolderIs, [Next]_vars, Sound, Sound', call' = call
    PROVE  Talk' = Talk
<1>1. CASE \E m \in Machines : Claim(m)
  <2>1. PICK m \in Machines : Claim(m) BY <1>1
  <2>2. call[m] = NoCall /\ job'.holder = m /\ LeaseLive' /\ (LeaseLive => job.holder = m)
    BY <2>1, ClaimFinds DEF Sound
  <2> QED BY <2>2 DEF Talk
<1>2. CASE \A m \in Machines : ~Claim(m)
  <2>1. LeaseLive' => LeaseLive /\ job'.holder = job.holder BY <1>2, LeaseFalls
  <2>2. CASE LeaseLive' BY <2>1, <2>2 DEF Talk
  <2>3. CASE ~LeaseLive' /\ LeaseLive
    <3>1. job.holder \in Machines BY <2>3 DEF HolderIs, LeaseLive
    <3>2. \A m \in Machines : call'[m] = NoCall
      <4>1. ASSUME NEW m \in Machines PROVE TooLate(m)' BY <2>3 DEF TooLate
      <4> QED BY <4>1 DEF Sound, Stuck
    <3> QED BY <2>3, <3>1, <3>2 DEF Talk
  <2>4. CASE ~LeaseLive' /\ ~LeaseLive BY <2>4 DEF Talk
  <2> QED BY <2>2, <2>3, <2>4
<1> QED BY <1>1, <1>2

\* A holder is named by its claim, and forgotten with the machine's turn.
LEMMA HolderMoves ==
    ASSUME Ind, [Next]_vars, job'.holder # job.holder
    PROVE  (\E m \in Machines : Claim(m)) \/ job'.mode = "server"
<1>0. job \in Job BY DEF Ind, TypeOK
<1>1. CASE UNCHANGED vars BY <1>1 DEF vars
<1>2. ASSUME NEW t \in Tabs, PressChecks(t) \/ Cancel(t) \/ Pin(t) \/ Answers(t)
      PROVE  job'.mode = "server"
  <2>1. CASE PressChecks(t) \/ Marks(t) BY <2>1 DEF PressChecks, Marks
  <2>2. CASE Clears(t) BY <1>0, <2>2 DEF Clears, FreshRun, Job
  <2>3. CASE Starts(t) BY <1>0, <2>3 DEF Starts, Job
  <2>4. CASE Cancel(t) BY <1>0, <2>4 DEF Cancel, Job
  <2>5. CASE Pin(t) BY <1>0, <2>5 DEF Pin, Job
  <2>6. CASE Expires(t) BY <1>0, <2>6 DEF Expires, Job
  <2> QED BY <1>2, <2>1, <2>2, <2>3, <2>4, <2>5, <2>6 DEF Answers
<1>4. ASSUME NEW m \in Machines, Leave(m) \/ Companion(m) PROVE FALSE
  BY <1>4 DEF Leave, Companion, Asks, Gone, NextClip, Fetched
<1>5. ASSUME NEW m \in Machines, Handler(m) PROVE FALSE
  <2>1. CASE Counts(m) BY <1>0, <2>1 DEF Counts, Job
  <2>2. CASE EndsLease(m) BY <1>0, <2>2 DEF EndsLease, Ended, Job
  <2> QED BY <1>5, <2>1, <2>2 DEF Handler, Manifest, Say, Moves, Requeues
<1>6. CASE (\E c \in Clips : Upload(c)) \/ Lapse BY <1>0, <1>6 DEF Upload, Lapse, Job
<1>7. CASE Restart BY <1>7 DEF Restart
<1>8. CASE ServerStep \/ Raises
  <2>1. CASE SetsUp BY <1>0, <2>1 DEF SetsUp, Reclaimed, Job
  <2>2. CASE Picks \/ Lists \/ Turns \/ Raises
    BY <1>0, <2>2 DEF Picks, Lists, Turns, Raises, Over_, Job
  <2>3. CASE Credits \/ Waits \/ Takes \/ Lands \/ CountsLanded
    BY <1>0, <2>3 DEF Credits, Waits, Takes, Lands, CountsLanded, Job
  <2>4. CASE CountsFailed \/ CountsBlocked BY <1>0, <2>4 DEF CountsFailed, CountsBlocked, Job
  <2> QED BY <1>8, <2>1, <2>2, <2>3, <2>4 DEF ServerStep
<1> QED BY <1>1, <1>2, <1>4, <1>5, <1>6, <1>7, <1>8 DEF Next

LEMMA StepHolderIs == Ind /\ HolderIs /\ [Next]_vars => HolderIs'
<1> SUFFICES ASSUME Ind, HolderIs, [Next]_vars PROVE HolderIs' OBVIOUS
<1>0. wk \in Worker /\ job \in Job /\ Asleep.pc = "idle" /\ Asleep.n = 0 /\ Asleep \in Worker
  BY RestTyped DEF Ind, TypeOK, Asleep
<1>1. ASSUME job'.mode = "local" PROVE job'.holder \in Machines
  <2>1. CASE \E m \in Machines : Claim(m)
    <3>1. PICK m \in Machines : Claim(m) BY <2>1
    <3> QED BY <1>0, <3>1 DEF Claim, Job
  <2>2. CASE \A m \in Machines : ~Claim(m)
    <3>1. job.mode = "local" BY <1>1, <2>2, ModeMoves
    <3>2. job'.holder = job.holder BY <1>1, <2>2, HolderMoves
    <3> QED BY <3>1, <3>2 DEF HolderIs
  <2> QED BY <2>1, <2>2
<1>2. ASSUME wk'.pc = "setup" PROVE wk'.n = 0
  <2>1. CASE wk.pc = "idle"
    <3>1. wk' = [Asleep EXCEPT !.pc = "setup", !.local = (job.mode = "local"),
                               !.handed = (job.holder # Nobody /\ job.mode = "server")]
      BY <1>0, <1>2, <2>1, WorkerWakes
    <3> QED BY <1>0, <3>1 DEF Worker
  <2>2. CASE wk.pc # "idle"
    <3>1. CASE wk' = wk BY <1>2, <3>1 DEF HolderIs
    <3>2. CASE wk' # wk
      <4>1. ServerStep BY <1>0, <1>2, <3>2, WorkerMoves
      <4>2. CASE SetsUp \/ Credits \/ Waits
        BY <1>0, <1>2, <4>2 DEF SetsUp, Credits, Waits, At, Worker
      <4>3. CASE Lists \/ Turns \/ Takes \/ Lands
        BY <1>0, <1>2, <4>3 DEF Lists, Turns, Takes, Lands, At, Worker
      <4>4. CASE CountsLanded \/ CountsFailed \/ CountsBlocked
        BY <1>0, <1>2, <4>4 DEF CountsLanded, CountsFailed, CountsBlocked, At, Worker
      <4>5. ~Picks BY <2>2 DEF Picks, At
      <4> QED BY <4>1, <4>2, <4>3, <4>4, <4>5 DEF ServerStep
    <3> QED BY <3>1, <3>2
  <2> QED BY <2>1, <2>2
<1> QED BY <1>1, <1>2 DEF HolderIs

\* What a step does to a machine: nothing, its thread comes or goes, it asks, it
\* goes on by itself, or its request is handled.
LEMMA MachineMoves ==
    ASSUME Ind, [Next]_vars, NEW m \in Machines, ~Restart
    PROVE  \/ run'[m] = run[m] /\ call'[m] = call[m]
           \/ /\ Claim(m) /\ call' = call
              /\ run'[m] = run[m] \/ run'[m] = [run[m] EXCEPT !.pc = "manifest"]
           \/ run'[m] = Idle /\ call'[m] = call[m]
           \/ /\ Asks(m) /\ run'[m] = run[m]
              /\ call'[m] = [at |-> run[m].pc, todo |-> run[m].todo, bad |-> run[m].bad, n |-> 0]
           \/ /\ run[m].pc = "work" /\ run[m].todo # {} /\ run'[m] = [run[m] EXCEPT !.pc = "say"]
              /\ call'[m] = call[m]
           \/ /\ run[m].pc = "fetch" /\ call'[m] = call[m]
              /\ \E bad \in BOOLEAN : run'[m] = [run[m] EXCEPT !.pc = "report", !.bad = bad]
           \/ Handler(m)
<1>0. run \in [Machines -> Run] /\ call \in [Machines -> Call] BY DEF Ind, TypeOK
<1>1. CASE UNCHANGED vars BY <1>1 DEF vars
<1>2. ASSUME NEW t \in Tabs, PressChecks(t) \/ Cancel(t) \/ Pin(t) \/ Answers(t)
      PROVE  run' = run /\ call' = call
  BY <1>2 DEF PressChecks, Cancel, Pin, Answers, Marks, Clears, Starts, Expires
<1>3. ASSUME NEW x \in Machines, x # m, Claim(x) \/ Leave(x) \/ Companion(x)
      PROVE  run'[m] = run[m] /\ call'[m] = call[m]
  <2>1. CASE Claim(x) \/ Leave(x) \/ Gone(x) BY <1>0, <1>3, <2>1 DEF Claim, Leave, Gone
  <2>2. CASE Asks(x) BY <1>0, <1>3, <2>2 DEF Asks
  <2>3. CASE NextClip(x) BY <1>0, <1>3, <2>3 DEF NextClip
  <2>4. CASE Fetched(x) BY <1>0, <1>3, <2>4 DEF Fetched
  <2> QED BY <1>3, <2>1, <2>2, <2>3, <2>4 DEF Companion
<1>4. ASSUME NEW x \in Machines, x # m, Handler(x)
      PROVE  run'[m] = run[m] /\ call'[m] = call[m]
  <2>1. ASSUME NEW a, NEW next, Answered(x, a, next)
        PROVE  run'[m] = run[m] /\ call'[m] = call[m]
    BY <1>0, <1>4, <2>1 DEF Answered
  <2>2. \/ \E a, next : Answered(x, a, next)
        \/ run' = run /\ \E a : call' = [call EXCEPT ![x].at = a]
        \/ run' = run /\ \E a, n : call' = [call EXCEPT ![x].at = a, ![x].n = n]
    BY <1>4 DEF Handler, Manifest, Say, Moves, Counts, Requeues, EndsLease
  <2> QED BY <1>0, <1>4, <2>1, <2>2
<1>5. CASE Claim(m)
  <2>1. call' = call /\ (run' = run \/ run' = [run EXCEPT ![m].pc = "manifest"]) BY <1>5 DEF Claim
  <2> QED BY <1>0, <1>5, <2>1
<1>6. CASE Leave(m) \/ Gone(m) BY <1>0, <1>6 DEF Leave, Gone
<1>7. CASE Asks(m) BY <1>0, <1>7 DEF Asks
<1>8. CASE NextClip(m)
  <2>1. /\ run' = [run EXCEPT ![m] = IF run[m].todo = {} THEN Idle ELSE [run[m] EXCEPT !.pc = "say"]]
        /\ run[m].pc = "work" /\ call' = call
    BY <1>8 DEF NextClip
  <2> QED BY <1>0, <2>1
<1>9. CASE Fetched(m)
  <2>1. PICK bad \in BOOLEAN : run' = [run EXCEPT ![m].pc = "report", ![m].bad = bad]
    BY <1>9 DEF Fetched
  <2>2. run'[m] = [run[m] EXCEPT !.pc = "report", !.bad = bad] BY <1>0, <2>1 DEF Run
  <2> QED BY <1>9, <2>2 DEF Fetched
<1>10. CASE (\E c \in Clips : Upload(c)) \/ Lapse BY <1>10 DEF Upload, Lapse
<1>11. CASE ServerStep \/ Raises
  BY <1>11 DEF ServerStep, Picks, SetsUp, Credits, Waits, Lists, Turns, Takes, Lands,
     CountsLanded, CountsFailed, CountsBlocked, Raises
<1> QED BY <1>1, <1>2, <1>3, <1>4, <1>5, <1>6, <1>7, <1>8, <1>9, <1>10, <1>11 DEF Next, Companion

\* How a request goes on: it is answered, or comes one step nearer to it.
LEMMA HandlerMoves ==
    ASSUME Ind, NEW m \in Machines, Handler(m)
    PROVE  \/ call'[m] = NoCall /\ run'[m] = run[m]
           \/ /\ call'[m] = NoCall
              /\ \/ run[m].pc = "manifest" /\ Manifest(m) /\ run'[m] = AtWork(Owed)
                 \/ run[m].pc = "manifest" /\ EndsLease(m) /\ run'[m] = AtWork({})
                 \/ run[m].pc = "say" /\ Say(m) /\ run'[m] = [run[m] EXCEPT !.pc = "fetch"]
                 \/ run[m].pc = "report" /\ ~Manifest(m) /\ ~Say(m) /\ run'[m] = NextOf(m)
           \/ /\ run'[m] = run[m] /\ call'[m].todo = call[m].todo /\ call'[m].bad = call[m].bad
              /\ \/ Manifest(m) /\ call'[m].at = "sweep"
                 \/ Counts(m) /\ call'[m].at = "sweep"
                 \/ Moves(m) /\ call'[m].at = "count"
                 \/ Requeues(m) /\ call'[m].at = "end" /\ call'[m].n = Cardinality(InState("failed"))
<1>0. run \in [Machines -> Run] /\ call \in [Machines -> Call] BY DEF Ind, TypeOK
<1>1. ASSUME NEW a, NEW next, Answered(m, a, next)
      PROVE  /\ call'[m] = NoCall
             /\ run'[m] = run[m] \/ (run[m].pc = a /\ run'[m] = next)
  BY <1>0, <1>1 DEF Answered
<1>2. CASE Manifest(m)
  <2>1. \/ Answered(m, "manifest", AtWork(Owed))
        \/ call' = [call EXCEPT ![m].at = "sweep"] /\ run' = run
    BY <1>2 DEF Manifest
  <2>2. CASE Answered(m, "manifest", AtWork(Owed)) BY <1>1, <1>2, <2>2
  <2>3. CASE call' = [call EXCEPT ![m].at = "sweep"] /\ run' = run
    <3>1. call'[m] = [call[m] EXCEPT !.at = "sweep"] BY <1>0, <2>3
    <3> QED BY <1>0, <1>2, <2>3, <3>1 DEF Call
  <2> QED BY <2>1, <2>2, <2>3
<1>3. CASE Say(m)
  <2>1. Answered(m, "say", [run[m] EXCEPT !.pc = "fetch"]) BY <1>3 DEF Say
  <2> QED BY <1>1, <1>3, <2>1
<1>4. CASE Moves(m)
  <2>1. \/ Answered(m, "report", NextOf(m))
        \/ call' = [call EXCEPT ![m].at = "count"] /\ run' = run
    BY <1>4 DEF Moves
  <2>2. ~Manifest(m) /\ ~Say(m) BY <1>4 DEF Moves, Manifest, Say
  <2>3. CASE Answered(m, "report", NextOf(m)) BY <1>1, <2>2, <2>3
  <2>4. CASE call' = [call EXCEPT ![m].at = "count"] /\ run' = run
    <3>1. call'[m] = [call[m] EXCEPT !.at = "count"] BY <1>0, <2>4
    <3> QED BY <1>0, <1>4, <2>4, <3>1 DEF Call
  <2> QED BY <2>1, <2>3, <2>4
<1>5. CASE Counts(m)
  <2>1. \/ Answered(m, "report", NextOf(m))
        \/ call' = [call EXCEPT ![m].at = "sweep"] /\ run' = run
    BY <1>5 DEF Counts
  <2>2. ~Manifest(m) /\ ~Say(m) BY <1>5 DEF Counts, Manifest, Say
  <2>3. CASE Answered(m, "report", NextOf(m)) BY <1>1, <2>2, <2>3
  <2>4. CASE call' = [call EXCEPT ![m].at = "sweep"] /\ run' = run
    <3>1. call'[m] = [call[m] EXCEPT !.at = "sweep"] BY <1>0, <2>4
    <3> QED BY <1>0, <1>5, <2>4, <3>1 DEF Call
  <2> QED BY <2>1, <2>3, <2>4
<1>6. CASE Requeues(m)
  <2> DEFINE n == Cardinality(InState("failed"))
  <2>1. call' = [call EXCEPT ![m].at = "end", ![m].n = n] /\ run' = run BY <1>6 DEF Requeues
  <2> HIDE DEF n
  <2>2. call'[m] = [call[m] EXCEPT !.at = "end", !.n = n] BY <1>0, <2>1 DEF Call
  <2>3. call'[m].todo = call[m].todo /\ call'[m].bad = call[m].bad /\ call'[m].at = "end" /\ call'[m].n = n
    BY <1>0, <2>2 DEF Call
  <2> QED BY <1>6, <2>1, <2>3 DEF n
<1>7. CASE EndsLease(m)
  <2>1. Answered(m, "manifest", AtWork({})) \/ Answered(m, "report", NextOf(m))
    BY <1>7 DEF EndsLease
  <2>2. ~Manifest(m) /\ ~Say(m) BY <1>7 DEF EndsLease, Manifest, Say
  <2>3. CASE Answered(m, "manifest", AtWork({})) BY <1>1, <1>7, <2>3
  <2>4. CASE Answered(m, "report", NextOf(m)) BY <1>1, <2>2, <2>4
  <2> QED BY <2>1, <2>3, <2>4
<1> QED BY <1>2, <1>3, <1>4, <1>5, <1>6, <1>7 DEF Handler

-----------------------------------------------------------------------------
(* The caller and its request *)

LEMMA NextOfIs ==
    ASSUME Ind, NEW m \in Machines
    PROVE  NextOf(m).pc = "work" /\ NextOf(m).todo = run[m].todo \ {First(call[m].todo)}
BY DEF NextOf, AtWork

LEMMA HandlerStands ==
    ASSUME NEW m \in Machines
    PROVE  /\ Manifest(m) => call[m].at = "manifest"
           /\ Say(m) => call[m].at = "say"
           /\ Moves(m) => call[m].at = "report"
           /\ Counts(m) => call[m].at = "count"
           /\ Requeues(m) => call[m].at = "sweep"
           /\ EndsLease(m) => call[m].at = "end"
BY DEF Manifest, Say, Moves, Counts, Requeues, EndsLease

LEMMA StepPaired == Ind /\ Paired /\ [Next]_vars => Paired'
<1> SUFFICES ASSUME Ind, Paired, [Next]_vars, NEW m \in Machines
             PROVE  /\ run'[m].pc = "manifest" => run'[m].todo = {}
                    /\ Clean' => Waiting(run'[m], call'[m])
  BY DEF Paired
<1>0. /\ run[m] \in Run /\ call[m] \in Call /\ RunFull(run[m]) /\ CallFull(call[m])
      /\ NoCall.at = "no" /\ Idle.pc = "off"
  BY DEF Ind, TypeOK, HandsFull, NoCall, Idle
<1>1. run[m].pc = "manifest" => run[m].todo = {} BY DEF Paired
<1>2. Clean' => Waiting(run[m], call[m]) BY CleanStays DEF Paired
<1>3. CASE Restart
  <2>1. run' = run /\ call'[m] = NoCall BY <1>3 DEF Restart
  <2> QED BY <1>1, <2>1 DEF Waiting
<1>4. CASE ~Restart
  <2>1. CASE run'[m] = run[m] /\ call'[m] = call[m] BY <1>1, <1>2, <2>1
  <2>2. CASE /\ Claim(m) /\ call' = call
             /\ run'[m] = run[m] \/ run'[m] = [run[m] EXCEPT !.pc = "manifest"]
    <3>1. Clean' => call[m] = NoCall BY <2>2, ClaimFinds
    <3>2. run[m].todo = {} BY <1>0, <2>2 DEF Claim, RunFull
    <3>3. run'[m].todo = {} BY <1>0, <2>2, <3>2 DEF Run
    <3> QED BY <2>2, <3>1, <3>3 DEF Waiting
  <2>3. CASE run'[m] = Idle /\ call'[m] = call[m] BY <1>0, <2>3 DEF Waiting
  <2>4. CASE /\ Asks(m) /\ run'[m] = run[m]
             /\ call'[m] = [at |-> run[m].pc, todo |-> run[m].todo, bad |-> run[m].bad, n |-> 0]
    <3>1. run[m].pc \in {"manifest", "say", "report"} BY <2>4 DEF Asks
    <3>2. call'[m].at = run[m].pc /\ call'[m].todo = run[m].todo BY <2>4
    <3> QED BY <1>1, <2>4, <3>1, <3>2 DEF Waiting
  <2>5. CASE /\ run[m].pc = "work" /\ run[m].todo # {} /\ run'[m] = [run[m] EXCEPT !.pc = "say"]
             /\ call'[m] = call[m]
    <3>1. run'[m].pc = "say" BY <1>0, <2>5 DEF Run
    <3>2. Clean' => call[m] = NoCall
      <4>1. ASSUME Clean', call[m] # NoCall PROVE FALSE
        <5>1. Waiting(run[m], call[m]) BY <1>2, <4>1
        <5>2. call[m].at # "no"
          BY <1>0, <2>5, <4>1, <5>1 DEF Waiting, CallFull
        <5> QED BY <1>0, <2>5, <4>1, <5>1, <5>2 DEF Waiting, Call
      <4> QED BY <4>1
    <3> QED BY <2>5, <3>1, <3>2 DEF Waiting
  <2>6. CASE /\ run[m].pc = "fetch" /\ call'[m] = call[m]
             /\ \E bad \in BOOLEAN : run'[m] = [run[m] EXCEPT !.pc = "report", !.bad = bad]
    <3>1. run'[m].pc = "report" BY <1>0, <2>6 DEF Run
    <3>2. Clean' => call[m] = NoCall
      <4>1. ASSUME Clean', call[m] # NoCall PROVE FALSE
        <5>1. Waiting(run[m], call[m]) BY <1>2, <4>1
        <5>2. call[m].at # "no"
          BY <1>0, <2>6, <4>1, <5>1 DEF Waiting, CallFull, RunFull
        <5> QED BY <1>0, <2>6, <4>1, <5>1, <5>2 DEF Waiting, Call
      <4> QED BY <4>1
    <3> QED BY <2>6, <3>1, <3>2 DEF Waiting
  <2>7. CASE Handler(m)
    <3>1. CASE call'[m] = NoCall
      <4>1. \/ run'[m] = run[m] \/ run'[m] = AtWork(Owed) \/ run'[m] = AtWork({})
            \/ run'[m] = [run[m] EXCEPT !.pc = "fetch"] \/ run'[m] = NextOf(m)
        BY <2>7, HandlerMoves
      <4>2. run'[m] = run[m] \/ run'[m].pc # "manifest"
        BY <1>0, <4>1, NextOfIs DEF AtWork, Run
      <4> QED BY <1>1, <3>1, <4>2 DEF Waiting
    <3>2. CASE call'[m] # NoCall
      <4>1. /\ run'[m] = run[m] /\ call'[m].todo = call[m].todo
            /\ \/ Manifest(m) /\ call'[m].at = "sweep"
               \/ Counts(m) /\ call'[m].at = "sweep"
               \/ Moves(m) /\ call'[m].at = "count"
               \/ Requeues(m) /\ call'[m].at = "end"
        BY <2>7, <3>2, HandlerMoves
      <4>2. \/ call[m].at = "manifest" /\ call'[m].at = "sweep"
            \/ call[m].at = "count" /\ call'[m].at = "sweep"
            \/ call[m].at = "report" /\ call'[m].at = "count"
            \/ call[m].at = "sweep" /\ call'[m].at = "end"
        BY <4>1, HandlerStands
      <4>3. call[m] # NoCall BY <1>0, <4>2
      <4>4. run[m].pc = "report" => call[m].todo # {} \/ ~Waiting(run[m], call[m])
        BY <1>0, <4>3 DEF Waiting, RunFull
      <4>5. call[m].at = "manifest" /\ Waiting(run[m], call[m]) /\ run[m].pc # "off" => call[m].todo = {}
        BY <1>1, <4>3 DEF Waiting
      <4> QED BY <1>1, <1>2, <4>1, <4>2, <4>3, <4>4, <4>5 DEF Waiting
    <3> QED BY <3>1, <3>2
  <2> QED BY <1>4, <2>1, <2>2, <2>3, <2>4, <2>5, <2>6, <2>7, MachineMoves
<1> QED BY <1>3, <1>4

-----------------------------------------------------------------------------
(* What the holder has on its list *)

\* Who writes rows.
LEMMA RowChanges ==
    ASSUME Ind, [Next]_vars, row' # row
    PROVE  \/ \E t \in Tabs : Marks(t)
           \/ \E m \in Machines : Manifest(m) \/ Say(m) \/ Moves(m) \/ Requeues(m)
           \/ Restart \/ Credits \/ Takes \/ Lands \/ CountsBlocked
<1>1. CASE UNCHANGED vars BY <1>1 DEF vars
<1>2. ASSUME NEW t \in Tabs, PressChecks(t) \/ Cancel(t) \/ Pin(t) \/ Answers(t) PROVE Marks(t)
  BY <1>2 DEF PressChecks, Cancel, Pin, Answers, Clears, Starts, Expires
<1>3. ASSUME NEW m \in Machines, Claim(m) \/ Leave(m) \/ Companion(m) PROVE FALSE
  BY <1>3 DEF Claim, Leave, Companion, Asks, Gone, NextClip, Fetched
<1>4. ASSUME NEW m \in Machines, Handler(m) PROVE Manifest(m) \/ Say(m) \/ Moves(m) \/ Requeues(m)
  BY <1>4 DEF Handler, Counts, EndsLease
<1>5. CASE (\E c \in Clips : Upload(c)) \/ Lapse BY <1>5 DEF Upload, Lapse
<1>6. CASE ServerStep \/ Raises
  BY <1>6 DEF ServerStep, Picks, SetsUp, Waits, Lists, Turns, CountsLanded, CountsFailed, Raises
<1> QED BY <1>1, <1>2, <1>3, <1>4, <1>5, <1>6 DEF Next

\* A worker that runs out or is told that it is blocked does so on its own job.
LEMMA BlockedAlone ==
    ASSUME Ind, Running, CountsBlocked \/ Takes, Clean'
    PROVE  ~hist.since /\ wk.pc # "idle"
<1>1. ServerStep /\ ~Picks BY DEF ServerStep, CountsBlocked, Takes, Picks, At
<1>2. CASE CountsBlocked
  <2>1. job.phase = "downloading" BY <1>2 DEF CountsBlocked, At, Running
  <2>2. job'.phase # job.phase BY <1>2, <2>1 DEF CountsBlocked, Ind, TypeOK, Job
  <2> QED BY <1>1, <2>2, WorkerAlone
<1>3. CASE Takes BY <1>1, <1>3, WorkerAlone
<1> QED BY <1>2, <1>3

\* While a lease lives and nobody crosses, a clip is settled by its holder, or by a
\* worker that still has it in hand.
LEMMA LeaseSettles ==
    ASSUME Ind, Unclaimed, Running, [Next]_vars, Clean', LeaseLive,
           NEW c \in Clips, row[c] \in Unfinished, row'[c] \notin Unfinished
    PROVE  \/ wk.pc = "fetch" /\ c = First(wk.todo)
           \/ \E m \in Machines : Manifest(m) /\ job.holder = m
           \/ \E m \in Machines : Moves(m) /\ job.holder = m /\ c = First(call[m].todo)
<1> USE DEF Unfinished
<1>1. ASSUME NEW t \in Tabs, Marks(t) PROVE FALSE BY <1>1 DEF Marks, Put
<1>2. ASSUME NEW m \in Machines, Manifest(m) \/ Say(m) \/ Moves(m) \/ Requeues(m)
      PROVE  \/ Manifest(m) /\ job.holder = m
             \/ Moves(m) /\ job.holder = m /\ c = First(call[m].todo)
  <2>1. job.holder = m BY <1>2, HandlerHolds DEF Handler
  <2>2. CASE Say(m) BY <2>2 DEF Say, Put
  <2>3. CASE Requeues(m) BY <2>3 DEF Requeues, Put
  <2>4. CASE Moves(m) BY <2>1, <2>4 DEF Moves, Put
  <2> QED BY <1>2, <2>1, <2>2, <2>3, <2>4
<1>3. CASE Restart BY <1>3 DEF Restart, Put
<1>4. CASE Credits
  <2>1. ~LeaseLive
    <3>1. CASE wk.todo = {}
      <4>1. Crossing(LeaseLive) BY <1>4, <3>1 DEF Credits
      <4> QED BY <4>1, CrossingTells
    <3>2. CASE wk.todo # {}
      <4>1. hist'.crossed = (hist.crossed \/ LeaseLive)
        BY <1>4, <3>2 DEF Credits, Ind, TypeOK, Hist
      <4> QED BY <4>1 DEF Clean
    <3> QED BY <3>1, <3>2
  <2> QED BY <2>1
<1>5. CASE Takes \/ CountsBlocked BY <1>5, BlockedAlone DEF Unclaimed
<1>6. CASE Lands BY <1>6 DEF Lands, At, Put
<1>7. row' # row OBVIOUS
<1> QED BY <1>1, <1>2, <1>3, <1>4, <1>5, <1>6, <1>7, RowChanges

LEMMA StepListed ==
    Ind /\ Unclaimed /\ OneExecutor /\ Running /\ HolderIs /\ Paired /\ Listed /\ [Next]_vars => Listed'
<1> SUFFICES ASSUME Ind, Unclaimed, OneExecutor, Running, HolderIs, Paired, Listed, [Next]_vars,
                    Clean', LeaseLive'
             PROVE  /\ run'[job'.holder].pc \in {"work", "say", "fetch"}
                          => Open(row', run'[job'.holder].todo)
                    /\ run'[job'.holder].pc = "report"
                          => Open(row', run'[job'.holder].todo \ {First(run'[job'.holder].todo)})
                    /\ call'[job'.holder].at = "say" => Open(row', call'[job'.holder].todo)
  BY DEF Listed
<1>0. Clean BY CleanStays
<1>1. ASSUME NEW m \in Machines, Claim(m)
      PROVE  /\ run'[m].pc \in {"off", "manifest"} /\ call'[m] = NoCall /\ job'.holder = m
  <2>1. call'[m] = NoCall /\ job'.holder = m BY <1>1, ClaimFinds
  <2>2. run[m].pc = "off" /\ run \in [Machines -> Run] BY <1>1 DEF Claim, Ind, TypeOK
  <2>3. run' = run \/ run' = [run EXCEPT ![m].pc = "manifest"] BY <1>1 DEF Claim
  <2>4. run'[m].pc \in {"off", "manifest"} BY <2>2, <2>3 DEF Run
  <2> QED BY <2>1, <2>4
<1>2. CASE \E m \in Machines : Claim(m)
  <2>1. NoCall.at = "no" BY DEF NoCall
  <2> QED BY <1>1, <1>2, <2>1
<1>3. CASE \A m \in Machines : ~Claim(m)
  <2> DEFINE h == job.holder
             r == run[h]
             k == call[h]
  <2>0. LeaseLive /\ job'.holder = h BY <1>3, LeaseFalls
  <2>1. /\ h \in Machines /\ r \in Run /\ k \in Call /\ RunFull(r) /\ CallFull(k)
        /\ run \in [Machines -> Run] /\ call \in [Machines -> Call]
    BY <2>0 DEF HolderIs, LeaseLive, Ind, TypeOK, HandsFull
  <2>2. /\ r.pc \in {"work", "say", "fetch"} => Open(row, r.todo)
        /\ r.pc = "report" => Open(row, r.todo \ {First(r.todo)})
        /\ k.at = "say" => Open(row, k.todo)
    BY <1>0, <2>0 DEF Listed
  <2>3. Waiting(r, k) BY <1>0, <2>1 DEF Paired
  <2>4. wk.pc = "fetch" => First(wk.todo) \notin r.todo \cup k.todo BY <1>0, <2>0, <2>1 DEF OneExecutor
  <2> HIDE DEF h, r, k
  <2>5. ASSUME ~Manifest(h), NEW S \in SUBSET (r.todo \cup k.todo), Open(row, S),
               Moves(h) => First(k.todo) \notin S
        PROVE  Open(row', S)
    <3>1. SUFFICES ASSUME NEW c \in S, row'[c] \notin Unfinished PROVE FALSE BY DEF Open
    <3>2. c \in Clips /\ row[c] \in Unfinished BY <2>1, <2>5 DEF Open, Run, Call
    <3>3. ~(wk.pc = "fetch" /\ c = First(wk.todo)) BY <2>4, <2>5
    <3>4. \A m \in Machines : job.holder = m => m = h BY DEF h
    <3>5. ASSUME NEW m \in Machines, Moves(m), job.holder = m, c = First(call[m].todo) PROVE FALSE
      <4>1. m = h BY <3>4, <3>5
      <4>2. c = First(k.todo) BY <3>5, <4>1 DEF k
      <4> QED BY <2>5, <3>5, <4>1, <4>2
    <3>6. \/ wk.pc = "fetch" /\ c = First(wk.todo)
          \/ \E m \in Machines : Manifest(m) /\ job.holder = m
          \/ \E m \in Machines : Moves(m) /\ job.holder = m /\ c = First(call[m].todo)
      <4>1. c \in Clips /\ row[c] \in Unfinished /\ row'[c] \notin Unfinished BY <3>1, <3>2
      <4> QED BY <2>0, <4>1, LeaseSettles
    <3>7. ASSUME NEW m \in Machines, Manifest(m), job.holder = m PROVE FALSE
      <4>1. m = h BY <3>4, <3>7
      <4> QED BY <2>5, <3>7, <4>1
    <3> QED BY <3>3, <3>5, <3>6, <3>7
  <2>6. ASSUME ~Handler(h)
        PROVE  /\ run'[h].pc \in {"work", "say", "fetch"} => Open(row', run'[h].todo)
               /\ run'[h].pc = "report" => Open(row', run'[h].todo \ {First(run'[h].todo)})
               /\ call'[h].at = "say" => Open(row', call'[h].todo)
    <3>0. ~Manifest(h) /\ ~Moves(h) BY <2>6 DEF Handler
    <3>1. /\ r.pc \in {"work", "say", "fetch"} => Open(row', r.todo)
          /\ r.pc \in {"fetch", "report"} => Open(row', r.todo \ {First(r.todo)})
          /\ k.at = "say" => Open(row', k.todo)
      <4>1. r.pc \in {"work", "say", "fetch"} => Open(row', r.todo) BY <2>2, <2>5, <3>0
      <4>2. r.pc \in {"fetch", "report"} => Open(row, r.todo \ {First(r.todo)})
        BY <2>2 DEF Open
      <4>3. r.pc \in {"fetch", "report"} => Open(row', r.todo \ {First(r.todo)})
        BY <2>5, <3>0, <4>2
      <4>4. k.at = "say" => Open(row', k.todo) BY <2>2, <2>5, <3>0
      <4> QED BY <4>1, <4>3, <4>4
    <3>2. CASE Restart
      <4>1. run' = run /\ call'[h] = NoCall BY <2>1, <3>2 DEF Restart
      <4>2. run'[h] = r BY <4>1 DEF r
      <4> QED BY <3>1, <4>1, <4>2 DEF NoCall
    <3>3. CASE run'[h] = r /\ call'[h] = k BY <3>1, <3>3
    <3>4. CASE run'[h] = Idle /\ call'[h] = k BY <3>1, <3>4 DEF Idle
    <3>5. CASE /\ Asks(h) /\ run'[h] = r
               /\ call'[h] = [at |-> r.pc, todo |-> r.todo, bad |-> r.bad, n |-> 0]
      <4>1. call'[h].at = r.pc /\ call'[h].todo = r.todo BY <3>5
      <4> QED BY <3>1, <3>5, <4>1
    <3>6. CASE /\ r.pc = "work" /\ r.todo # {} /\ run'[h] = [r EXCEPT !.pc = "say"]
               /\ call'[h] = k
      <4>1. run'[h].pc = "say" /\ run'[h].todo = r.todo BY <2>1, <3>6 DEF Run
      <4> QED BY <3>1, <3>6, <4>1
    <3>7. CASE /\ r.pc = "fetch" /\ call'[h] = k
               /\ \E bad \in BOOLEAN : run'[h] = [r EXCEPT !.pc = "report", !.bad = bad]
      <4>1. run'[h].pc = "report" /\ run'[h].todo = r.todo BY <2>1, <3>7 DEF Run
      <4> QED BY <3>1, <3>7, <4>1
    <3> QED BY <1>3, <2>1, <2>6, <3>2, <3>3, <3>4, <3>5, <3>6, <3>7, MachineMoves DEF r, k
  <2>7. ASSUME Handler(h)
        PROVE  /\ run'[h].pc \in {"work", "say", "fetch"} => Open(row', run'[h].todo)
               /\ run'[h].pc = "report" => Open(row', run'[h].todo \ {First(run'[h].todo)})
               /\ call'[h].at = "say" => Open(row', call'[h].todo)
    <3>1. k.at \in {"manifest", "say", "report", "count", "sweep", "end"}
      BY <2>1, <2>7, HandlerStands DEF Handler, k
    <3>2. k # NoCall BY <3>1 DEF NoCall
    <3>3. call'[h].at # "say"
      <4>1. NoCall.at # "say" BY DEF NoCall
      <4> QED BY <2>1, <2>7, <4>1, HandlerMoves
    <3>4. CASE Manifest(h)
      <4>1. k.at = "manifest" BY <2>1, <3>4, HandlerStands DEF k
      <4>2. r.pc \in {"off", "manifest"} BY <2>3, <3>2, <4>1 DEF Waiting
      <4>3. run'[h] = r \/ run'[h] = AtWork(Owed)
        <5>1. ~Say(h) /\ ~EndsLease(h) BY <2>1, <4>1, HandlerStands DEF k
        <5> QED BY <2>1, <2>7, <3>4, <5>1, HandlerMoves DEF r
      <4>4. Open(row', Owed)
        <5>1. SUFFICES ASSUME NEW c \in Owed PROVE row'[c] \in Unfinished BY DEF Open
        <5>2. row' = Put(InState("pending") \cap Known, "skipped") BY <3>4 DEF Manifest
        <5>3. c \in Clips /\ row[c] = "pending" /\ c \notin Known BY DEF Owed, InState
        <5>4. row'[c] = "pending" BY <5>2, <5>3 DEF Put
        <5> QED BY <5>4 DEF Unfinished
      <4>5. AtWork(Owed).pc = "work" /\ AtWork(Owed).todo = Owed BY DEF AtWork
      <4> QED BY <3>3, <4>2, <4>3, <4>4, <4>5
    <3>5. CASE ~Manifest(h)
      <4>1. r.pc = "report" => r.todo \ {First(k.todo)} = r.todo \ {First(r.todo)}
        BY <2>3, <3>2 DEF Waiting
      <4>2. Moves(h) => r.pc \in {"off", "report"}
        BY <2>1, <2>3, <3>2, HandlerStands DEF Waiting, k
      <4>3. r.pc = "report" => Open(row', r.todo \ {First(r.todo)})
        <5>1. ASSUME r.pc = "report" PROVE Open(row', r.todo \ {First(r.todo)})
          <6>1. Open(row, r.todo \ {First(r.todo)}) BY <2>2, <5>1
          <6>2. First(k.todo) \notin r.todo \ {First(r.todo)} BY <4>1, <5>1
          <6> QED BY <2>5, <3>5, <6>1, <6>2
        <5> QED BY <5>1
      <4>4. r.pc \in {"work", "say", "fetch"} => Open(row', r.todo) BY <2>2, <2>5, <3>5, <4>2
      <4>5. \/ run'[h] = r
            \/ run'[h] = AtWork({})
            \/ r.pc = "say" /\ run'[h] = [r EXCEPT !.pc = "fetch"]
            \/ r.pc = "report" /\ run'[h] = NextOf(h)
        BY <2>1, <2>7, <3>5, HandlerMoves DEF r
      <4>6. CASE run'[h] = r BY <3>3, <4>3, <4>4, <4>6
      <4>7. CASE run'[h] = AtWork({}) BY <3>3, <4>7 DEF AtWork, Open
      <4>8. CASE r.pc = "say" /\ run'[h] = [r EXCEPT !.pc = "fetch"]
        <5>1. run'[h].pc = "fetch" /\ run'[h].todo = r.todo BY <2>1, <4>8 DEF Run
        <5> QED BY <3>3, <4>4, <4>8, <5>1
      <4>9. CASE r.pc = "report" /\ run'[h] = NextOf(h)
        <5>1. run'[h].pc = "work" /\ run'[h].todo = r.todo \ {First(k.todo)}
          BY <2>1, <4>9, NextOfIs DEF r, k
        <5> QED BY <3>3, <4>1, <4>3, <4>9, <5>1
      <4> QED BY <4>5, <4>6, <4>7, <4>8, <4>9
    <3> QED BY <3>4, <3>5
  <2> QED BY <2>0, <2>6, <2>7
<1> QED BY <1>2, <1>3

-----------------------------------------------------------------------------
(* What is done, and what a reclaim and a press do to what failed *)

\* Only a press forgets.
LEMMA GhostMoves ==
    ASSUME Ind, [Next]_vars, \A t \in Tabs : ~Clears(t)
    PROVE  hist'.old = hist.old /\ (~hist'.found => ~hist.found)
<1>0. hist \in Hist BY DEF Ind, TypeOK
<1> USE DEF Hist
<1>1. CASE hist' = hist BY <1>1
<1>2. ASSUME NEW b, Crossing(b) \/ TakenBack(b)
      PROVE  hist'.old = hist.old /\ hist'.found = hist.found
  BY <1>0, <1>2 DEF Crossing, TakenBack
<1>3. CASE UNCHANGED vars BY <1>1, <1>3 DEF vars
<1>4. ASSUME NEW t \in Tabs, PressChecks(t) \/ Cancel(t) \/ Pin(t) \/ Answers(t)
      PROVE  hist'.old = hist.old /\ hist'.found = hist.found
  <2>1. CASE Marks(t) BY <1>2, <2>1 DEF Marks
  <2>2. CASE Starts(t) BY <1>0, <2>2 DEF Starts
  <2>3. CASE PressChecks(t) \/ Cancel(t) \/ Pin(t) \/ Expires(t)
    BY <1>1, <2>3 DEF PressChecks, Cancel, Pin, Expires
  <2> QED BY <1>4, <2>1, <2>2, <2>3 DEF Answers
<1>5. ASSUME NEW m \in Machines, Claim(m) \/ Leave(m) \/ Companion(m)
      PROVE  hist'.old = hist.old /\ hist'.found = hist.found
  <2>1. CASE Claim(m) BY <1>0, <2>1 DEF Claim
  <2>2. CASE Leave(m) \/ Companion(m)
    BY <2>2 DEF Leave, Companion, Asks, Gone, NextClip, Fetched
  <2> QED BY <1>5, <2>1, <2>2
<1>6. ASSUME NEW m \in Machines, Handler(m)
      PROVE  hist'.old = hist.old /\ hist'.found = hist.found
  <2>1. CASE EndsLease(m) BY <1>2, <2>1 DEF EndsLease
  <2>2. CASE Manifest(m) \/ Say(m) \/ Moves(m) \/ Counts(m) \/ Requeues(m)
    BY <1>2, <2>2 DEF Manifest, Say, Moves, Counts, Requeues
  <2> QED BY <1>6, <2>1, <2>2 DEF Handler
<1>7. CASE (\E c \in Clips : Upload(c)) \/ Lapse BY <1>7 DEF Upload, Lapse
<1>8. CASE Picks \/ SetsUp
  <2>1. CASE Picks BY <1>0, <2>1 DEF Picks
  <2>2. CASE SetsUp BY <1>2, <2>2 DEF SetsUp
  <2> QED BY <1>8, <2>1, <2>2
<1>9. CASE Credits
  <2>1. CASE wk.todo = {} BY <1>2, <1>9, <2>1 DEF Credits
  <2>2. CASE wk.todo # {} BY <1>0, <1>9, <2>2 DEF Credits
  <2> QED BY <2>1, <2>2
<1>10. CASE Waits \/ Lists \/ Turns \/ Takes \/ Lands \/ CountsLanded \/ CountsFailed \/ CountsBlocked
  <2>1. CASE Waits \/ Lands \/ CountsLanded BY <2>1 DEF Waits, Lands, CountsLanded
  <2>2. CASE Lists \/ Turns \/ Takes \/ CountsFailed \/ CountsBlocked
    BY <1>2, <2>2 DEF Lists, Turns, Takes, CountsFailed, CountsBlocked
  <2> QED BY <1>10, <2>1, <2>2
<1>11. CASE Raises \/ Restart BY <1>0, <1>11 DEF Raises, Restart
<1> QED BY <1>3, <1>4, <1>5, <1>6, <1>7, <1>8, <1>9, <1>10, <1>11 DEF Next, ServerStep

\* A clip that is done stays so, and the next to be done was not.
LEMMA DoneStays ==
    ASSUME Ind, OneExecutor, HolderIs, Listed, Crediting, [Next]_vars, Clean',
           NEW c \in Clips, row[c] = "done"
    PROVE  row'[c] = "done"
<1>0. Clean BY CleanStays
<1>1. CASE row' = row BY <1>1
<1>2. ASSUME NEW t \in Tabs, Marks(t) PROVE row'[c] = "done" BY <1>2 DEF Marks, Put, InState
<1>3. ASSUME NEW m \in Machines, Manifest(m) \/ Moves(m) \/ Requeues(m) PROVE row'[c] = "done"
  <2>1. CASE Manifest(m) BY <2>1 DEF Manifest, Put, InState
  <2>2. CASE Moves(m) BY <2>2 DEF Moves, Put, Unfinished
  <2>3. CASE Requeues(m) BY <2>3 DEF Requeues, Put, InState
  <2> QED BY <1>3, <2>1, <2>2, <2>3
<1>4. ASSUME NEW m \in Machines, Say(m) PROVE row'[c] = "done"
  <2>1. LeaseLive /\ job.holder = m BY <1>4, HandlerHolds DEF Handler
  <2>2. call[m].at = "say" /\ call[m] \in Call /\ CallFull(call[m])
    BY <1>4 DEF Say, Ind, TypeOK, HandsFull
  <2>3. First(call[m].todo) \in call[m].todo BY <2>2, FirstIsOne DEF CallFull, Call
  <2>4. row[First(call[m].todo)] \in Unfinished BY <1>0, <2>1, <2>2, <2>3 DEF Listed, Open
  <2>5. c # First(call[m].todo) BY <2>4 DEF Unfinished
  <2> QED BY <1>4, <2>5 DEF Say, Put
<1>5. CASE Restart BY <1>5 DEF Restart, Put, InState
<1>6. CASE Credits
  <2>1. CASE wk.todo = {} BY <1>6, <2>1 DEF Credits
  <2>2. CASE wk.todo # {}
    <3>1. First(wk.todo) \in wk.todo BY <2>2, FirstIsOne DEF Ind, TypeOK, Worker
    <3>2. row[First(wk.todo)] # "done"
      BY <1>0, <1>6, <3>1 DEF Credits, At, Crediting, Unfinished
    <3> QED BY <1>6, <2>2, <3>2 DEF Credits, Put
  <2> QED BY <2>1, <2>2
<1>7. CASE Takes BY <1>7 DEF Takes, Put
<1>8. CASE Lands
  <2>1. row[First(wk.todo)] = "downloading" BY <1>0, <1>8 DEF Lands, At, OneExecutor
  <2> QED BY <1>8, <2>1 DEF Lands, Put
<1>9. CASE CountsBlocked BY <1>9 DEF CountsBlocked, Put, InState
<1> QED BY <1>1, <1>2, <1>3, <1>4, <1>5, <1>6, <1>7, <1>8, <1>9, RowChanges

LEMMA StepOldDone ==
    Ind /\ OneExecutor /\ HolderIs /\ Listed /\ Crediting /\ OldDone /\ [Next]_vars => OldDone'
<1> SUFFICES ASSUME Ind, OneExecutor, HolderIs, Listed, Crediting, OldDone, [Next]_vars, Clean'
             PROVE  hist'.old \subseteq InState("done")'
  BY DEF OldDone
<1>0. Clean /\ hist \in Hist BY CleanStays DEF Ind, TypeOK
<1>1. ASSUME NEW t \in Tabs, Clears(t) PROVE hist'.old \subseteq InState("done")'
  <2>1. hist'.old = InState("done") /\ row' = row BY <1>0, <1>1 DEF Clears, Hist
  <2> QED BY <2>1 DEF InState
<1>2. CASE \A t \in Tabs : ~Clears(t)
  <2>1. hist'.old = hist.old BY <1>2, GhostMoves
  <2>2. hist.old \subseteq InState("done") BY <1>0 DEF OldDone
  <2>3. ASSUME NEW c \in hist.old PROVE c \in Clips /\ row'[c] = "done"
    <3>1. c \in Clips /\ row[c] = "done" BY <2>2 DEF InState
    <3> QED BY <3>1, DoneStays
  <2> QED BY <2>1, <2>3 DEF InState
<1> QED BY <1>1, <1>2

\* A mark that crosses nobody while the worker is at the job marks nothing.
LEMMA NoMarksAtWork ==
    ASSUME Ind, Running, wk.pc # "idle", NEW t \in Tabs, Marks(t), Clean'
    PROVE  row' = row
<1> DEFINE again == InState("none") \cup InState("failed") \cup InState("pending")
<1>1. ~Pressable BY DEF Running, Pressable
<1>2. Crossing(again # {} /\ (~Pressable \/ Pressed)) BY DEF Marks
<1>3. again = {} BY <1>1, <1>2, CrossingTells
<1>4. row' = Put(again, "pending") BY DEF Marks
<1>5. row \in [Clips -> DlStates] BY DEF Ind, TypeOK
<1> HIDE DEF again
<1> QED BY <1>3, <1>4, <1>5 DEF Put

\* A lock goes with a press.
LEMMA LockStays ==
    ASSUME Ind, [Next]_vars, job.lock, ~job'.lock
    PROVE  \E t \in Tabs : Clears(t)
<1>0. job \in Job BY DEF Ind, TypeOK
<1> USE DEF Job
<1>1. CASE UNCHANGED vars BY <1>1 DEF vars
<1>2. ASSUME NEW t \in Tabs, PressChecks(t) \/ Cancel(t) \/ Pin(t) \/ Answers(t) PROVE Clears(t)
  BY <1>0, <1>2 DEF PressChecks, Cancel, Pin, Answers, Marks, Starts, Expires
<1>3. ASSUME NEW m \in Machines, Claim(m) \/ Leave(m) \/ Companion(m) PROVE FALSE
  BY <1>0, <1>3 DEF Claim, Leave, Companion, Asks, Gone, NextClip, Fetched
<1>4. ASSUME NEW m \in Machines, Handler(m) PROVE FALSE
  <2>1. CASE EndsLease(m)
    <3>1. job' = Ended(m, call[m].n) BY <2>1 DEF EndsLease
    <3> QED BY <1>0, <3>1 DEF Ended
  <2>2. CASE Manifest(m) \/ Say(m) \/ Moves(m) \/ Counts(m) \/ Requeues(m)
    BY <1>0, <2>2 DEF Manifest, Say, Moves, Counts, Requeues
  <2> QED BY <1>4, <2>1, <2>2 DEF Handler
<1>5. CASE (\E c \in Clips : Upload(c)) \/ Lapse BY <1>0, <1>5 DEF Upload, Lapse
<1>6. CASE ServerStep \/ Raises \/ Restart
  <2>1. CASE Picks \/ Lists \/ Turns \/ Raises \/ Restart
    BY <1>0, <2>1 DEF Picks, Lists, Turns, Raises, Restart, Over_
  <2>2. CASE SetsUp \/ Waits \/ Takes \/ Lands \/ CountsLanded
    BY <1>0, <2>2 DEF SetsUp, Reclaimed, Waits, Takes, Lands, CountsLanded
  <2>3. CASE Credits \/ CountsFailed \/ CountsBlocked
    BY <1>0, <2>3 DEF Credits, CountsFailed, CountsBlocked
  <2> QED BY <1>6, <2>1, <2>2, <2>3 DEF ServerStep
<1> QED BY <1>1, <1>2, <1>3, <1>4, <1>5, <1>6 DEF Next

\* How a reclaim begins and goes on.
LEMMA CreditMoves ==
    ASSUME Ind, [Next]_vars, wk'.pc = "credit"
    PROVE  \/ /\ SetsUp /\ wk.local /\ job' = Reclaimed /\ row' = row
              /\ wk'.todo = Unsettled \cup InState("failed") /\ wk'.failed = InState("failed")
           \/ /\ Credits /\ wk.pc = "credit" /\ wk.todo # {}
              /\ wk'.todo = wk.todo \ {First(wk.todo)} /\ wk'.failed = wk.failed
              /\ row' = Put({First(wk.todo)}, IF First(wk.todo) \in disk THEN "done" ELSE "pending")
           \/ wk.pc = "credit" /\ wk' = wk
<1>0. wk \in Worker /\ Asleep.pc = "idle" BY RestTyped DEF Ind, TypeOK
<1>a. Asleep \in Worker BY RestTyped
<1> USE DEF Worker
<1>1. CASE wk' = wk BY <1>1
<1>2. CASE UNCHANGED vars BY <1>1, <1>2 DEF vars
<1>3. ASSUME NEW t \in Tabs, PressChecks(t) \/ Cancel(t) \/ Pin(t) \/ Answers(t) PROVE wk' = wk
  BY <1>3 DEF PressChecks, Cancel, Pin, Answers, Marks, Clears, Starts, Expires
<1>4. ASSUME NEW m \in Machines, Claim(m) \/ Leave(m) \/ Companion(m) PROVE wk' = wk
  BY <1>4 DEF Claim, Leave, Companion, Asks, Gone, NextClip, Fetched
<1>5. ASSUME NEW m \in Machines, Handler(m) PROVE wk' = wk
  BY <1>5 DEF Handler, Manifest, Say, Moves, Counts, Requeues, EndsLease
<1>6. CASE (\E c \in Clips : Upload(c)) \/ Lapse BY <1>1, <1>6 DEF Upload, Lapse
<1>7. CASE Picks BY <1>0, <1>a, <1>1, <1>7 DEF Picks
<1>8. CASE SetsUp
  <2>1. CASE wk.local
    <3>1. wk' = [wk EXCEPT !.pc = "credit", !.failed = InState("failed"),
                           !.todo = Unsettled \cup InState("failed")]
      BY <1>8, <2>1 DEF SetsUp
    <3>2. wk'.todo = Unsettled \cup InState("failed") /\ wk'.failed = InState("failed")
      BY <1>0, <3>1
    <3> QED BY <1>8, <2>1, <3>2 DEF SetsUp
  <2>2. CASE ~wk.local BY <1>0, <1>8, <2>2 DEF SetsUp
  <2> QED BY <2>1, <2>2
<1>9. CASE Credits
  <2>1. CASE wk.todo = {} BY <1>0, <1>9, <2>1 DEF Credits
  <2>2. CASE wk.todo # {}
    <3>1. wk' = [wk EXCEPT !.todo = @ \ {First(wk.todo)},
                           !.n = IF First(wk.todo) \in wk.failed \ disk THEN @ + 1 ELSE @]
      BY <1>9, <2>2 DEF Credits
    <3>2. wk'.todo = wk.todo \ {First(wk.todo)} /\ wk'.failed = wk.failed BY <1>0, <3>1
    <3> QED BY <1>9, <2>2, <3>2 DEF Credits, At
  <2> QED BY <2>1, <2>2
<1>10. CASE Waits \/ Lists \/ Turns \/ Takes \/ Lands \/ CountsLanded \/ CountsFailed \/ CountsBlocked
  BY <1>0, <1>10 DEF Waits, Lists, Turns, Takes, Lands, CountsLanded, CountsFailed, CountsBlocked,
    At
<1>11. CASE Raises \/ Restart BY <1>0, <1>11 DEF Raises, Restart
<1> QED BY <1>1, <1>2, <1>3, <1>4, <1>5, <1>6, <1>7, <1>8, <1>9, <1>10, <1>11 DEF Next, ServerStep

LEMMA StepCrediting ==
    Ind /\ Running /\ Pressing /\ Crediting /\ [Next]_vars => Crediting'
<1> SUFFICES ASSUME Ind, Running, Pressing, Crediting, [Next]_vars, Clean', wk'.pc = "credit"
             PROVE  /\ job'.mode = "server" /\ job'.lock
                    /\ \A c \in wk'.todo : row'[c] \in Unfinished \cup {"failed"}
                    /\ InState("failed")' = wk'.failed \cap wk'.todo
  BY DEF Crediting
<1>0. /\ Clean /\ job \in Job /\ row \in [Clips -> DlStates] /\ wk \in Worker
      /\ Ind'
  BY CleanStays, StepTyped DEF Ind, TypeOK
<1>1. CASE SetsUp /\ wk.local
  <2>1. /\ job' = Reclaimed /\ row' = row /\ wk'.failed = InState("failed")
        /\ wk'.todo = Unsettled \cup InState("failed")
    BY <1>1, CreditMoves DEF SetsUp, Credits, At
  <2>2. job'.mode = "server" /\ job'.lock BY <1>0, <2>1 DEF Reclaimed, Job
  <2>3. InState("failed")' = InState("failed") BY <2>1 DEF InState
  <2>4. \A c \in wk'.todo : row'[c] \in Unfinished \cup {"failed"}
    BY <2>1 DEF Unsettled, InState
  <2> QED BY <2>1, <2>2, <2>3, <2>4
<1>2. CASE wk.pc = "credit"
  <2>0. /\ job.mode = "server" /\ job.lock /\ job.phase = "downloading"
        /\ \A c \in wk.todo : row[c] \in Unfinished \cup {"failed"}
        /\ InState("failed") = wk.failed \cap wk.todo
    BY <1>0, <1>2 DEF Crediting, Running
  <2>1. \A t \in Tabs : ~Clears(t) BY <1>0, <2>0 DEF Clears, Pressing, Pressed
  <2>2. job'.lock BY <2>0, <2>1, LockStays
  <2>3. job'.mode = "server"
    <3>1. \A m \in Machines : ~Claim(m) BY <2>0 DEF Claim, Claimable
    <3> QED BY <2>0, <3>1, ModeMoves
  <2>4. CASE Credits /\ wk.todo # {} /\ wk'.todo = wk.todo \ {First(wk.todo)} /\ wk'.failed = wk.failed
             /\ row' = Put({First(wk.todo)}, IF First(wk.todo) \in disk THEN "done" ELSE "pending")
    <3>1. \A c \in Clips : c # First(wk.todo) => row'[c] = row[c] BY <2>4 DEF Put
    <3>2. First(wk.todo) \in Clips /\ wk.todo \subseteq Clips
      BY <1>0, <2>4, FirstIsOne DEF Worker
    <3>3. row'[First(wk.todo)] # "failed" BY <2>4, <3>2 DEF Put
    <3>4. InState("failed")' = InState("failed") \ {First(wk.todo)}
      BY <3>1, <3>2, <3>3 DEF InState
    <3>5. wk'.failed \cap wk'.todo = (wk.failed \cap wk.todo) \ {First(wk.todo)} BY <2>4
    <3>6. \A c \in wk'.todo : row'[c] \in Unfinished \cup {"failed"} BY <2>0, <2>4, <3>1, <3>2
    <3> QED BY <2>0, <2>2, <2>3, <3>4, <3>5, <3>6
  <2>5. CASE wk' = wk
    <3>1. row' = row
      <4>1. ASSUME NEW m \in Machines, Manifest(m) \/ Say(m) \/ Moves(m) \/ Requeues(m) PROVE FALSE
        BY <2>0, <4>1, HandlerHolds DEF Handler, LeaseLive
      <4>2. ASSUME NEW t \in Tabs, Marks(t) PROVE row' = row BY <1>2, <4>2, NoMarksAtWork
      <4>3. ~Restart /\ ~Credits /\ ~Takes /\ ~Lands /\ ~CountsBlocked
        <5>1. Asleep.pc = "idle" BY RestTyped
        <5>2. ~Restart BY <1>2, <2>5, <5>1 DEF Restart
        <5>3. ~Takes /\ ~Lands /\ ~CountsBlocked BY <1>2 DEF Takes, Lands, CountsBlocked, At
        <5>4. ASSUME Credits PROVE FALSE
          <6>1. CASE wk.todo = {}
            <7>1. wk'.pc = "grace" BY <1>0, <5>4, <6>1 DEF Credits, Worker
            <7> QED BY <7>1
          <6>2. CASE wk.todo # {}
            <7>1. wk'.todo = wk.todo \ {First(wk.todo)}
              BY <1>0, <5>4, <6>2 DEF Credits, Worker
            <7>2. First(wk.todo) \in wk.todo BY <1>0, <6>2, FirstIsOne DEF Worker
            <7> QED BY <2>5, <7>1, <7>2
          <6> QED BY <6>1, <6>2
        <5> QED BY <5>2, <5>3, <5>4
      <4> QED BY <4>1, <4>2, <4>3, RowChanges
    <3>2. InState("failed")' = InState("failed") BY <3>1 DEF InState
    <3> QED BY <2>0, <2>2, <2>3, <2>5, <3>1, <3>2
  <2> QED BY <1>2, <2>4, <2>5, CreditMoves DEF SetsUp, At
<1> QED BY <1>1, <1>2, CreditMoves

\* Where a failure comes from.
LEMMA FailedFrom ==
    ASSUME Ind, [Next]_vars, NEW c \in Clips, row[c] # "failed", row'[c] = "failed"
    PROVE  Lands \/ CountsBlocked \/ \E m \in Machines : Moves(m)
<1>1. ASSUME NEW t \in Tabs, Marks(t) PROVE FALSE BY <1>1 DEF Marks, Put
<1>2. ASSUME NEW m \in Machines, Manifest(m) \/ Say(m) \/ Requeues(m) PROVE FALSE
  BY <1>2 DEF Manifest, Say, Requeues, Put
<1>3. ~Restart BY DEF Restart, Put
<1>4. ASSUME Credits PROVE FALSE
  <2>1. CASE wk.todo = {} BY <1>4, <2>1 DEF Credits
  <2>2. CASE wk.todo # {} BY <1>4, <2>2 DEF Credits, Put
  <2> QED BY <2>1, <2>2
<1>5. ~Takes BY DEF Takes, Put
<1>6. row' # row OBVIOUS
<1> QED BY <1>1, <1>2, <1>3, <1>4, <1>5, <1>6, RowChanges

LEMMA StepMarksAll ==
    Ind /\ Running /\ Pressing /\ NoLease /\ MarksAll /\ [Next]_vars => MarksAll'
<1> SUFFICES ASSUME Ind, Running, Pressing, NoLease, MarksAll, [Next]_vars, Clean', Pressed',
                    NEW c \in Clips, row'[c] = "failed"
             PROVE  FALSE
  BY DEF MarksAll, InState
<1>0. Clean BY CleanStays
<1>1. CASE Pressed
  <2>1. row[c] # "failed" BY <1>0, <1>1 DEF MarksAll, InState
  <2>2. job.phase # "downloading" BY <1>0, <1>1 DEF Pressing
  <2>3. ASSUME NEW m \in Machines, Moves(m) PROVE FALSE
    BY <1>0, <2>2, <2>3, HandlerHolds DEF Handler, NoLease
  <2>4. ~Lands /\ ~CountsBlocked BY <2>2 DEF Lands, CountsBlocked, At, Running
  <2> QED BY <2>1, <2>3, <2>4, FailedFrom
<1>2. CASE ~Pressed
  <2>1. PICK s \in Tabs : tab'[s] \in {"marked", "cleared"} BY DEF Pressed
  <2>2. Marks(s) BY <1>2, <2>1, TabsPress DEF Pressed
  <2> QED BY <2>2 DEF Marks, Put, InState
<1> QED BY <1>1, <1>2

\* A press leaves its marks for its resets, unless the container dies.
LEMMA MarkGoes ==
    ASSUME Ind, [Next]_vars, NEW t \in Tabs, tab[t] = "marked", tab'[t] # "marked", ~Restart
    PROVE  Clears(t)
<1>0. tab \in [Tabs -> {"no", "checked", "marked", "cleared", "expiring"}] BY DEF Ind, TypeOK
<1>1. CASE tab' = tab BY <1>1
<1>2. CASE UNCHANGED vars BY <1>1, <1>2 DEF vars
<1>3. ASSUME NEW s \in Tabs, PressChecks(s) \/ Cancel(s) \/ Pin(s) \/ Answers(s) PROVE Clears(t)
  <2>1. s = t BY <1>0, <1>3 DEF PressChecks, Cancel, Pin, Answers, Marks, Clears, Starts, Expires
  <2> QED BY <1>3, <2>1 DEF PressChecks, Cancel, Pin, Answers, Marks, Starts, Expires
<1>4. ASSUME NEW m \in Machines, Claim(m) \/ Leave(m) \/ Companion(m) \/ Handler(m)
      PROVE  tab' = tab
  BY <1>4 DEF Claim, Leave, Companion, Asks, Gone, NextClip, Fetched, Handler, Manifest, Say,
     Moves, Counts, Requeues, EndsLease
<1>5. CASE (\E c \in Clips : Upload(c)) \/ Lapse BY <1>1, <1>5 DEF Upload, Lapse
<1>6. CASE ServerStep \/ Raises
  BY <1>1, <1>6 DEF ServerStep, Picks, SetsUp, Credits, Waits, Lists, Turns, Takes, Lands,
     CountsLanded, CountsFailed, CountsBlocked, Raises
<1> QED BY <1>1, <1>2, <1>3, <1>4, <1>5, <1>6 DEF Next

-----------------------------------------------------------------------------
(* The account *)

LEMMA ClipsCount ==
    ASSUME NEW S \in SUBSET Clips, NEW c \in Clips
    PROVE  /\ Cardinality(S) \in Nat
           /\ c \notin S => Cardinality(S \cup {c}) = Cardinality(S) + 1
           /\ c \in S => Cardinality(S \ {c}) = Cardinality(S) - 1
<1>1. IsFiniteSet(S) /\ Cardinality(S) \in Nat
  BY ClipDownloadAssumption, FS_Subset, FS_CardinalityType
<1>2. c \notin S => Cardinality(S \cup {c}) = Cardinality(S) + 1 BY <1>1, FS_AddElement
<1>3. c \in S => Cardinality(S \ {c}) = Cardinality(S) - 1 BY <1>1, FS_RemoveElement
<1> QED BY <1>1, <1>2, <1>3

\* What a write to one row does to the sets that are counted.
LEMMA OneRow ==
    ASSUME Ind, hist.old \subseteq InState("done"), hist'.old = hist.old,
           NEW c \in Clips, NEW s \in DlStates, row' = Put({c}, s)
    PROVE  /\ row[c] # "done" /\ s = "done" => Cardinality(DoneNow') = Cardinality(DoneNow) + 1
           /\ row[c] # "done" /\ s # "done" => DoneNow' = DoneNow
           /\ row[c] # "failed" /\ s = "failed"
                 => Cardinality(InState("failed")') = Cardinality(InState("failed")) + 1
           /\ row[c] # "failed" /\ s # "failed" => InState("failed")' = InState("failed")
           /\ row[c] = "failed" /\ s # "failed"
                 => Cardinality(InState("failed")') = Cardinality(InState("failed")) - 1
<1>0. DoneNow \in SUBSET Clips /\ InState("failed") \in SUBSET Clips BY DEF DoneNow, InState
<1>1. /\ row'[c] = s
      /\ \A d \in Clips : d # c => row'[d] = row[d]
  BY DEF Put
<1>2. ASSUME row[c] # "done", s = "done" PROVE c \notin DoneNow /\ DoneNow' = DoneNow \cup {c}
  <2>1. c \notin hist.old BY <1>2 DEF InState
  <2> QED BY <1>1, <1>2, <2>1 DEF DoneNow, InState
<1>3. ASSUME row[c] # "done", s # "done" PROVE DoneNow' = DoneNow
  BY <1>1, <1>3 DEF DoneNow, InState
<1>4. ASSUME row[c] # "failed", s = "failed"
      PROVE  c \notin InState("failed") /\ InState("failed")' = InState("failed") \cup {c}
  BY <1>1, <1>4 DEF InState
<1>5. ASSUME row[c] # "failed", s # "failed" PROVE InState("failed")' = InState("failed")
  BY <1>1, <1>5 DEF InState
<1>6. ASSUME row[c] = "failed", s # "failed"
      PROVE  c \in InState("failed") /\ InState("failed")' = InState("failed") \ {c}
  BY <1>1, <1>6 DEF InState
<1> QED BY <1>0, <1>2, <1>3, <1>4, <1>5, <1>6, ClipsCount

LEMMA SumsTyped ==
    ASSUME Ind, HolderIs
    PROVE  /\ Talk \in Call /\ job.done \in Int /\ job.failed \in Int
           /\ \A w \in Worker : DoneAtWork(w) \in Int /\ FailedAtWork(w) \in Int /\ OffAtWork(w) \in Int
           /\ \A k \in Call : DoneInCall(k) \in Int /\ FailedInCall(k) \in Int /\ OffInCall(k) \in Int
<1>1. Talk \in Call
  <2>1. LeaseLive => job.holder \in Machines BY DEF HolderIs, LeaseLive
  <2> QED BY <2>1, RestTyped DEF Talk, Ind, TypeOK
<1>2. job.done \in Int /\ job.failed \in Int BY DEF Ind, TypeOK, Job
<1> QED BY <1>1, <1>2 DEF Worker, Call, DoneAtWork, FailedAtWork,
       OffAtWork, DoneInCall, FailedInCall, OffInCall, One

\* A request that is not being counted or ended has nothing to add.
LEMMA NothingToCount ==
    ASSUME NEW k, k.at \notin {"count", "end"}
    PROVE  FailedInCall(k) = 0 /\ DoneInCall(k) = 0 /\ OffInCall(k) = 0
BY DEF DoneInCall, FailedInCall, OffInCall, One

\* The account stands while nothing that it counts changes.
LEMMA SameAccount ==
    ASSUME Account, DoneNow' = DoneNow, InState("failed")' = InState("failed"),
           job'.done = job.done, job'.failed = job.failed,
           DoneAtWork(wk') = DoneAtWork(wk), FailedAtWork(wk') = FailedAtWork(wk),
           OffAtWork(wk') = OffAtWork(wk),
           DoneInCall(Talk') = DoneInCall(Talk), FailedInCall(Talk') = FailedInCall(Talk),
           OffInCall(Talk') = OffInCall(Talk)
    PROVE  Account'
BY DEF Account, DoneSum, FailedSum

\* The holder is whom the handlers talk to, before and after.
LEMMA HandlerTalks ==
    ASSUME Ind, NEW m \in Machines, Handler(m), Clean'
    PROVE  Talk = call[m] /\ Talk' = call'[m]
<1>1. LeaseLive /\ job.holder = m /\ job \in Job BY HandlerHolds DEF Ind, TypeOK
<1>2. CASE EndsLease(m)
  <2>1. call'[m] = NoCall
    <3>1. ~Manifest(m) /\ ~Counts(m) /\ ~Moves(m) /\ ~Requeues(m)
      BY <1>2 DEF EndsLease, Manifest, Counts, Moves, Requeues
    <3> QED BY <3>1, HandlerMoves
  <2>2. job' = Ended(m, call[m].n) BY <1>2 DEF EndsLease
  <2>3. job'.holder = m BY <1>1, <2>2 DEF Ended, Job
  <2> QED BY <1>1, <2>1, <2>3 DEF Talk
<1>3. CASE Manifest(m) \/ Say(m) \/ Moves(m) \/ Counts(m) \/ Requeues(m)
  <2>1. job'.mode = job.mode /\ job'.lease = job.lease /\ job'.holder = job.holder
    BY <1>1, <1>3 DEF Manifest, Say, Moves, Counts, Requeues, Job
  <2> QED BY <1>1, <2>1 DEF Talk, LeaseLive
<1> QED BY <1>2, <1>3 DEF Handler

LEMMA HandlerAccount ==
    ASSUME Ind, HolderIs, Listed, OldDone, Account, NEW m \in Machines, Handler(m), Clean, Clean',
           hist'.old = hist.old
    PROVE  Account'
<1> DEFINE k == call[m]
           k2 == call'[m]
<1>0. /\ k \in Call /\ CallFull(k) /\ row \in [Clips -> DlStates] /\ job \in Job
      /\ hist.old \subseteq InState("done") /\ wk' = wk
  <2>1. wk' = wk BY DEF Handler, Manifest, Say, Moves, Counts, Requeues, EndsLease
  <2> QED BY <2>1 DEF Ind, TypeOK, HandsFull, OldDone
<1>1. Talk = k /\ Talk' = k2 /\ LeaseLive /\ job.holder = m BY HandlerTalks, HandlerHolds
<1>2. /\ k \in Call /\ job.done \in Int /\ job.failed \in Int
      /\ DoneAtWork(wk) \in Int /\ FailedAtWork(wk) \in Int /\ OffAtWork(wk) \in Int
      /\ DoneInCall(k) \in Int /\ FailedInCall(k) \in Int /\ OffInCall(k) \in Int
  BY <1>0, SumsTyped DEF Ind, TypeOK
<1>3. NoCall.at = "no" BY DEF NoCall
<1>4. k.at \in {"say", "report", "count"} => First(k.todo) \in k.todo /\ First(k.todo) \in Clips
  BY <1>0, FirstIsOne DEF CallFull, Call
<1>5. /\ k2 = NoCall
      \/ /\ k2.todo = k.todo /\ k2.bad = k.bad
         /\ \/ Manifest(m) /\ k2.at = "sweep"
            \/ Counts(m) /\ k2.at = "sweep"
            \/ Moves(m) /\ k2.at = "count"
            \/ Requeues(m) /\ k2.at = "end" /\ k2.n = Cardinality(InState("failed"))
  BY HandlerMoves
<1> HIDE DEF k, k2
<1>6. ASSUME DoneNow' = DoneNow, InState("failed")' = InState("failed"), job' = job,
             k.at \notin {"count", "end"}, k2.at \notin {"count", "end"}
      PROVE  Account'
  <2>1. /\ FailedInCall(k) = 0 /\ DoneInCall(k) = 0 /\ OffInCall(k) = 0
        /\ FailedInCall(k2) = 0 /\ DoneInCall(k2) = 0 /\ OffInCall(k2) = 0
    BY <1>6, NothingToCount
  <2> QED BY <1>0, <1>1, <1>6, <2>1, SameAccount
<1>7. CASE Manifest(m)
  <2>1. row' = Put(InState("pending") \cap Known, "skipped") /\ job' = job /\ k.at = "manifest"
    BY <1>7 DEF Manifest, k
  <2>2. InState("done")' = InState("done") /\ InState("failed")' = InState("failed")
    BY <2>1 DEF InState, Put
  <2>3. DoneNow' = DoneNow BY <2>2 DEF DoneNow
  <2>4. k2.at \notin {"count", "end"}
    BY <1>3, <1>5, <1>7 DEF Manifest, Counts, Moves, Requeues
  <2> QED BY <1>6, <2>1, <2>2, <2>3, <2>4
<1>8. CASE Say(m)
  <2>1. row' = Put({First(k.todo)}, "downloading") /\ job' = job /\ k.at = "say"
    BY <1>8 DEF Say, k
  <2>2. row[First(k.todo)] \in Unfinished BY <1>1, <1>4, <2>1 DEF Listed, Open, k
  <2>3. row[First(k.todo)] \notin {"done", "failed"} BY <2>2 DEF Unfinished
  <2>4. DoneNow' = DoneNow /\ InState("failed")' = InState("failed")
    BY <1>0, <1>4, <2>1, <2>3, OneRow, StatesAre
  <2>5. k2.at \notin {"count", "end"}
    BY <1>3, <1>5, <1>8 DEF Say, Manifest, Counts, Moves, Requeues
  <2> QED BY <1>6, <2>1, <2>4, <2>5
<1>9. CASE Moves(m)
  <2>1. k.at = "report" /\ job' = job BY <1>9 DEF Moves, k
  <2>2. CASE row[First(k.todo)] \in Unfinished
    <3>1. /\ row' = Put({First(k.todo)}, IF k.bad THEN "failed" ELSE "done")
          /\ k2 = [k EXCEPT !.at = "count"]
      <4>1. call' = [call EXCEPT ![m].at = "count"] BY <1>9, <2>2 DEF Moves, k
      <4> QED BY <1>9, <2>2, <4>1 DEF Moves, k, k2, Ind, TypeOK
    <3>2. k2.at = "count" /\ k2.bad = k.bad BY <1>0, <3>1 DEF Call
    <3>3. row[First(k.todo)] \notin {"done", "failed"} BY <2>2 DEF Unfinished
    <3>4. /\ FailedInCall(k) = 0 /\ DoneInCall(k) = 0 /\ OffInCall(k) = 0 BY <2>1, NothingToCount
    <3>5. OffInCall(k2) = 0 BY <3>2 DEF OffInCall
    <3>6. CASE k.bad
      <4>1. FailedInCall(k2) = 1 /\ DoneInCall(k2) = 0
        BY <3>2, <3>6 DEF DoneInCall, FailedInCall, One
      <4>2. /\ DoneNow' = DoneNow
            /\ Cardinality(InState("failed")') = Cardinality(InState("failed")) + 1
        BY <1>0, <1>4, <2>1, <3>1, <3>3, <3>6, OneRow, StatesAre
      <4> QED BY <1>0, <1>1, <1>2, <2>1, <3>4, <3>5, <4>1, <4>2 DEF Account, DoneSum, FailedSum
    <3>7. CASE ~k.bad
      <4>1. FailedInCall(k2) = 0 /\ DoneInCall(k2) = 1
        BY <1>0, <3>2, <3>7 DEF DoneInCall, FailedInCall, One, Call
      <4>2. /\ Cardinality(DoneNow') = Cardinality(DoneNow) + 1
            /\ InState("failed")' = InState("failed")
        BY <1>0, <1>4, <2>1, <3>1, <3>3, <3>7, OneRow, StatesAre
      <4> QED BY <1>0, <1>1, <1>2, <2>1, <3>4, <3>5, <4>1, <4>2 DEF Account, DoneSum, FailedSum
    <3> QED BY <3>6, <3>7
  <2>3. CASE row[First(k.todo)] \notin Unfinished
    <3>1. row' = row /\ Answered(m, "report", NextOf(m)) BY <1>9, <2>3 DEF Moves, k
    <3>2. k2 = NoCall BY <3>1 DEF Answered, k2, Ind, TypeOK
    <3>3. DoneNow' = DoneNow /\ InState("failed")' = InState("failed")
      BY <3>1 DEF DoneNow, InState
    <3> QED BY <1>3, <1>6, <2>1, <3>2, <3>3
  <2> QED BY <2>2, <2>3
<1>10. CASE Counts(m)
  <2>1. /\ k.at = "count" /\ row' = row
        /\ job' = IF k.bad THEN [job EXCEPT !.failed = @ + 1] ELSE [job EXCEPT !.done = @ + 1]
    BY <1>10 DEF Counts, k
  <2>2. DoneNow' = DoneNow /\ InState("failed")' = InState("failed") BY <2>1 DEF DoneNow, InState
  <2>3. k2.at \notin {"count", "end"}
    BY <1>3, <1>5, <1>10 DEF Counts, Manifest, Moves, Requeues
  <2>4. FailedInCall(k2) = 0 /\ DoneInCall(k2) = 0 /\ OffInCall(k2) = 0 BY <2>3, NothingToCount
  <2>5. OffInCall(k) = 0 BY <2>1 DEF OffInCall
  <2>6. CASE k.bad
    <3>1. FailedInCall(k) = 1 /\ DoneInCall(k) = 0 BY <2>1, <2>6 DEF DoneInCall, FailedInCall, One
    <3>2. job'.failed = job.failed + 1 /\ job'.done = job.done BY <1>0, <2>1, <2>6 DEF Job
    <3> QED BY <1>0, <1>1, <1>2, <2>2, <2>4, <2>5, <3>1, <3>2 DEF Account, DoneSum, FailedSum
  <2>7. CASE ~k.bad
    <3>1. FailedInCall(k) = 0 /\ DoneInCall(k) = 1
      BY <1>0, <2>1, <2>7 DEF DoneInCall, FailedInCall, One, Call
    <3>2. job'.failed = job.failed /\ job'.done = job.done + 1 BY <1>0, <2>1, <2>7 DEF Job
    <3> QED BY <1>0, <1>1, <1>2, <2>2, <2>4, <2>5, <3>1, <3>2 DEF Account, DoneSum, FailedSum
  <2> QED BY <2>6, <2>7
<1>11. CASE Requeues(m)
  <2> DEFINE n == Cardinality(InState("failed"))
  <2>1. k.at = "sweep" /\ row' = Put(InState("failed"), "pending") /\ job' = job
    BY <1>11 DEF Requeues, k
  <2>2. k2.at = "end" /\ k2.n = n
    <3>1. call' = [call EXCEPT ![m].at = "end", ![m].n = n] BY <1>11 DEF Requeues
    <3> HIDE DEF n
    <3>2. k2 = [k EXCEPT !.at = "end", !.n = n] BY <1>0, <3>1 DEF k, k2, Ind, TypeOK, Call
    <3> QED BY <1>0, <3>2 DEF Call
  <2>3. /\ FailedInCall(k) = 0 /\ DoneInCall(k) = 0 /\ OffInCall(k) = 0
        /\ FailedInCall(k2) = 0 /\ DoneInCall(k2) = 0 /\ OffInCall(k2) = n
    BY <2>1, <2>2, NothingToCount DEF DoneInCall, FailedInCall, OffInCall, One
  <2>4. InState("done")' = InState("done") /\ InState("failed")' = {}
    BY <2>1 DEF InState, Put
  <2>5. DoneNow' = DoneNow BY <2>4 DEF DoneNow
  <2>6. Cardinality(InState("failed")') = 0 BY <2>4, FS_EmptySet
  <2>7. n \in Nat BY Counted DEF InState
  <2>8. FailedSum = n BY DEF Account
  <2> HIDE DEF n
  <2>9. FailedSum' = 0
    BY <1>0, <1>1, <1>2, <2>1, <2>3, <2>7, <2>8 DEF FailedSum
  <2>10. DoneSum' = DoneSum BY <1>0, <1>1, <2>1, <2>3 DEF DoneSum
  <2> QED BY <2>5, <2>6, <2>9, <2>10 DEF Account
<1>12. CASE EndsLease(m)
  <2>1. k.at = "end" /\ row' = row /\ job' = Ended(m, k.n) BY <1>12 DEF EndsLease, k
  <2>2. DoneNow' = DoneNow /\ InState("failed")' = InState("failed") BY <2>1 DEF DoneNow, InState
  <2>3. k2.at \notin {"count", "end"}
    BY <1>3, <1>5, <1>12 DEF EndsLease, Counts, Manifest, Moves, Requeues
  <2>4. FailedInCall(k2) = 0 /\ DoneInCall(k2) = 0 /\ OffInCall(k2) = 0 BY <2>3, NothingToCount
  <2>5. FailedInCall(k) = 0 /\ DoneInCall(k) = 0 /\ OffInCall(k) = k.n
    BY <2>1 DEF DoneInCall, FailedInCall, OffInCall, One
  <2>6. job'.done = job.done /\ job'.failed = job.failed - k.n BY <1>0, <2>1 DEF Ended, Job
  <2> QED BY <1>0, <1>1, <1>2, <2>2, <2>4, <2>5, <2>6 DEF Account, DoneSum, FailedSum
<1> QED BY <1>7, <1>8, <1>9, <1>10, <1>11, <1>12 DEF Handler

LEMMA NothingAtWork ==
    ASSUME NEW w, w.pc \notin {"count", "credit"}
    PROVE  DoneAtWork(w) = 0 /\ FailedAtWork(w) = 0 /\ OffAtWork(w) = 0
BY DEF DoneAtWork, FailedAtWork, OffAtWork, One

LEMMA WorkerAccount ==
    ASSUME Ind, OneExecutor, HolderIs, OldDone, Crediting, Account, ServerStep, Clean,
           hist'.old = hist.old, ~hist'.found, Talk' = Talk, Lists => job' = job
    PROVE  Account'
<1> DEFINE c == First(wk.todo)
<1>0. /\ wk \in Worker /\ row \in [Clips -> DlStates] /\ job \in Job /\ hist \in Hist
      /\ hist.old \subseteq InState("done")
      /\ Asleep \in Worker /\ Asleep.pc = "idle"
      /\ wk.pc \in {"take", "fetch", "count"} => wk.todo # {}
  BY RestTyped DEF Ind, TypeOK, HandsFull, OldDone
<1>1. /\ job.done \in Int /\ job.failed \in Int
      /\ DoneAtWork(wk) \in Int /\ FailedAtWork(wk) \in Int /\ OffAtWork(wk) \in Int
      /\ DoneInCall(Talk) \in Int /\ FailedInCall(Talk) \in Int /\ OffInCall(Talk) \in Int
  BY <1>0, SumsTyped DEF Ind, TypeOK
<1>2. wk.todo # {} => c \in wk.todo /\ c \in Clips BY <1>0, FirstIsOne DEF Worker
<1> HIDE DEF c
<1>3. ASSUME row' = row
      PROVE  DoneNow' = DoneNow /\ InState("failed")' = InState("failed")
  BY <1>3 DEF DoneNow, InState
<1>4. ASSUME DoneNow' = DoneNow, InState("failed")' = InState("failed"),
             job'.done = job.done, job'.failed = job.failed,
             wk.pc \notin {"count", "credit"}, wk'.pc \notin {"count", "credit"}
      PROVE  Account'
  <2>1. /\ DoneAtWork(wk) = 0 /\ FailedAtWork(wk) = 0 /\ OffAtWork(wk) = 0
        /\ DoneAtWork(wk') = 0 /\ FailedAtWork(wk') = 0 /\ OffAtWork(wk') = 0
    BY <1>4, NothingAtWork
  <2> QED BY <1>4, <2>1, SameAccount
<1>5. CASE Picks
  <2>1. wk.pc = "idle" /\ row' = row /\ job'.done = job.done /\ job'.failed = job.failed
    BY <1>0, <1>5 DEF Picks, At, Over_, Job
  <2>2. wk'.pc \in {"idle", "setup"} BY <1>0, <1>5 DEF Picks, At, Worker
  <2> QED BY <1>3, <1>4, <2>1, <2>2
<1>6. CASE SetsUp
  <2>1. wk.pc = "setup" /\ row' = row /\ job'.done = job.done /\ job'.failed = job.failed
    BY <1>0, <1>6 DEF SetsUp, At, Reclaimed, Job
  <2>2. CASE wk.local
    <3>1. wk' = [wk EXCEPT !.pc = "credit", !.failed = InState("failed"),
                           !.todo = Unsettled \cup InState("failed")]
      BY <1>6, <2>2 DEF SetsUp
    <3>2. wk'.pc = "credit" /\ wk'.n = 0 BY <1>0, <2>1, <3>1 DEF Worker, HolderIs
    <3>3. /\ DoneAtWork(wk) = 0 /\ FailedAtWork(wk) = 0 /\ OffAtWork(wk) = 0
          /\ DoneAtWork(wk') = 0 /\ FailedAtWork(wk') = 0 /\ OffAtWork(wk') = 0
      BY <2>1, <3>2, NothingAtWork DEF DoneAtWork, FailedAtWork, OffAtWork, One
    <3> QED BY <1>3, <2>1, <3>3, SameAccount
  <2>3. CASE ~wk.local
    <3>1. wk'.pc = "grace" BY <1>0, <1>6, <2>3 DEF SetsUp, Worker
    <3> QED BY <1>3, <1>4, <2>1, <3>1
  <2> QED BY <2>2, <2>3
<1>7. CASE Credits
  <2>0. wk.pc = "credit" BY <1>7 DEF Credits, At
  <2>1. DoneAtWork(wk) = 0 /\ FailedAtWork(wk) = 0 /\ OffAtWork(wk) = wk.n /\ wk.n \in Nat
    BY <1>0, <2>0 DEF DoneAtWork, FailedAtWork, OffAtWork, One, Worker
  <2>2. CASE wk.todo = {}
    <3>1. wk'.pc = "grace" /\ job' = [job EXCEPT !.failed = @ - wk.n] /\ row' = row
      BY <1>0, <1>7, <2>2 DEF Credits, Worker
    <3>2. job'.done = job.done /\ job'.failed = job.failed - wk.n BY <1>0, <3>1 DEF Job
    <3>3. DoneAtWork(wk') = 0 /\ FailedAtWork(wk') = 0 /\ OffAtWork(wk') = 0 BY <3>1, NothingAtWork
    <3> QED BY <1>1, <1>3, <2>1, <3>1, <3>2, <3>3 DEF Account, DoneSum, FailedSum
  <2>3. CASE wk.todo # {}
    <3>1. /\ row' = Put({c}, IF c \in disk THEN "done" ELSE "pending")
          /\ job' = IF c \in disk THEN [job EXCEPT !.done = @ + 1] ELSE job
          /\ wk' = [wk EXCEPT !.todo = @ \ {c},
                              !.n = IF c \in wk.failed \ disk THEN @ + 1 ELSE @]
          /\ hist' = [hist EXCEPT !.crossed = @ \/ LeaseLive,
                                  !.found = @ \/ c \in wk.failed \cap disk]
      BY <1>7, <2>3 DEF Credits, c
    <3>2. c \in wk.todo /\ c \in Clips BY <1>2, <2>3
    <3>3. row[c] \in Unfinished \cup {"failed"} /\ (row[c] = "failed" <=> c \in wk.failed)
      BY <2>0, <3>2 DEF Crediting, InState
    <3>4. row[c] # "done" BY <3>3 DEF Unfinished
    <3>5. wk'.pc = "credit" /\ wk'.n = IF c \in wk.failed \ disk THEN wk.n + 1 ELSE wk.n
      BY <1>0, <2>0, <3>1 DEF Worker
    <3>6. DoneAtWork(wk') = 0 /\ FailedAtWork(wk') = 0 /\ OffAtWork(wk') = wk'.n
      BY <3>5 DEF DoneAtWork, FailedAtWork, OffAtWork, One
    <3>7. CASE c \in disk
      <4>1. c \notin wk.failed
        <5>1. hist'.found = (hist.found \/ c \in wk.failed \cap disk) BY <1>0, <3>1 DEF Hist
        <5> QED BY <3>7, <5>1
      <4>2. row[c] # "failed" /\ wk'.n = wk.n BY <3>3, <3>5, <4>1
      <4>3. job'.done = job.done + 1 /\ job'.failed = job.failed BY <1>0, <3>1, <3>7 DEF Job
      <4>4. /\ Cardinality(DoneNow') = Cardinality(DoneNow) + 1
            /\ InState("failed")' = InState("failed")
        BY <1>0, <3>1, <3>2, <3>4, <3>7, <4>2, OneRow, StatesAre
      <4> QED BY <1>1, <2>1, <3>6, <4>2, <4>3, <4>4 DEF Account, DoneSum, FailedSum
    <3>8. CASE c \notin disk /\ c \in wk.failed
      <4>1. wk'.n = wk.n + 1 /\ job' = job BY <3>1, <3>5, <3>8
      <4>2. /\ DoneNow' = DoneNow
            /\ Cardinality(InState("failed")') = Cardinality(InState("failed")) - 1
        BY <1>0, <3>1, <3>2, <3>3, <3>4, <3>8, OneRow, StatesAre
      <4> QED BY <1>1, <2>1, <3>6, <4>1, <4>2 DEF Account, DoneSum, FailedSum
    <3>9. CASE c \notin disk /\ c \notin wk.failed
      <4>1. wk'.n = wk.n /\ job' = job BY <3>1, <3>5, <3>9
      <4>2. DoneNow' = DoneNow /\ InState("failed")' = InState("failed")
        BY <1>0, <3>1, <3>2, <3>3, <3>4, <3>9, OneRow, StatesAre
      <4> QED BY <1>1, <2>1, <3>6, <4>1, <4>2 DEF Account, DoneSum, FailedSum
    <3> QED BY <3>7, <3>8, <3>9
  <2> QED BY <2>2, <2>3
<1>8. CASE Waits
  <2>1. wk'.pc \in {"idle", "list"} BY <1>0, <1>8 DEF Waits, Worker
  <2> QED BY <1>3, <1>4, <1>8, <2>1 DEF Waits, At
<1>9. CASE Lists
  <2>1. wk'.pc \in {"idle", "next"} BY <1>0, <1>9 DEF Lists, Worker
  <2> QED BY <1>3, <1>4, <1>9, <2>1 DEF Lists, At
<1>10. CASE Turns
  <2>1. wk'.pc \in {"idle", "take"} BY <1>0, <1>10 DEF Turns, Worker
  <2>2. job'.done = job.done /\ job'.failed = job.failed BY <1>0, <1>10 DEF Turns, Over_, Job
  <2> QED BY <1>3, <1>4, <1>10, <2>1, <2>2 DEF Turns, At
<1>11. CASE Takes
  <2>1. wk.pc = "take" /\ job' = job BY <1>11 DEF Takes, At
  <2>2. wk'.pc \in {"next", "fetch"} BY <1>0, <1>11 DEF Takes, Worker
  <2>3. \/ row' = row
        \/ row[c] = "pending" /\ \E s \in {"skipped", "downloading"} : row' = Put({c}, s)
    BY <1>11 DEF Takes, c
  <2>4. DoneNow' = DoneNow /\ InState("failed")' = InState("failed")
    BY <1>0, <1>2, <1>3, <2>1, <2>3, OneRow, StatesAre
  <2> QED BY <1>4, <2>1, <2>2, <2>4
<1>12. CASE Lands
  <2>1. wk.pc = "fetch" /\ job' = job /\ c \in Clips BY <1>0, <1>2, <1>12 DEF Lands, At
  <2>2. row[c] = "downloading" BY <2>1 DEF OneExecutor, c
  <2>3. PICK bad \in BOOLEAN : /\ row' = Put({c}, IF bad THEN "failed" ELSE "done")
                               /\ wk' = [wk EXCEPT !.pc = "count", !.bad = bad]
    BY <1>12 DEF Lands, c
  <2>4. wk'.pc = "count" /\ wk'.bad = bad BY <1>0, <2>3 DEF Worker
  <2>5. DoneAtWork(wk) = 0 /\ FailedAtWork(wk) = 0 /\ OffAtWork(wk) = 0 BY <2>1, NothingAtWork
  <2>6. OffAtWork(wk') = 0 BY <2>4 DEF OffAtWork
  <2>7. CASE bad
    <3>1. DoneAtWork(wk') = 0 /\ FailedAtWork(wk') = 1
      BY <2>4, <2>7 DEF DoneAtWork, FailedAtWork, One
    <3>2. /\ DoneNow' = DoneNow
          /\ Cardinality(InState("failed")') = Cardinality(InState("failed")) + 1
      BY <1>0, <2>1, <2>2, <2>3, <2>7, OneRow, StatesAre
    <3> QED BY <1>1, <2>1, <2>5, <2>6, <3>1, <3>2 DEF Account, DoneSum, FailedSum
  <2>8. CASE ~bad
    <3>1. DoneAtWork(wk') = 1 /\ FailedAtWork(wk') = 0
      BY <2>4, <2>8 DEF DoneAtWork, FailedAtWork, One
    <3>2. /\ Cardinality(DoneNow') = Cardinality(DoneNow) + 1
          /\ InState("failed")' = InState("failed")
      BY <1>0, <2>1, <2>2, <2>3, <2>8, OneRow, StatesAre
    <3> QED BY <1>1, <2>1, <2>5, <2>6, <3>1, <3>2 DEF Account, DoneSum, FailedSum
  <2> QED BY <2>7, <2>8
<1>13. CASE CountsLanded
  <2>1. /\ wk.pc = "count" /\ ~wk.bad /\ row' = row /\ wk'.pc = "next"
        /\ job'.done = job.done + 1 /\ job'.failed = job.failed
    BY <1>0, <1>13 DEF CountsLanded, At, Worker, Job
  <2>2. DoneAtWork(wk) = 1 /\ FailedAtWork(wk) = 0 /\ OffAtWork(wk) = 0
    BY <2>1 DEF DoneAtWork, FailedAtWork, OffAtWork, One
  <2>3. DoneAtWork(wk') = 0 /\ FailedAtWork(wk') = 0 /\ OffAtWork(wk') = 0 BY <2>1, NothingAtWork
  <2> QED BY <1>1, <1>3, <2>1, <2>2, <2>3 DEF Account, DoneSum, FailedSum
<1>14. ASSUME CountsFailed \/ CountsBlocked
       PROVE  /\ wk.pc = "count" /\ DoneAtWork(wk) = 0 /\ FailedAtWork(wk) = 1 /\ OffAtWork(wk) = 0
              /\ wk'.pc \in {"next", "idle"}
              /\ DoneAtWork(wk') = 0 /\ FailedAtWork(wk') = 0 /\ OffAtWork(wk') = 0
  <2>1. wk.pc = "count" /\ wk.bad BY <1>14 DEF CountsFailed, CountsBlocked, At
  <2>2. DoneAtWork(wk) = 0 /\ FailedAtWork(wk) = 1 /\ OffAtWork(wk) = 0
    BY <2>1 DEF DoneAtWork, FailedAtWork, OffAtWork, One
  <2>3. wk'.pc \in {"next", "idle"} BY <1>0, <1>14 DEF CountsFailed, CountsBlocked, Worker
  <2> QED BY <2>1, <2>2, <2>3, NothingAtWork
<1>15. CASE CountsFailed
  <2>1. row' = row /\ job'.done = job.done /\ job'.failed = job.failed + 1
    BY <1>0, <1>15 DEF CountsFailed, Job
  <2> QED BY <1>1, <1>3, <1>14, <1>15, <2>1 DEF Account, DoneSum, FailedSum
<1>16. CASE CountsBlocked
  <2> DEFINE rest == InState("pending")
  <2>1. CASE wk.handed
    <3>1. row' = Put(rest, "failed") BY <1>16, <2>1 DEF CountsBlocked
    <3>2. job'.done = job.done /\ job'.failed = job.failed + 1 + Cardinality(rest)
      <4>1. job' = [job EXCEPT !.phase = "done", !.failed = @ + 1 + Cardinality(rest)]
        BY <1>16, <2>1 DEF CountsBlocked
      <4> HIDE DEF rest
      <4> QED BY <1>0, <4>1 DEF Job
    <3>3. /\ InState("done")' = InState("done")
          /\ InState("failed")' = InState("failed") \cup rest
          /\ InState("failed") \cap rest = {}
      BY <3>1 DEF InState, Put
    <3>4. DoneNow' = DoneNow BY <3>3 DEF DoneNow
    <3>5. /\ Cardinality(InState("failed")') = Cardinality(InState("failed")) + Cardinality(rest)
          /\ Cardinality(rest) \in Nat /\ Cardinality(InState("failed")) \in Nat
      <4>1. InState("failed") \in SUBSET Clips /\ rest \in SUBSET Clips BY DEF InState
      <4>2. IsFiniteSet(InState("failed")) /\ IsFiniteSet(rest)
        BY <4>1, ClipDownloadAssumption, FS_Subset
      <4>3. /\ Cardinality(InState("failed") \cup rest)
                 = Cardinality(InState("failed")) + Cardinality(rest)
                     - Cardinality(InState("failed") \cap rest)
            /\ Cardinality({}) = 0
            /\ Cardinality(rest) \in Nat /\ Cardinality(InState("failed")) \in Nat
        BY <4>2, FS_Union, FS_EmptySet, FS_CardinalityType
      <4> DEFINE F == InState("failed")
      <4>4. Cardinality(F \cap rest) = 0 BY <3>3, <4>3
      <4>5. Cardinality(InState("failed")') = Cardinality(F \cup rest) BY <3>3
      <4> HIDE DEF F, rest
      <4> QED BY <4>3, <4>4, <4>5 DEF F
    <3> HIDE DEF rest
    <3> QED BY <1>1, <1>14, <1>16, <3>2, <3>4, <3>5 DEF Account, DoneSum, FailedSum
  <2>2. CASE ~wk.handed
    <3>1. row' = row /\ job'.done = job.done /\ job'.failed = job.failed + 1
      BY <1>0, <1>16, <2>2 DEF CountsBlocked, Job
    <3> QED BY <1>1, <1>3, <1>14, <1>16, <3>1 DEF Account, DoneSum, FailedSum
  <2> QED BY <2>1, <2>2
<1> QED BY <1>5, <1>6, <1>7, <1>8, <1>9, <1>10, <1>11, <1>12, <1>13, <1>15, <1>16 DEF ServerStep

\* A press that resets the counters finds nothing to count.
LEMMA ClearsAccount ==
    ASSUME Ind, Running, Pressing, NoLease, MarksAll, NEW t \in Tabs, Clears(t), Clean
    PROVE  Account'
<1>0. job \in Job /\ hist \in Hist /\ NoCall.at = "no" BY DEF Ind, TypeOK, NoCall
<1>1. Pressed BY DEF Clears, Pressed
<1>2. wk.pc = "idle" /\ wk' = wk BY <1>1 DEF Pressing, Running, Clears
<1>3. /\ job'.done = 0 /\ job'.failed = 0 /\ job'.mode = "server"
      /\ hist'.old = InState("done") /\ row' = row
  BY <1>0 DEF Clears, FreshRun, Job, Hist
<1>4. Talk' = NoCall BY <1>3 DEF Talk, LeaseLive
<1>5. DoneNow' = {} /\ InState("failed")' = {} BY <1>1, <1>3 DEF DoneNow, InState, MarksAll
<1>6. Cardinality({}) = 0 BY FS_EmptySet
<1>7. DoneAtWork(wk') = 0 /\ FailedAtWork(wk') = 0 /\ OffAtWork(wk') = 0 BY <1>2, NothingAtWork
<1>8. DoneInCall(Talk') = 0 /\ FailedInCall(Talk') = 0 /\ OffInCall(Talk') = 0
  BY <1>0, <1>4, NothingToCount
<1> QED BY <1>3, <1>5, <1>6, <1>7, <1>8 DEF Account, DoneSum, FailedSum

\* Nobody else touches rows, counters or the worker.
LEMMA OthersAre ==
    ASSUME Ind, [Next]_vars, ~Marking', ~Restart, ~Raises, ~ServerStep,
           \A t \in Tabs : ~Clears(t), \A m \in Machines : ~Handler(m)
    PROVE  /\ row' = row /\ wk' = wk /\ job'.done = job.done /\ job'.failed = job.failed
           /\ call' = call \/ \E m \in Machines : Asks(m)
<1>0. /\ job \in Job /\ row \in [Clips -> DlStates]
      /\ tab \in [Tabs -> {"no", "checked", "marked", "cleared", "expiring"}]
  BY DEF Ind, TypeOK
<1> USE DEF Job
<1>1. CASE UNCHANGED vars BY <1>1 DEF vars
<1>2. ASSUME NEW t \in Tabs, Marks(t) PROVE row' = row /\ wk' = wk /\ job' = job /\ call' = call
  <2> DEFINE again == InState("none") \cup InState("failed") \cup InState("pending")
  <2>1. row' = Put(again, "pending") BY <1>2 DEF Marks
  <2>2. tab' = [tab EXCEPT ![t] = IF again = {} THEN "no" ELSE "marked"] BY <1>2 DEF Marks
  <2> HIDE DEF again
  <2>3. again = {} BY <1>0, <2>2 DEF Marking
  <2>4. row' = row BY <1>0, <2>1, <2>3 DEF Put
  <2> QED BY <1>2, <2>4 DEF Marks
<1>3. ASSUME NEW t \in Tabs, PressChecks(t) \/ Cancel(t) \/ Pin(t) \/ Starts(t) \/ Expires(t)
      PROVE  /\ row' = row /\ wk' = wk /\ call' = call
             /\ job'.done = job.done /\ job'.failed = job.failed
  BY <1>0, <1>3 DEF PressChecks, Cancel, Pin, Starts, Expires
<1>4. ASSUME NEW m \in Machines, Claim(m) \/ Leave(m) \/ Companion(m)
      PROVE  /\ row' = row /\ wk' = wk /\ job'.done = job.done /\ job'.failed = job.failed
             /\ call' = call \/ Asks(m)
  BY <1>0, <1>4 DEF Claim, Leave, Companion, Asks, Gone, NextClip, Fetched
<1>5. CASE (\E c \in Clips : Upload(c)) \/ Lapse BY <1>0, <1>5 DEF Upload, Lapse
<1> QED BY <1>1, <1>2, <1>3, <1>4, <1>5 DEF Next, Answers

LEMMA StepBalanced ==
    /\ Ind /\ Kept /\ Running /\ Pressing /\ NoLease /\ OneExecutor /\ HolderIs /\ Listed /\ OldDone
    /\ Crediting /\ MarksAll /\ Balanced /\ [Next]_vars
    => Balanced'
<1> SUFFICES ASSUME Ind, Kept, Running, Pressing, NoLease, OneExecutor, HolderIs, Listed, OldDone,
                    Crediting, MarksAll, Balanced, [Next]_vars, Sound', ~hist'.found, ~Marking'
             PROVE  Account'
  BY DEF Balanced
<1>0. /\ Sound /\ Clean /\ Clean' /\ ~Restart /\ ~Raises /\ (Lists => job' = job)
      /\ NoCall.at = "no"
  BY SoundStays DEF Sound, NoCall
<1>1. ASSUME NEW t \in Tabs, Clears(t) PROVE Account' BY <1>0, <1>1, ClearsAccount
<1>2. CASE \A t \in Tabs : ~Clears(t)
  <2>1. hist'.old = hist.old /\ ~hist.found BY <1>2, GhostMoves
  <2>2. ~Marking BY <1>0, <1>2, MarkGoes DEF Marking
  <2>3. Account BY <1>0, <2>1, <2>2 DEF Balanced
  <2>4. ASSUME call' = call PROVE Talk' = Talk BY <1>0, <2>4, TalkStays
  <2>5. ASSUME NEW m \in Machines, Handler(m) PROVE Account'
    BY <1>0, <2>1, <2>3, <2>5, HandlerAccount
  <2>6. CASE ServerStep
    <3>1. call' = call
      BY <2>6 DEF ServerStep, Picks, SetsUp, Credits, Waits, Lists, Turns, Takes, Lands,
         CountsLanded, CountsFailed, CountsBlocked
    <3> QED BY <1>0, <2>1, <2>3, <2>4, <2>6, <3>1, WorkerAccount
  <2>7. CASE ~ServerStep /\ \A m \in Machines : ~Handler(m)
    <3>1. /\ row' = row /\ wk' = wk /\ job'.done = job.done /\ job'.failed = job.failed
          /\ call' = call \/ \E m \in Machines : Asks(m)
      BY <1>0, <1>2, <2>7, OthersAre
    <3>2. DoneNow' = DoneNow /\ InState("failed")' = InState("failed")
      BY <2>1, <3>1 DEF DoneNow, InState
    <3>3. CASE call' = call BY <2>3, <2>4, <3>1, <3>2, <3>3, SameAccount
    <3>4. ASSUME NEW m \in Machines, Asks(m) PROVE Account'
      <4>1. /\ LeaseLive /\ job.holder = m /\ job' = job /\ call[m] = NoCall
            /\ run[m].pc \in {"manifest", "say", "report"}
            /\ call' = [call EXCEPT ![m] = [at |-> run[m].pc, todo |-> run[m].todo,
                                            bad |-> run[m].bad, n |-> 0]]
        BY <3>4 DEF Asks, Allowed
      <4>2. Talk = NoCall /\ Talk' = call'[m] BY <4>1 DEF Talk, LeaseLive
      <4>3. call'[m].at = run[m].pc BY <4>1 DEF Ind, TypeOK
      <4>4. /\ DoneInCall(Talk) = 0 /\ FailedInCall(Talk) = 0 /\ OffInCall(Talk) = 0
            /\ DoneInCall(Talk') = 0 /\ FailedInCall(Talk') = 0 /\ OffInCall(Talk') = 0
        BY <1>0, <4>1, <4>2, <4>3, NothingToCount
      <4> QED BY <2>3, <3>1, <3>2, <4>4, SameAccount
    <3> QED BY <3>1, <3>3, <3>4
  <2> QED BY <2>5, <2>6, <2>7
<1> QED BY <1>1, <1>2

-----------------------------------------------------------------------------
(* The invariant, and what it says of a job at rest *)

Tallied == /\ Kept /\ HolderIs /\ Paired /\ Listed /\ OldDone
            /\ Crediting /\ MarksAll /\ Balanced

LEMMA TallyStarts == Init => Tallied
<1> SUFFICES ASSUME Init PROVE Tallied OBVIOUS
<1>1. /\ wk = Asleep /\ wk.pc = "idle" /\ NoCall.at = "no" /\ Idle.pc = "off" /\ Idle.todo = {}
      /\ job.mode = "server" /\ job.done = 0 /\ job.failed = 0 /\ hist.old = {}
      /\ \A c \in Clips : row[c] = "none"
      /\ \A m \in Machines : run[m] = Idle /\ call[m] = NoCall
      /\ \A t \in Tabs : tab[t] = "no"
  BY RestTyped DEF Init, NoCall, Idle
<1>2. Kept BY ClipDownloadAssumption DEF Init, Kept
<1>3. HolderIs /\ Crediting /\ OldDone BY <1>1 DEF HolderIs, Crediting, OldDone
<1>4. Paired BY <1>1 DEF Paired, Waiting
<1>5. ~LeaseLive /\ Talk = NoCall BY <1>1 DEF LeaseLive, Talk
<1>6. Listed BY <1>5 DEF Listed
<1>7. InState("done") = {} /\ InState("failed") = {} /\ ~Pressed BY <1>1 DEF InState, Pressed
<1>8. MarksAll BY <1>7 DEF MarksAll
<1>9. Balanced
  <2>1. /\ DoneAtWork(wk) = 0 /\ FailedAtWork(wk) = 0 /\ OffAtWork(wk) = 0
        /\ DoneInCall(Talk) = 0 /\ FailedInCall(Talk) = 0 /\ OffInCall(Talk) = 0
    BY <1>1, <1>5, NothingAtWork, NothingToCount
  <2>2. DoneNow = {} BY <1>7 DEF DoneNow
  <2>3. Cardinality({}) = 0 BY FS_EmptySet
  <2> QED BY <1>1, <1>7, <2>1, <2>2, <2>3 DEF Balanced, Account, DoneSum, FailedSum
<1> QED BY <1>2, <1>3, <1>4, <1>6, <1>8, <1>9 DEF Tallied

LEMMA Tallying == Spec => [](Ind /\ Settles /\ OneExecutor /\ Tallied)
<1>1. Ind /\ Settles /\ OneExecutor /\ Tallied /\ [Next]_vars => Tallied'
  <2> SUFFICES ASSUME Ind, Settles, OneExecutor, Tallied, [Next]_vars PROVE Tallied' OBVIOUS
  <2>1. /\ Unclaimed /\ Running /\ Pressing /\ NoLease
        /\ Kept /\ HolderIs /\ Paired /\ Listed /\ OldDone /\ Crediting /\ MarksAll /\ Balanced
    BY DEF Settles, Shape, Tallied
  <2>2. Kept' /\ HolderIs' /\ Paired' /\ Listed'
    BY <2>1, StepKept, StepHolderIs, StepPaired, StepListed
  <2>3. OldDone' /\ Crediting' /\ MarksAll' /\ Balanced'
    BY <2>1, StepOldDone, StepCrediting, StepMarksAll, StepBalanced
  <2> QED BY <2>2, <2>3 DEF Tallied
<1>2. Init => OneExecutor BY RestTyped DEF Init, OneExecutor
<1>3. Ind /\ Settles /\ OneExecutor /\ [Next]_vars => OneExecutor' BY StepOneExecutor DEF Settles
<1> QED BY <1>1, <1>2, <1>3, TallyStarts, Settling, Typing, PTL DEF Spec

\* The counters of a job at rest are its rows: every clip of this run that is done
\* was counted once, and what is counted as failed is what is failed now.
THEOREM CountersAreTrue == Spec => []CountersTrue
<1>1. Ind /\ Tallied => CountersTrue
  <2> SUFFICES ASSUME Ind, Tallied, Clean, ~hist.found, NoMishap, AtRest
               PROVE  /\ job.done = Cardinality(InState("done") \ hist.old)
                      /\ job.failed = Cardinality(InState("failed"))
    BY DEF CountersTrue
  <2>1. /\ ~Stuck /\ ~Marking /\ wk.pc = "idle" /\ Talk = NoCall /\ NoCall.at = "no"
    <3>1. LeaseLive => job.holder \in Machines BY DEF Tallied, HolderIs, LeaseLive
    <3> QED BY <3>1, RestTyped DEF AtRest, Stuck, Marking, Talk, NoCall
  <2>2. Account BY <2>1 DEF Tallied, Balanced, Sound
  <2>3. /\ DoneAtWork(wk) = 0 /\ FailedAtWork(wk) = 0 /\ OffAtWork(wk) = 0
        /\ DoneInCall(Talk) = 0 /\ FailedInCall(Talk) = 0 /\ OffInCall(Talk) = 0
    BY <2>1, NothingAtWork, NothingToCount
  <2>4. job.done \in Int /\ job.failed \in Int BY DEF Ind, TypeOK, Job
  <2> QED BY <2>2, <2>3, <2>4 DEF Account, DoneSum, FailedSum, DoneNow
<1> QED BY <1>1, Tallying, PTL

=============================================================================
