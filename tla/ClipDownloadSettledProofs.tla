---------------------- MODULE ClipDownloadSettledProofs ----------------------
(***************************************************************************)
(* That a job of ClipDownload which says done is done with its clips, for   *)
(* every set of clips, machines and tabs and every bound.                   *)
(*                                                                          *)
(* While the executors do not cross, a clip in flight in a job that is the  *)
(* server's is the one in the worker's hands or on the list of its reclaim  *)
(* (Held), and what waits is on the worker's list (Ahead).  Both need that  *)
(* the lease, the phase and the worker fit together: nobody presses a job   *)
(* that is running (Pressing), no lease outlives the run (NoLease), and a   *)
(* job the worker picked and nobody claimed since is the server's (Ours).   *)
(***************************************************************************)
EXTENDS ClipDownloadProofs

-----------------------------------------------------------------------------
Flight == InState("downloading")
Queue == InState("pending")

\* The worker runs a job that is downloading.
Running == wk.pc # "idle" => job.phase = "downloading"

\* One press at a time, and none of a job that is downloading.
Pressing ==
    Clean => /\ Pressed => job.phase # "downloading"
             /\ \A s, t \in Tabs : {tab[s], tab[t]} \subseteq {"marked", "cleared"} => s = t

\* Nobody holds a job that is not downloading.
NoLease == Clean /\ job.phase # "downloading" => ~LeaseLive

\* A job that nobody claimed since the worker picked it is the server's, once the
\* worker has set it up.
Ours ==
    wk.pc # "idle" /\ ~hist.since /\ ~(wk.pc = "setup" /\ wk.local) => job.mode = "server"

\* A holder whose request is handing the job back leaves nothing in flight.
Swept ==
    Clean => \A m \in Machines :
        LeaseLive /\ job.holder = m /\ call[m].at \in {"sweep", "end"} => Flight = {}

\* The clips in flight that the worker answers for.
Mine == IF wk.pc = "credit" THEN wk.todo
        ELSE IF wk.pc = "fetch" THEN {First(wk.todo)} ELSE {}

Held ==
    Clean /\ ~hist.dropped =>
        /\ job.phase \in {"ready", "done", "failed"} => Flight = {}
        /\ Pressed => Flight = {}
        /\ job.mode = "server" /\ job.phase = "downloading" => Flight \subseteq Mine

\* What waits is ahead of the worker.
Ahead ==
    Clean /\ ~hist.since =>
        /\ wk.pc \in {"next", "take"} => Queue \subseteq wk.todo
        /\ wk.pc \in {"fetch", "count"} => Queue \subseteq wk.todo \ {First(wk.todo)}

\* A job that is done has nothing waiting until it is pressed again.
Through == Clean /\ ~hist.torn /\ job.phase = "done" /\ ~Pressed => Queue = {}

-----------------------------------------------------------------------------
(* What a step does to the ghost *)

\* The ghost never forgets a crossing.
LEMMA CleanStays ==
    ASSUME Ind, [Next]_vars, Clean'
    PROVE  Clean
<1>0. hist \in Hist BY DEF Ind, TypeOK
<1>1. CASE UNCHANGED vars BY <1>1 DEF vars, Clean
<1>2. ASSUME NEW t \in Tabs, PressChecks(t) \/ Cancel(t) \/ Pin(t) \/ Answers(t) PROVE Clean
  <2>1. CASE Marks(t) BY <2>1, GhostKeeps DEF Marks
  <2>2. CASE Clears(t) BY <1>0, <2>2 DEF Clears, Hist, Clean
  <2>3. CASE Starts(t) BY <2>3, OtherGhosts DEF Ind
  <2> QED BY <1>2, <2>1, <2>2, <2>3
          DEF PressChecks, Cancel, Pin, Answers, Expires, Clean
<1>3. ASSUME NEW m \in Machines, Claim(m) PROVE Clean
  <2>1. hist'.crossed = (hist.crossed \/ call[m] # NoCall) BY <1>0, <1>3 DEF Claim, Hist
  <2> QED BY <2>1 DEF Clean
<1>4. ASSUME NEW m \in Machines, Leave(m) \/ Companion(m) PROVE Clean
  BY <1>4 DEF Leave, Companion, Asks, Gone, NextClip, Fetched, Clean
<1>5. ASSUME NEW m \in Machines, Handler(m) PROVE Clean
  BY <1>5, GhostKeeps DEF Handler, Manifest, Say, Moves, Counts, Requeues, EndsLease
<1>6. CASE (\E c \in Clips : Upload(c)) \/ Lapse BY <1>6 DEF Upload, Lapse, Clean
<1>7. CASE ServerStep \/ Raises \/ Restart
  <2>1. CASE Picks BY <1>0, <2>1 DEF Picks, Hist, Clean
  <2>2. CASE Credits \/ Raises \/ Restart BY <2>2, OtherGhosts DEF Ind
  <2> QED BY <1>7, <2>1, <2>2, GhostKeeps
          DEF ServerStep, SetsUp, Waits, Lists, Turns, Takes, Lands, CountsLanded,
              CountsFailed, CountsBlocked
<1> QED BY <1>1, <1>2, <1>3, <1>4, <1>5, <1>6, <1>7 DEF Next

LEMMA TakenBackTells == ASSUME Ind, NEW b, TakenBack(b), Clean' PROVE ~b
BY DEF Ind, TypeOK, Hist, TakenBack, Clean

\* A fleet route that crosses nobody has a caller who holds the job.
LEMMA HandlerHolds ==
    ASSUME Ind, NEW m \in Machines, Handler(m), Clean'
    PROVE  LeaseLive /\ job.holder = m
<1>1. ~TooLate(m)
  <2>1. CASE Manifest(m) \/ Say(m) \/ Moves(m) \/ Counts(m) \/ Requeues(m)
    BY <2>1, CrossingTells DEF Manifest, Say, Moves, Counts, Requeues
  <2>2. CASE EndsLease(m)
    <3>1. Crossing(TooLate(m)) \/ TakenBack(TooLate(m)) BY <2>2 DEF EndsLease
    <3> QED BY <3>1, CrossingTells, TakenBackTells
  <2> QED BY <2>1, <2>2 DEF Handler
<1> QED BY <1>1 DEF TooLate

\* The worker takes a clip or ends the phase on its own job, or crosses.
LEMMA WorkerAlone ==
    ASSUME Ind, ServerStep \/ Raises, ~Picks, Clean',
           Takes \/ job'.phase # job.phase \/ (Turns /\ wk.todo = {})
    PROVE  ~hist.since /\ wk.pc # "idle" /\ (~Takes => wk' = Asleep)
<1>0. job \in Job /\ hist \in Hist /\ wk \in Worker BY DEF Ind, TypeOK
<1>1. CASE Takes BY <1>1, CrossingTells DEF Takes, At
<1>2. CASE Lists
  <2>1. job' # job BY <1>2 DEF Lists, Takes, Turns, At
  <2>2. job' = Over_("failed") /\ wk' = Asleep BY <1>2, <2>1 DEF Lists
  <2>3. job'.phase # "downloading" BY <1>0, <2>2 DEF Over_, Job
  <2> QED BY <1>2, <2>2, <2>3, CrossingTells DEF Lists, At
<1>3. CASE Turns
  <2>1. wk.todo = {} /\ wk' = Asleep BY <1>3 DEF Turns, Takes, At
  <2>2. Crossing(hist.since /\ (wk.todo = {} \/ wk'.pc = "take")) BY <1>3 DEF Turns
  <2>3. ~(hist.since /\ (wk.todo = {} \/ wk'.pc = "take")) BY <2>2, CrossingTells
  <2> QED BY <1>3, <2>1, <2>3 DEF Turns, At
<1>4. CASE CountsFailed
  <2>1. PICK n \in {1, wk.n + 1} :
          IF n < Streak
          THEN /\ job' = [job EXCEPT !.failed = @ + 1]
               /\ wk' = [wk EXCEPT !.pc = "next", !.bad = FALSE, !.n = n, !.todo = @ \ {First(wk.todo)}]
          ELSE /\ job' = [job EXCEPT !.failed = @ + 1, !.phase = "failed"]
               /\ wk' = Asleep
    BY <1>4 DEF CountsFailed
  <2>2. job'.phase # job.phase BY <1>4 DEF CountsFailed, Takes, Turns, At
  <2>3. ~(n < Streak) BY <1>0, <2>1, <2>2 DEF Job
  <2>4. job'.phase # "downloading" /\ wk' = Asleep BY <1>0, <2>1, <2>3 DEF Job
  <2> QED BY <1>4, <2>4, CrossingTells DEF CountsFailed, At
<1>5. CASE CountsBlocked
  <2>1. job'.phase # "downloading" BY <1>0, <1>5 DEF CountsBlocked, Job
  <2> QED BY <1>5, <2>1, CrossingTells DEF CountsBlocked, At
<1>6. CASE Raises
  <2>1. hist'.crossed = (hist.crossed \/ hist.since) BY <1>0, <1>6 DEF Raises, Hist
  <2> QED BY <1>6, <2>1 DEF Raises, Clean
<1>7. CASE SetsUp \/ Credits \/ Waits \/ Lands \/ CountsLanded
  <2>1. ~Takes /\ ~Turns BY <1>7 DEF SetsUp, Credits, Waits, Lands, CountsLanded, Takes, Turns, At
  <2>2. job'.phase = job.phase
    BY <1>0, <1>7 DEF SetsUp, Reclaimed, Credits, Waits, Lands, CountsLanded, Job
  <2> QED BY <2>1, <2>2
<1> QED BY <1>1, <1>2, <1>3, <1>4, <1>5, <1>6, <1>7 DEF ServerStep

-----------------------------------------------------------------------------
(* The phase, the worker and the page *)

\* Who moves the phase: the end of a press, a cancel of a job that is ready, the
\* worker's look at a cancelled job, and the worker ending the one it runs.
LEMMA PhaseMoves ==
    ASSUME Ind, [Next]_vars, job'.phase # job.phase
    PROVE  \/ (\E t \in Tabs : Starts(t)) /\ job'.phase = "downloading"
           \/ (\E t \in Tabs : Cancel(t)) /\ job.phase = "ready" /\ job'.phase = "cancelled"
           \/ /\ Picks /\ job.phase = "downloading" /\ ~LeaseLive
              /\ job'.phase = "cancelled" /\ wk' = wk /\ wk.pc = "idle"
           \/ /\ ServerStep \/ Raises
              /\ ~Picks /\ job'.phase \in {"failed", "done"} /\ wk' = Asleep
<1>0. job \in Job /\ wk \in Worker BY DEF Ind, TypeOK
<1>1. CASE UNCHANGED vars BY <1>1 DEF vars
<1>2. ASSUME NEW t \in Tabs, PressChecks(t) \/ Cancel(t) \/ Pin(t) \/ Answers(t)
      PROVE  \/ Starts(t) /\ job'.phase = "downloading"
             \/ Cancel(t) /\ job.phase = "ready" /\ job'.phase = "cancelled"
  <2>1. CASE PressChecks(t) \/ Marks(t) BY <2>1 DEF PressChecks, Marks
  <2>2. CASE Clears(t) BY <1>0, <2>2 DEF Clears, FreshRun, Job
  <2>3. CASE Starts(t) BY <1>0, <2>3 DEF Starts, Job
  <2>4. CASE Cancel(t) BY <1>0, <2>4 DEF Cancel, Job
  <2>5. CASE Pin(t) BY <1>0, <2>5 DEF Pin, Job
  <2>6. CASE Expires(t) BY <1>0, <2>6 DEF Expires, Job
  <2> QED BY <1>2, <2>1, <2>2, <2>3, <2>4, <2>5, <2>6 DEF Answers
<1>3. ASSUME NEW m \in Machines, Claim(m) \/ Leave(m) \/ Companion(m) PROVE FALSE
  BY <1>0, <1>3 DEF Claim, Leave, Companion, Asks, Gone, NextClip, Fetched, Job
<1>4. ASSUME NEW m \in Machines, Handler(m) PROVE FALSE
  <2>1. CASE Counts(m) BY <1>0, <2>1 DEF Counts, Job
  <2>2. CASE EndsLease(m) BY <1>0, <2>2 DEF EndsLease, Ended, Job
  <2> QED BY <1>4, <2>1, <2>2 DEF Handler, Manifest, Say, Moves, Requeues
<1>5. CASE (\E c \in Clips : Upload(c)) \/ Lapse BY <1>0, <1>5 DEF Upload, Lapse, Job
<1>6. CASE Restart BY <1>6 DEF Restart
<1>7. CASE Picks
  <2>1. job' = Over_("cancelled") /\ wk' = wk BY <1>7 DEF Picks
  <2> QED BY <1>0, <1>7, <2>1 DEF Picks, Over_, Job, At
<1>8. CASE (ServerStep \/ Raises) /\ ~Picks
  <2> SUFFICES job'.phase \in {"failed", "done"} /\ wk' = Asleep BY <1>8
  <2>1. CASE Lists \/ Turns \/ Raises
    BY <1>0, <2>1 DEF Lists, Turns, Raises, Over_, Job
  <2>2. CASE CountsFailed BY <1>0, <2>2 DEF CountsFailed, Job
  <2>3. CASE CountsBlocked BY <1>0, <2>3 DEF CountsBlocked, Job
  <2>4. CASE SetsUp \/ Credits \/ Waits \/ Takes \/ Lands \/ CountsLanded
    BY <1>0, <2>4 DEF SetsUp, Reclaimed, Credits, Waits, Takes, Lands, CountsLanded, Job
  <2> QED BY <1>8, <2>1, <2>2, <2>3, <2>4 DEF ServerStep
<1> QED BY <1>1, <1>2, <1>3, <1>4, <1>5, <1>6, <1>7, <1>8 DEF Next

\* The worker wakes only in Picks.
LEMMA WorkerWakes ==
    ASSUME Ind, [Next]_vars, wk.pc = "idle", wk'.pc # "idle"
    PROVE  /\ Picks /\ job.phase = "downloading" /\ job' = job /\ hist'.since = FALSE
           /\ wk' = [Asleep EXCEPT !.pc = "setup", !.local = (job.mode = "local"),
                                   !.handed = (job.holder # Nobody /\ job.mode = "server")]
<1>0. hist \in Hist /\ Asleep.pc = "idle" BY RestTyped DEF Ind, TypeOK
<1>1. CASE Picks
  <2>1. hist'.since = FALSE BY <1>0, <1>1 DEF Picks, Hist
  <2> QED BY <1>1, <2>1 DEF Picks
<1>2. CASE ~Picks
  <2>1. wk' = wk \/ wk' = Asleep \/ wk.pc # "idle"
    <3>1. CASE UNCHANGED vars BY <3>1 DEF vars
    <3>2. ASSUME NEW t \in Tabs, PressChecks(t) \/ Cancel(t) \/ Pin(t) \/ Answers(t) PROVE wk' = wk
      BY <3>2 DEF PressChecks, Cancel, Pin, Answers, Marks, Clears, Starts, Expires
    <3>3. ASSUME NEW m \in Machines, Claim(m) \/ Leave(m) \/ Companion(m) PROVE wk' = wk
      BY <3>3 DEF Claim, Leave, Companion, Asks, Gone, NextClip, Fetched
    <3>4. ASSUME NEW m \in Machines, Handler(m) PROVE wk' = wk
      BY <3>4 DEF Handler, Manifest, Say, Moves, Counts, Requeues, EndsLease
    <3>5. CASE (\E c \in Clips : Upload(c)) \/ Lapse BY <3>5 DEF Upload, Lapse
    <3>6. CASE ServerStep \/ Raises \/ Restart
      BY <1>2, <3>6 DEF ServerStep, SetsUp, Credits, Waits, Lists, Turns, Takes, Lands,
         CountsLanded, CountsFailed, CountsBlocked, Raises, Restart, At
    <3> QED BY <3>1, <3>2, <3>3, <3>4, <3>5, <3>6 DEF Next
  <2> QED BY <1>0, <2>1
<1> QED BY <1>1, <1>2

LEMMA StepRunning == Ind /\ Running /\ [Next]_vars => Running'
<1> SUFFICES ASSUME Ind, Running, [Next]_vars, wk'.pc # "idle" PROVE job'.phase = "downloading"
  BY DEF Running
<1>1. job.phase = "downloading" BY WorkerWakes DEF Running
<1>2. CASE job'.phase # job.phase
  <2>1. Asleep.pc = "idle" BY RestTyped
  <2> QED BY <1>1, <1>2, <2>1, PhaseMoves
<1> QED BY <1>1, <1>2

\* A tab's request is at its marks or past them because it was, or just made them.
LEMMA TabsPress ==
    ASSUME Ind, [Next]_vars, NEW s \in Tabs, tab'[s] \in {"marked", "cleared"}
    PROVE  /\ \/ tab[s] \in {"marked", "cleared"}
              \/ Marks(s) /\ (Clean' => Pressable /\ ~Pressed) /\ job' = job
           /\ ~Starts(s)
<1>0. /\ tab \in [Tabs -> {"no", "checked", "marked", "cleared", "expiring"}]
      /\ hist \in Hist
  BY DEF Ind, TypeOK
<1>1. CASE UNCHANGED vars
  <2>1. tab' = tab BY <1>1 DEF vars
  <2> QED BY <1>0, <2>1 DEF Starts
<1>2. ASSUME NEW t \in Tabs, PressChecks(t) \/ Cancel(t) \/ Pin(t) \/ Answers(t)
      PROVE  /\ \/ tab[s] \in {"marked", "cleared"}
                \/ Marks(s) /\ (Clean' => Pressable /\ ~Pressed) /\ job' = job
             /\ ~Starts(s)
  <2>1. CASE Marks(t)
    <3>1. CASE s = t
      <4> DEFINE again == InState("none") \cup InState("failed") \cup InState("pending")
      <4>1. again # {} BY <1>0, <2>1, <3>1 DEF Marks
      <4>2. Crossing(again # {} /\ (~Pressable \/ Pressed)) BY <2>1 DEF Marks
      <4>3. Clean' => ~(again # {} /\ (~Pressable \/ Pressed)) BY <4>2, CrossingTells
      <4> HIDE DEF again
      <4>4. ~Starts(s) BY <2>1, <3>1 DEF Marks, Starts
      <4>5. job' = job BY <2>1 DEF Marks
      <4> QED BY <2>1, <3>1, <4>1, <4>3, <4>4, <4>5
    <3>2. CASE s # t BY <1>0, <2>1, <3>2 DEF Marks, Starts
    <3> QED BY <3>1, <3>2
  <2>2. CASE PressChecks(t) \/ Cancel(t) \/ Pin(t) \/ Expires(t) \/ Clears(t) \/ Starts(t)
    BY <1>0, <2>2 DEF PressChecks, Cancel, Pin, Expires, Clears, Starts
  <2> QED BY <1>2, <2>1, <2>2 DEF Answers
<1>3. ASSUME tab' = tab \/ tab' = [t \in Tabs |-> "no"]
      PROVE  tab[s] \in {"marked", "cleared"} /\ ~Starts(s)
  BY <1>0, <1>3 DEF Starts
<1>4. ASSUME NEW m \in Machines, Claim(m) \/ Leave(m) \/ Companion(m) \/ Handler(m)
      PROVE  tab' = tab
  BY <1>4 DEF Claim, Leave, Companion, Asks, Gone, NextClip, Fetched, Handler, Manifest, Say,
     Moves, Counts, Requeues, EndsLease
<1>5. CASE (\E c \in Clips : Upload(c)) \/ Lapse BY <1>3, <1>5 DEF Upload, Lapse
<1>6. CASE ServerStep \/ Raises \/ Restart
  BY <1>3, <1>6 DEF ServerStep, Picks, SetsUp, Credits, Waits, Lists, Turns, Takes, Lands,
     CountsLanded, CountsFailed, CountsBlocked, Raises, Restart
<1> QED BY <1>1, <1>2, <1>3, <1>4, <1>5, <1>6 DEF Next

LEMMA StepPressing == Ind /\ Pressing /\ [Next]_vars => Pressing'
<1> SUFFICES ASSUME Ind, Pressing, [Next]_vars, Clean' PROVE
          /\ Pressed' => job'.phase # "downloading"
          /\ \A s, t \in Tabs : {tab'[s], tab'[t]} \subseteq {"marked", "cleared"} => s = t
  BY DEF Pressing
<1>0. Clean BY CleanStays
<1>1. ASSUME NEW s \in Tabs, tab'[s] \in {"marked", "cleared"}, job'.phase = "downloading"
      PROVE  FALSE
  <2>1. CASE job'.phase = job.phase BY <1>0, <1>1, <2>1, TabsPress DEF Pressing, Pressed, Pressable
  <2>2. CASE job'.phase # job.phase
    <3>1. PICK t \in Tabs : Starts(t) BY <1>1, <2>2, PhaseMoves
    <3>2. tab[t] = "cleared" BY <3>1 DEF Starts
    <3>3. tab[s] \in {"marked", "cleared"} BY <1>1, <3>2, TabsPress DEF Pressed
    <3>4. s = t BY <1>0, <3>2, <3>3 DEF Pressing
    <3> QED BY <1>1, <3>1, <3>4, TabsPress
  <2> QED BY <2>1, <2>2
<1>2. ASSUME NEW s \in Tabs, NEW t \in Tabs, tab'[s] \in {"marked", "cleared"},
             tab'[t] \in {"marked", "cleared"}, s # t
      PROVE  FALSE
  <2>1. ~(tab[s] \in {"marked", "cleared"} /\ tab[t] \in {"marked", "cleared"})
    BY <1>0, <1>2 DEF Pressing
  <2>2. Marks(s) \/ Marks(t) BY <1>2, <2>1, TabsPress
  <2>3. ASSUME NEW x \in Tabs, NEW y \in Tabs, x # y, Marks(x), tab'[y] \in {"marked", "cleared"},
               tab'[x] \in {"marked", "cleared"}
        PROVE  FALSE
    <3>1. tab'[y] = tab[y] BY <2>3 DEF Marks, Ind, TypeOK
    <3>2. Pressed BY <2>3, <3>1 DEF Pressed
    <3>3. tab[x] = "checked" BY <2>3 DEF Marks
    <3> QED BY <2>3, <3>2, <3>3, TabsPress
  <2> QED BY <1>2, <2>2, <2>3
<1> QED BY <1>1, <1>2 DEF Pressed

LEMMA StepNoLease == Ind /\ Unclaimed /\ NoLease /\ [Next]_vars => NoLease'
<1> SUFFICES ASSUME Ind, Unclaimed, NoLease, [Next]_vars, Clean', job'.phase # "downloading", LeaseLive'
             PROVE  FALSE
  BY DEF NoLease
<1>0. Clean BY CleanStays
<1>1. ASSUME NEW m \in Machines, Claim(m) PROVE FALSE
  BY <1>1 DEF Claim, Claimable, Ind, TypeOK, Job
<1>2. LeaseLive BY <1>1, LeaseFalls
<1>3. job.phase = "downloading" BY <1>0, <1>2 DEF NoLease
<1>4. /\ ServerStep \/ Raises
      /\ ~Picks /\ job'.phase # job.phase
  BY <1>2, <1>3, PhaseMoves
<1> QED BY <1>2, <1>4, WorkerAlone DEF Unclaimed

\* Only a claim makes a job a machine's; a press, a hand-back and a reclaim make it
\* the server's.
LEMMA ModeMoves ==
    ASSUME Ind, [Next]_vars, job'.mode # job.mode
    PROVE  \/ (\E m \in Machines : Claim(m)) /\ job'.mode = "local"
           \/ /\ job'.mode = "server"
              /\ \/ \E t \in Tabs : Clears(t)
                 \/ \E m \in Machines : EndsLease(m) /\ job.holder = m
                 \/ SetsUp /\ wk.local
<1>0. job \in Job BY DEF Ind, TypeOK
<1>1. CASE UNCHANGED vars BY <1>1 DEF vars
<1>2. ASSUME NEW t \in Tabs, PressChecks(t) \/ Cancel(t) \/ Pin(t) \/ Answers(t)
      PROVE  Clears(t) /\ job'.mode = "server"
  <2>1. CASE PressChecks(t) \/ Marks(t) BY <2>1 DEF PressChecks, Marks
  <2>2. CASE Clears(t) BY <1>0, <2>2 DEF Clears, FreshRun, Job
  <2>3. CASE Starts(t) BY <1>0, <2>3 DEF Starts, Job
  <2>4. CASE Cancel(t) BY <1>0, <2>4 DEF Cancel, Job
  <2>5. CASE Pin(t) BY <1>0, <2>5 DEF Pin, Job
  <2>6. CASE Expires(t) BY <1>0, <2>6 DEF Expires, Job
  <2> QED BY <1>2, <2>1, <2>2, <2>3, <2>4, <2>5, <2>6 DEF Answers
<1>3. ASSUME NEW m \in Machines, Claim(m) PROVE job'.mode = "local"
  BY <1>0, <1>3 DEF Claim, Job
<1>4. ASSUME NEW m \in Machines, Leave(m) \/ Companion(m) PROVE FALSE
  BY <1>4 DEF Leave, Companion, Asks, Gone, NextClip, Fetched
<1>5. ASSUME NEW m \in Machines, Handler(m)
      PROVE  EndsLease(m) /\ job.holder = m /\ job'.mode = "server"
  <2>1. CASE Counts(m) BY <1>0, <2>1 DEF Counts, Job
  <2>2. CASE EndsLease(m) BY <1>0, <2>2 DEF EndsLease, Ended, Job
  <2> QED BY <1>5, <2>1, <2>2 DEF Handler, Manifest, Say, Moves, Requeues
<1>6. CASE (\E c \in Clips : Upload(c)) \/ Lapse BY <1>0, <1>6 DEF Upload, Lapse, Job
<1>7. CASE Restart BY <1>7 DEF Restart
<1>8. CASE ServerStep \/ Raises
  <2>1. CASE SetsUp BY <1>0, <2>1 DEF SetsUp, Reclaimed, Job
  <2>2. CASE Picks \/ Lists \/ Turns \/ Raises
    BY <1>0, <2>2 DEF Picks, Lists, Turns, Raises, Over_, Job
  <2>3. CASE Credits \/ Waits \/ Takes \/ Lands \/ CountsLanded
    BY <1>0, <2>3 DEF Credits, Waits, Takes, Lands, CountsLanded, Job
  <2>4. CASE CountsFailed \/ CountsBlocked BY <1>0, <2>4 DEF CountsFailed, CountsBlocked, Job
  <2> QED BY <1>8, <2>1, <2>2, <2>3, <2>4 DEF ServerStep
<1> QED BY <1>1, <1>2, <1>3, <1>4, <1>5, <1>6, <1>7, <1>8 DEF Next

\* Whoever is not the worker leaves it where it is, and what happened since its
\* pick is forgotten only by the next.
LEMMA WorkerMoves ==
    ASSUME Ind, [Next]_vars
    PROVE  /\ wk' = wk \/ wk' = Asleep \/ ServerStep
           /\ hist'.since = hist.since \/ (\E m \in Machines : Claim(m)) \/ Picks
           /\ (\E m \in Machines : Claim(m)) => hist'.since
<1>0. hist \in Hist BY DEF Ind, TypeOK
<1>3. ASSUME NEW m \in Machines, Claim(m) PROVE wk' = wk /\ hist'.since
  BY <1>0, <1>3 DEF Claim, Hist
<1>1. CASE UNCHANGED vars
  <2>1. wk' = wk /\ hist' = hist BY <1>1 DEF vars
  <2> QED BY <1>3, <2>1
<1>2. ASSUME NEW t \in Tabs, PressChecks(t) \/ Cancel(t) \/ Pin(t) \/ Answers(t)
      PROVE  wk' = wk /\ hist'.since = hist.since
  <2>1. CASE Clears(t) BY <1>0, <2>1 DEF Clears, Hist
  <2>2. CASE Marks(t) BY <2>2, GhostKeeps DEF Marks
  <2>3. CASE Starts(t)
    <3>1. hist'.since = hist.since BY <2>3, OtherGhosts DEF Ind
    <3> QED BY <2>3, <3>1 DEF Starts
  <2> QED BY <1>2, <2>1, <2>2, <2>3 DEF PressChecks, Cancel, Pin, Answers, Expires
<1>4. ASSUME NEW m \in Machines, Leave(m) \/ Companion(m) \/ Handler(m)
      PROVE  wk' = wk /\ hist'.since = hist.since
  <2>1. CASE Leave(m) \/ Companion(m)
    BY <2>1 DEF Leave, Companion, Asks, Gone, NextClip, Fetched
  <2>2. CASE Handler(m)
    BY <2>2, GhostKeeps DEF Handler, Manifest, Say, Moves, Counts, Requeues, EndsLease
  <2> QED BY <1>4, <2>1, <2>2
<1>5. CASE (\E c \in Clips : Upload(c)) \/ Lapse BY <1>3, <1>5 DEF Upload, Lapse
<1>6. CASE ServerStep \/ Raises \/ Restart
  <2>1. Picks \/ hist'.since = hist.since
    BY <1>6, GhostKeeps, OtherGhosts
       DEF ServerStep, SetsUp, Waits, Lists, Turns, Takes, Lands,
       CountsLanded, CountsFailed, CountsBlocked, Ind
  <2>2. wk' = Asleep \/ ServerStep BY <1>6 DEF Raises, Restart
  <2> QED BY <1>3, <2>1, <2>2
<1> QED BY <1>1, <1>2, <1>3, <1>4, <1>5, <1>6 DEF Next

LEMMA StepOurs == Ind /\ Ours /\ [Next]_vars => Ours'
<1> SUFFICES ASSUME Ind, Ours, [Next]_vars, wk'.pc # "idle", ~hist'.since,
                    ~(wk'.pc = "setup" /\ wk'.local)
             PROVE  job'.mode = "server"
  BY DEF Ours
<1>0. job \in Job /\ wk \in Worker /\ Asleep \in Worker /\ Asleep.pc = "idle" BY RestTyped DEF Ind, TypeOK
<1>1. CASE wk.pc = "idle"
  <2>1. job' = job /\ wk' = [Asleep EXCEPT !.pc = "setup", !.local = (job.mode = "local"),
                             !.handed = (job.holder # Nobody /\ job.mode = "server")]
    BY <1>1, WorkerWakes
  <2>2. wk'.pc = "setup" /\ wk'.local = (job.mode = "local") BY <1>0, <2>1 DEF Worker
  <2> QED BY <1>0, <2>1, <2>2 DEF Job
<1>2. CASE wk.pc # "idle"
  <2>1. \A m \in Machines : ~Claim(m) BY WorkerMoves
  <2>2. ~Picks BY <1>2 DEF Picks, At
  <2>3. ~hist.since BY <2>1, <2>2, WorkerMoves
  <2>4. job'.mode = job.mode \/ job'.mode = "server" BY <2>1, ModeMoves
  <2>5. CASE wk.pc = "setup" /\ wk.local
    <3>1. SetsUp
      <4>1. wk' # wk /\ wk' # Asleep BY <1>0, <2>5
      <4>2. ServerStep BY <4>1, WorkerMoves
      <4> QED BY <2>5, <4>2 DEF ServerStep, Picks, Credits, Waits, Lists, Turns, Takes, Lands,
              CountsLanded, CountsFailed, CountsBlocked, At
    <3> QED BY <1>0, <2>5, <3>1 DEF SetsUp, Reclaimed, Job
  <2>6. CASE ~(wk.pc = "setup" /\ wk.local) BY <1>2, <2>3, <2>4, <2>6 DEF Ours
  <2> QED BY <2>5, <2>6
<1> QED BY <1>1, <1>2

-----------------------------------------------------------------------------
(* What is in flight, and what waits *)

LEMMA PutMoves ==
    ASSUME NEW S \in SUBSET Clips, NEW s, row' = Put(S, s)
    PROVE  /\ Flight' = IF s = "downloading" THEN Flight \cup S ELSE Flight \ S
           /\ Queue' = IF s = "pending" THEN Queue \cup S ELSE Queue \ S
BY DEF Put, Flight, Queue, InState

LEMMA PutAside ==
    ASSUME NEW S \in SUBSET Clips, NEW s \in {"skipped", "failed", "done"}, row' = Put(S, s)
    PROVE  Flight' = Flight \ S /\ Queue' = Queue \ S
<1>1. s # "downloading" /\ s # "pending" OBVIOUS
<1> QED BY <1>1, PutMoves

\* The clip the worker is at.
LEMMA AtClip ==
    ASSUME Ind, wk.pc \in {"take", "fetch", "count"} \/ wk.todo # {}
    PROVE  First(wk.todo) \in wk.todo /\ First(wk.todo) \in Clips
<1>1. wk.todo \in SUBSET Clips /\ wk.todo # {} BY DEF Ind, TypeOK, HandsFull, Worker
<1> QED BY <1>1, FirstIsOne

\* The clip a machine's request is about.
LEMMA CallClip ==
    ASSUME Ind, NEW m \in Machines, call[m].at \in {"say", "report", "count"}
    PROVE  First(call[m].todo) \in call[m].todo /\ First(call[m].todo) \in Clips
<1>1. call[m].todo \in SUBSET Clips /\ call[m].todo # {}
  BY DEF Ind, TypeOK, HandsFull, Call, CallFull
<1> QED BY <1>1, FirstIsOne

\* A clip is put in flight by a machine that says so or by the worker that takes
\* it; a clip waits because it was marked, queued again or put back.
LEMMA RowMoves ==
    ASSUME Ind, [Next]_vars
    PROVE  /\ \/ Flight' \subseteq Flight
              \/ \E m \in Machines : Say(m)
              \/ Takes /\ Flight' \subseteq Flight \cup {First(wk.todo)} /\ wk' = [wk EXCEPT !.pc = "fetch"]
           /\ \/ Queue' \subseteq Queue
              \/ \E t \in Tabs : Marks(t) /\ tab'[t] = "marked"
              \/ \E m \in Machines : Requeues(m)
              \/ Credits
              \/ Restart
<1>0. Flight \in SUBSET Clips /\ Queue \in SUBSET Clips /\ row \in [Clips -> DlStates]
  BY InStates DEF Flight, Queue, Ind, TypeOK
<1>1. ASSUME UNCHANGED row PROVE Flight' = Flight /\ Queue' = Queue
  BY <1>1 DEF Flight, Queue, InState
<1>2. CASE UNCHANGED vars BY <1>1, <1>2 DEF vars
<1>3. ASSUME NEW t \in Tabs, PressChecks(t) \/ Cancel(t) \/ Pin(t) \/ Answers(t)
      PROVE  /\ Flight' \subseteq Flight
             /\ Queue' \subseteq Queue \/ (Marks(t) /\ tab'[t] = "marked")
  <2>1. CASE Marks(t)
    <3> DEFINE again == InState("none") \cup InState("failed") \cup InState("pending")
    <3>1. again \in SUBSET Clips BY InStates
    <3>2. row' = Put(again, "pending") /\ tab' = [tab EXCEPT ![t] = IF again = {} THEN "no" ELSE "marked"]
      BY <2>1 DEF Marks
    <3> HIDE DEF again
    <3>3. Flight' = Flight \ again /\ Queue' = Queue \cup again BY <3>1, <3>2, PutMoves
    <3>4. again = {} \/ tab'[t] = "marked" BY <3>2 DEF Ind, TypeOK
    <3> QED BY <2>1, <3>3, <3>4
  <2>2. CASE ~Marks(t)
    BY <1>1, <1>3, <2>2 DEF PressChecks, Cancel, Pin, Answers, Clears, Starts, Expires
  <2> QED BY <2>1, <2>2
<1>4. ASSUME NEW m \in Machines, Claim(m) \/ Leave(m) \/ Companion(m) PROVE UNCHANGED row
  BY <1>4 DEF Claim, Leave, Companion, Asks, Gone, NextClip, Fetched
<1>5. ASSUME NEW m \in Machines, Handler(m)
      PROVE  /\ Say(m) \/ Flight' \subseteq Flight
             /\ Requeues(m) \/ Queue' \subseteq Queue
  <2>1. CASE Manifest(m)
    <3> DEFINE dups == InState("pending") \cap Known
    <3>1. dups \in SUBSET Clips /\ row' = Put(dups, "skipped") BY <2>1, InStates DEF Manifest
    <3> HIDE DEF dups
    <3>2. Flight' = Flight \ dups /\ Queue' = Queue \ dups BY <3>1, PutAside
    <3> QED BY <3>2
  <2>2. CASE Say(m)
    <3>1. {First(call[m].todo)} \in SUBSET Clips BY <2>2, CallClip DEF Say
    <3>2. row' = Put({First(call[m].todo)}, "downloading") BY <2>2 DEF Say
    <3>3. Queue' = Queue \ {First(call[m].todo)} BY <3>1, <3>2, PutMoves
    <3> QED BY <2>2, <3>3
  <2>3. CASE Moves(m)
    <3> DEFINE c == First(call[m].todo)
    <3>1. {c} \in SUBSET Clips BY <2>3, CallClip DEF Moves
    <3>2. row' = row \/ row' = Put({c}, "failed") \/ row' = Put({c}, "done") BY <2>3 DEF Moves
    <3> HIDE DEF c
    <3>3. CASE row' = row BY <1>1, <3>3
    <3>4. ASSUME NEW x \in {"failed", "done"}, row' = Put({c}, x)
          PROVE  Flight' = Flight \ {c} /\ Queue' = Queue \ {c}
      BY <3>1, <3>4, PutAside
    <3> QED BY <3>2, <3>3, <3>4
  <2>4. CASE Requeues(m)
    <3>1. InState("failed") \in SUBSET Clips BY InStates
    <3>2. row' = Put(InState("failed"), "pending") BY <2>4 DEF Requeues
    <3>3. Flight' = Flight \ InState("failed") BY <3>1, <3>2, PutMoves
    <3> QED BY <2>4, <3>3
  <2>5. CASE Counts(m) \/ EndsLease(m) BY <1>1, <2>5 DEF Counts, EndsLease
  <2> QED BY <1>5, <2>1, <2>2, <2>3, <2>4, <2>5 DEF Handler
<1>6. CASE (\E c \in Clips : Upload(c)) \/ Lapse BY <1>1, <1>6 DEF Upload, Lapse
<1>7. CASE ServerStep \/ Raises \/ Restart
  <2>1. CASE Credits
    <3>1. CASE wk.todo = {} BY <1>1, <2>1, <3>1 DEF Credits
    <3>2. CASE wk.todo # {}
      <4> DEFINE c == First(wk.todo)
      <4>1. {c} \in SUBSET Clips BY <3>2, AtClip
      <4>2. row' = Put({c}, IF c \in disk THEN "done" ELSE "pending") BY <2>1, <3>2 DEF Credits
      <4> HIDE DEF c
      <4>3. Flight' = Flight \ {c} BY <4>1, <4>2, PutMoves
      <4> QED BY <2>1, <4>3
    <3> QED BY <3>1, <3>2
  <2>2. CASE Takes
    <3> DEFINE c == First(wk.todo)
    <3>1. {c} \in SUBSET Clips BY <2>2, AtClip DEF Takes, At
    <3>2. \/ row' = row \/ row' = Put({c}, "skipped")
          \/ row' = Put({c}, "downloading") /\ wk' = [wk EXCEPT !.pc = "fetch"]
      BY <2>2 DEF Takes
    <3> HIDE DEF c
    <3>3. CASE row' = row BY <1>1, <3>3
    <3>4. CASE row' = Put({c}, "skipped")
      <4>1. Flight' = Flight \ {c} /\ Queue' = Queue \ {c} BY <3>1, <3>4, PutMoves
      <4> QED BY <4>1
    <3>5. CASE row' = Put({c}, "downloading") /\ wk' = [wk EXCEPT !.pc = "fetch"]
      <4>1. Flight' = Flight \cup {c} /\ Queue' = Queue \ {c} BY <3>1, <3>5, PutMoves
      <4> QED BY <2>2, <3>5, <4>1 DEF c
    <3> QED BY <3>2, <3>3, <3>4, <3>5
  <2>3. CASE Lands
    <3> DEFINE c == First(wk.todo)
    <3>1. {c} \in SUBSET Clips BY <2>3, AtClip DEF Lands, At
    <3>2. PICK bad \in BOOLEAN : row' = Put({c}, IF bad THEN "failed" ELSE "done") BY <2>3 DEF Lands
    <3> HIDE DEF c
    <3>3. Flight' = Flight \ {c} /\ Queue' = Queue \ {c} BY <3>1, <3>2, PutAside
    <3> QED BY <3>3
  <2>4. CASE CountsBlocked
    <3>1. row' = row \/ row' = Put(InState("pending"), "failed") BY <2>4 DEF CountsBlocked
    <3>2. InState("pending") \in SUBSET Clips BY InStates
    <3>3. CASE row' = Put(InState("pending"), "failed")
      <4>1. Flight' = Flight \ InState("pending") /\ Queue' = Queue \ InState("pending")
        BY <3>2, <3>3, PutAside
      <4> QED BY <4>1
    <3> QED BY <1>1, <3>1, <3>3
  <2>5. CASE Restart
    <3>1. InState("downloading") \in SUBSET Clips BY InStates
    <3>2. row' = Put(InState("downloading"), "pending") BY <2>5 DEF Restart
    <3>3. Flight' = Flight \ InState("downloading") BY <3>1, <3>2, PutMoves
    <3> QED BY <2>5, <3>3
  <2>6. CASE Picks \/ SetsUp \/ Waits \/ Lists \/ Turns \/ CountsLanded \/ CountsFailed \/ Raises
    BY <1>1, <2>6 DEF Picks, SetsUp, Waits, Lists, Turns, CountsLanded, CountsFailed, Raises
  <2> QED BY <1>7, <2>1, <2>2, <2>3, <2>4, <2>5, <2>6 DEF ServerStep
<1> QED BY <1>1, <1>2, <1>3, <1>4, <1>5, <1>6, <1>7 DEF Next

\* A request gets to the hand-back when nothing is left to do.
LEMMA CallSweeps ==
    ASSUME Ind, [Next]_vars, NEW m \in Machines, call'[m].at \in {"sweep", "end"}
    PROVE  \/ call[m].at \in {"sweep", "end"}
           \/ call[m].at \in {"manifest", "count"} /\ Handler(m) /\ Flight' = {}
<1>0. call \in [Machines -> Call] /\ NoCall.at = "no" BY DEF Ind, TypeOK, NoCall
<1>1. ASSUME call' = call PROVE call[m].at \in {"sweep", "end"} BY <1>1
<1>2. ASSUME NEW x \in Machines, x # m, call'[m] = call[m] PROVE call[m].at \in {"sweep", "end"}
  BY <1>2
<1>3. CASE UNCHANGED vars BY <1>1, <1>3 DEF vars
<1>4. ASSUME NEW t \in Tabs, PressChecks(t) \/ Cancel(t) \/ Pin(t) \/ Answers(t) PROVE call' = call
  BY <1>4 DEF PressChecks, Cancel, Pin, Answers, Marks, Clears, Starts, Expires
<1>5. ASSUME NEW x \in Machines, Claim(x) \/ Leave(x) \/ Companion(x)
      PROVE  call[m].at \in {"sweep", "end"}
  <2>1. CASE Asks(x) BY <1>0, <2>1 DEF Asks
  <2> QED BY <1>5, <2>1 DEF Claim, Leave, Companion, Gone, NextClip, Fetched
<1>6. ASSUME NEW x \in Machines, Handler(x)
      PROVE  \/ call[m].at \in {"sweep", "end"}
             \/ call[m].at \in {"manifest", "count"} /\ Handler(m) /\ Flight' = {}
  <2>1. ASSUME NEW a, NEW next, Answered(x, a, next) PROVE call' = [call EXCEPT ![x] = NoCall]
    BY <2>1 DEF Answered
  <2>2. CASE x # m
    <3>1. \/ \E a, next : Answered(x, a, next)
          \/ \E a : call' = [call EXCEPT ![x].at = a]
          \/ \E a, n : call' = [call EXCEPT ![x].at = a, ![x].n = n]
      BY <1>6 DEF Handler, Manifest, Say, Moves, Counts, Requeues, EndsLease
    <3> QED BY <1>0, <2>1, <2>2, <3>1
  <2>3. CASE x = m /\ Manifest(m)
    <3> DEFINE dups == InState("pending") \cap Known
    <3>1. CASE Unsettled \ dups = {}
      <4>1. dups \in SUBSET Clips BY InStates
      <4>2. row' = Put(dups, "skipped") BY <2>3 DEF Manifest
      <4>3. Flight \subseteq Unsettled BY DEF Flight, Unsettled, InState, Unfinished
      <4> HIDE DEF dups
      <4>4. Flight' = Flight \ dups BY <4>1, <4>2, PutAside
      <4>5. Flight' = {} BY <3>1, <4>3, <4>4
      <4>6. call[m].at = "manifest" BY <2>3 DEF Manifest
      <4> QED BY <1>6, <2>3, <4>5, <4>6
    <3>2. CASE Unsettled \ dups # {}
      <4>1. Answered(m, "manifest", AtWork(Owed)) BY <2>3, <3>2 DEF Manifest
      <4>2. call' = [call EXCEPT ![m] = NoCall] BY <2>1, <2>3, <4>1
      <4> QED BY <1>0, <4>2
    <3> QED BY <3>1, <3>2
  <2>4. CASE x = m /\ Counts(m)
    <3>1. CASE Unsettled = {}
      <4>1. Flight = {} BY <3>1 DEF Flight, Unsettled, InState, Unfinished
      <4>2. row' = row /\ call[m].at = "count" BY <2>4 DEF Counts
      <4>3. Flight' = Flight BY <4>2 DEF Flight, InState
      <4> QED BY <1>6, <2>4, <4>1, <4>2, <4>3
    <3>2. CASE Unsettled # {}
      <4>1. Answered(m, "report", NextOf(m)) BY <2>4, <3>2 DEF Counts
      <4>2. call' = [call EXCEPT ![m] = NoCall] BY <2>1, <2>4, <4>1
      <4> QED BY <1>0, <4>2
    <3> QED BY <3>1, <3>2
  <2>5. CASE x = m /\ (Say(m) \/ Moves(m))
    <3>1. (\E a, next : Answered(m, a, next)) \/ call' = [call EXCEPT ![m].at = "count"]
      BY <2>5 DEF Say, Moves
    <3>2. call' = [call EXCEPT ![m] = NoCall] \/ call' = [call EXCEPT ![m].at = "count"]
      BY <2>1, <2>5, <3>1
    <3> QED BY <1>0, <3>2 DEF Call
  <2>6. CASE x = m /\ (Requeues(m) \/ EndsLease(m)) BY <2>6 DEF Requeues, EndsLease
  <2> QED BY <1>6, <2>2, <2>3, <2>4, <2>5, <2>6 DEF Handler
<1>7. CASE (\E c \in Clips : Upload(c)) \/ Lapse BY <1>1, <1>7 DEF Upload, Lapse
<1>8. CASE ServerStep \/ Raises
  BY <1>1, <1>8 DEF ServerStep, Picks, SetsUp, Credits, Waits, Lists, Turns, Takes, Lands,
     CountsLanded, CountsFailed, CountsBlocked, Raises
<1>9. CASE Restart
  <2>1. call'[m] = NoCall BY <1>9 DEF Restart
  <2> QED BY <1>0, <2>1
<1> QED BY <1>1, <1>3, <1>4, <1>5, <1>6, <1>7, <1>8, <1>9 DEF Next

\* While a lease lives and nobody crosses, only its holder puts a clip in flight.
LEMMA HolderFlies ==
    ASSUME Ind, Unclaimed, [Next]_vars, Clean', LeaseLive
    PROVE  Flight' \subseteq Flight \/ \E m \in Machines : Say(m) /\ job.holder = m
<1>1. ASSUME NEW m \in Machines, Say(m) PROVE job.holder = m
  BY <1>1, HandlerHolds DEF Handler
<1>2. ASSUME Takes PROVE FALSE
  <2>1. ServerStep /\ ~Picks BY <1>2 DEF ServerStep, Takes, Picks, At
  <2> QED BY <1>2, <2>1, WorkerAlone DEF Unclaimed
<1> QED BY <1>1, <1>2, RowMoves

LEMMA StepSwept == Ind /\ Unclaimed /\ Swept /\ [Next]_vars => Swept'
<1> SUFFICES ASSUME Ind, Unclaimed, Swept, [Next]_vars, Clean', NEW m \in Machines,
                    LeaseLive', job'.holder = m, call'[m].at \in {"sweep", "end"}
             PROVE  Flight' = {}
  BY DEF Swept
<1>0. Clean BY CleanStays
<1>1. ASSUME NEW x \in Machines, Claim(x) PROVE FALSE
  <2>1. job'.holder = x BY <1>1 DEF Claim, Ind, TypeOK, Job
  <2>2. x = m BY <2>1
  <2>3. hist'.crossed = (hist.crossed \/ call[m] # NoCall) BY <1>1, <2>2 DEF Claim, Ind, TypeOK, Hist
  <2>4. call'[m] = NoCall BY <1>1, <2>3 DEF Claim, Clean
  <2> QED BY <2>4 DEF NoCall
<1>2. LeaseLive /\ job.holder = m BY <1>1, LeaseFalls
<1>3. CASE call[m].at \in {"sweep", "end"}
  <2>1. Flight = {} BY <1>0, <1>2, <1>3 DEF Swept
  <2>2. ~Say(m) BY <1>3 DEF Say
  <2> QED BY <1>2, <2>1, <2>2, HolderFlies
<1> QED BY <1>3, CallSweeps

\* A phase that raised with a clip in flight is remembered until the restart.
LEMMA DroppedStays ==
    ASSUME Ind, [Next]_vars, ~Restart, ~hist'.dropped
    PROVE  ~hist.dropped /\ (Raises => Flight = {})
<1>0. hist \in Hist BY DEF Ind, TypeOK
<1>1. ASSUME NEW b, Crossing(b) \/ TakenBack(b) PROVE hist'.dropped = hist.dropped
  BY <1>0, <1>1 DEF Crossing, TakenBack, Hist
<1>2. CASE Raises
  <2>1. hist'.dropped = (hist.dropped \/ InState("downloading") # {})
    BY <1>0, <1>2 DEF Raises, Hist
  <2> QED BY <2>1 DEF Flight
<1>3. CASE ~Raises
  <2> SUFFICES hist'.dropped = hist.dropped BY <1>3
  <2>1. CASE UNCHANGED vars BY <2>1 DEF vars
  <2>2. ASSUME NEW t \in Tabs, PressChecks(t) \/ Cancel(t) \/ Pin(t) \/ Answers(t)
        PROVE  hist'.dropped = hist.dropped
    <3>1. CASE Clears(t) BY <1>0, <3>1 DEF Clears, Hist
    <3>2. CASE Starts(t) BY <1>0, <3>2 DEF Starts, Hist
    <3> QED BY <1>1, <2>2, <3>1, <3>2 DEF PressChecks, Cancel, Pin, Answers, Marks, Expires
  <2>3. ASSUME NEW m \in Machines, Claim(m) PROVE hist'.dropped = hist.dropped
    BY <1>0, <2>3 DEF Claim, Hist
  <2>4. ASSUME NEW m \in Machines, Leave(m) \/ Companion(m) \/ Handler(m)
        PROVE  hist'.dropped = hist.dropped
    BY <1>1, <2>4 DEF Leave, Companion, Asks, Gone, NextClip, Fetched, Handler, Manifest, Say,
       Moves, Counts, Requeues, EndsLease
  <2>5. CASE (\E c \in Clips : Upload(c)) \/ Lapse BY <2>5 DEF Upload, Lapse
  <2>6. CASE ServerStep
    <3>1. CASE Picks BY <1>0, <3>1 DEF Picks, Hist
    <3>2. CASE Credits
      <4>1. CASE wk.todo = {} BY <1>1, <3>2, <4>1 DEF Credits
      <4>2. CASE wk.todo # {} BY <1>0, <3>2, <4>2 DEF Credits, Hist
      <4> QED BY <4>1, <4>2
    <3> QED BY <1>1, <2>6, <3>1, <3>2 DEF ServerStep, SetsUp, Waits, Lists, Turns, Takes, Lands,
            CountsLanded, CountsFailed, CountsBlocked
  <2> QED BY <1>3, <2>1, <2>2, <2>3, <2>4, <2>5, <2>6 DEF Next
<1> QED BY <1>2, <1>3

\* Nothing is put in flight in a job that is not downloading.
LEMMA QuietRows ==
    ASSUME Ind, Running, NoLease, [Next]_vars, Clean', job.phase # "downloading"
    PROVE  Flight' \subseteq Flight
<1>0. Clean BY CleanStays
<1>1. ASSUME NEW m \in Machines, Say(m) PROVE FALSE
  BY <1>0, <1>1, HandlerHolds DEF Handler, NoLease
<1>2. ~Takes BY DEF Takes, At, Running
<1> QED BY <1>1, <1>2, RowMoves

\* The worker passes a clip in flight on to its hands, or settles or queues it.
LEMMA WorkerHolds ==
    ASSUME Ind, ServerStep, Flight \subseteq Mine \/ (SetsUp /\ wk.local)
    PROVE  Flight' \subseteq Mine'
<1>0. wk \in Worker BY DEF Ind, TypeOK
<1>1. ASSUME row' = row PROVE Flight' = Flight BY <1>1 DEF Flight, InState
<1>2. CASE SetsUp
  <2>1. Flight' = Flight BY <1>1, <1>2 DEF SetsUp
  <2>2. CASE wk.local
    <3>1. wk'.pc = "credit" /\ wk'.todo = Unsettled \cup InState("failed")
      BY <1>0, <1>2, <2>2 DEF SetsUp, Worker
    <3>2. Flight \subseteq Unsettled BY DEF Flight, Unsettled, InState, Unfinished
    <3>3. Mine' = wk'.todo BY <3>1 DEF Mine
    <3> QED BY <2>1, <3>1, <3>2, <3>3
  <2>3. CASE ~wk.local
    <3>1. Mine = {} BY <1>2 DEF SetsUp, At, Mine
    <3> QED BY <2>1, <2>3, <3>1
  <2> QED BY <2>2, <2>3
<1>3. CASE Flight \subseteq Mine /\ Credits
  <2>1. Mine = wk.todo BY <1>3 DEF Credits, At, Mine
  <2>2. CASE wk.todo = {}
    <3>1. Flight' = Flight BY <1>1, <1>3, <2>2 DEF Credits
    <3> QED BY <1>3, <2>1, <2>2, <3>1
  <2>3. CASE wk.todo # {}
    <3> DEFINE c == First(wk.todo)
    <3>1. {c} \in SUBSET Clips BY <2>3, AtClip
    <3>2. row' = Put({c}, IF c \in disk THEN "done" ELSE "pending") BY <1>3, <2>3 DEF Credits
    <3>3. wk'.todo = wk.todo \ {c} /\ wk'.pc = "credit" BY <1>0, <1>3, <2>3 DEF Credits, At, Worker
    <3> HIDE DEF c
    <3>4. Flight' = Flight \ {c} BY <3>1, <3>2, PutMoves
    <3>5. Mine' = wk'.todo BY <3>3 DEF Mine
    <3> QED BY <1>3, <2>1, <3>3, <3>4, <3>5
  <2> QED BY <2>2, <2>3
<1>4. CASE Flight \subseteq Mine /\ Takes
  <2>1. Flight = {} BY <1>4 DEF Takes, At, Mine
  <2>2. ~(\E m \in Machines : Say(m)) \/ wk' = wk BY DEF Say
  <2>3. [Next]_vars BY <1>4 DEF Next, ServerStep
  <2> DEFINE c == First(wk.todo)
  <2>4. {c} \in SUBSET Clips BY <1>4, AtClip DEF Takes, At
  <2>5. \/ row' = row
        \/ row' = Put({c}, "skipped")
        \/ row' = Put({c}, "downloading") /\ wk' = [wk EXCEPT !.pc = "fetch"]
    BY <1>4 DEF Takes
  <2> HIDE DEF c
  <2>6. CASE row' = row BY <1>1, <2>1, <2>6
  <2>7. CASE row' = Put({c}, "skipped")
    <3>1. Flight' = Flight \ {c} BY <2>4, <2>7, PutAside
    <3> QED BY <2>1, <3>1
  <2>8. CASE row' = Put({c}, "downloading") /\ wk' = [wk EXCEPT !.pc = "fetch"]
    <3>1. Flight' = Flight \cup {c} BY <2>4, <2>8, PutMoves
    <3>2. wk'.pc = "fetch" /\ wk'.todo = wk.todo BY <1>0, <2>8 DEF Worker
    <3>3. Mine' = {c} BY <3>2 DEF Mine, c
    <3> QED BY <2>1, <3>1, <3>3
  <2> QED BY <2>5, <2>6, <2>7, <2>8
<1>5. CASE Flight \subseteq Mine /\ Lands
  <2> DEFINE c == First(wk.todo)
  <2>1. Mine = {c} BY <1>5 DEF Lands, At, Mine
  <2>2. {c} \in SUBSET Clips BY <1>5, AtClip DEF Lands, At
  <2>3. PICK bad \in BOOLEAN : row' = Put({c}, IF bad THEN "failed" ELSE "done")
    BY <1>5 DEF Lands
  <2> HIDE DEF c
  <2>4. Flight' = Flight \ {c} BY <2>2, <2>3, PutAside
  <2> QED BY <1>5, <2>1, <2>4
<1>6. CASE Flight \subseteq Mine /\ CountsBlocked
  <2>1. Flight = {} BY <1>6 DEF CountsBlocked, At, Mine
  <2>2. row' = row \/ row' = Put(InState("pending"), "failed") BY <1>6 DEF CountsBlocked
  <2>3. InState("pending") \in SUBSET Clips BY InStates
  <2>4. CASE row' = Put(InState("pending"), "failed")
    <3>1. Flight' = Flight \ InState("pending") BY <2>3, <2>4, PutAside
    <3> QED BY <2>1, <3>1
  <2> QED BY <1>1, <2>1, <2>2, <2>4
<1>7. CASE Flight \subseteq Mine
           /\ (Picks \/ Waits \/ Lists \/ Turns \/ CountsLanded \/ CountsFailed)
  <2>1. Flight = {} /\ row' = row
    BY <1>7 DEF Picks, Waits, Lists, Turns, CountsLanded, CountsFailed, At, Mine
  <2> QED BY <1>1, <2>1
<1> QED BY <1>2, <1>3, <1>4, <1>5, <1>6, <1>7 DEF ServerStep

\* Where the worker is when it ends the phase.
LEMMA WorkerEnds ==
    ASSUME Ind, Running, ServerStep \/ Raises, ~Picks, job'.phase # "downloading"
    PROVE  wk.pc \in {"list", "next", "count"} \/ Raises
<1>0. job \in Job BY DEF Ind, TypeOK
<1>1. CASE SetsUp \/ Credits \/ Waits \/ Takes \/ Lands
  <2>1. job'.phase = job.phase BY <1>0, <1>1 DEF SetsUp, Reclaimed, Credits, Waits, Takes, Lands, Job
  <2>2. job.phase = "downloading"
    BY <1>1 DEF SetsUp, Credits, Waits, Takes, Lands, At, Running
  <2> QED BY <2>1, <2>2
<1> QED BY <1>1 DEF ServerStep, Lists, Turns, CountsLanded, CountsFailed, CountsBlocked, At

Shape == Running /\ Pressing /\ NoLease /\ Ours /\ Swept

LEMMA StepHeld == Ind /\ Unclaimed /\ Shape /\ Held /\ [Next]_vars => Held'
<1> SUFFICES ASSUME Ind, Unclaimed, Shape, Held, [Next]_vars, Clean', ~hist'.dropped
             PROVE  /\ job'.phase \in {"ready", "done", "failed"} => Flight' = {}
                    /\ Pressed' => Flight' = {}
                    /\ job'.mode = "server" /\ job'.phase = "downloading" => Flight' \subseteq Mine'
  BY DEF Held
<1> USE DEF Shape
<1>0. Clean BY CleanStays
<1>r. CASE Restart
  <2>1. InState("downloading") \in SUBSET Clips BY InStates
  <2>2. row' = Put(InState("downloading"), "pending") BY <1>r DEF Restart
  <2>3. Flight' = Flight \ InState("downloading") BY <2>1, <2>2, PutMoves
  <2> QED BY <2>3 DEF Flight
<1>n. CASE ~Restart
  <2>0. ~hist.dropped /\ (Raises => Flight = {}) BY <1>n, DroppedStays
  <2>h. /\ job.phase \in {"ready", "done", "failed"} => Flight = {}
        /\ Pressed => Flight = {}
        /\ job.mode = "server" /\ job.phase = "downloading" => Flight \subseteq Mine
    BY <1>0, <2>0 DEF Held
  <2>1. ASSUME job'.phase \in {"ready", "done", "failed"} PROVE Flight' = {}
    <3>1. CASE job'.phase = job.phase
      <4>1. Flight' \subseteq Flight BY <2>1, <3>1, QuietRows
      <4> QED BY <2>h, <2>1, <3>1, <4>1
    <3>2. CASE job'.phase # job.phase
      <4>1. (ServerStep \/ Raises) /\ ~Picks /\ wk' = Asleep BY <2>1, <3>2, PhaseMoves
      <4>2. ~hist.since /\ wk.pc # "idle" BY <3>2, <4>1, WorkerAlone
      <4>3. Flight = {}
        <5>1. CASE Raises BY <2>0, <5>1
        <5>2. CASE ~Raises
          <6>1. wk.pc \in {"list", "next", "count"} BY <2>1, <4>1, <5>2, WorkerEnds
          <6>2. job.mode = "server" /\ job.phase = "downloading"
            BY <4>2, <6>1 DEF Ours, Running
          <6>3. Mine = {} BY <6>1 DEF Mine
          <6> QED BY <2>h, <6>2, <6>3
        <5> QED BY <5>1, <5>2
      <4>4. wk' # wk /\ ~(wk' = [wk EXCEPT !.pc = "fetch"])
        BY <4>1, <4>2, RestTyped DEF Ind, TypeOK, Worker
      <4>5. ASSUME NEW m \in Machines, Say(m) PROVE FALSE BY <4>4, <4>5 DEF Say
      <4>6. Flight' \subseteq Flight BY <4>4, <4>5, RowMoves
      <4> QED BY <4>3, <4>6
    <3> QED BY <3>1, <3>2
  <2>2. ASSUME Pressed' PROVE Flight' = {}
    <3>1. PICK s \in Tabs : tab'[s] \in {"marked", "cleared"} BY <2>2 DEF Pressed
    <3>2. CASE tab[s] \in {"marked", "cleared"}
      <4>1. Pressed BY <3>2 DEF Pressed
      <4>2. job.phase # "downloading" BY <1>0, <4>1 DEF Pressing
      <4> QED BY <2>h, <4>1, <4>2, QuietRows
    <3>3. CASE tab[s] \notin {"marked", "cleared"}
      <4>1. Pressable BY <3>1, <3>3, TabsPress
      <4> QED BY <2>h, <4>1, QuietRows DEF Pressable
    <3> QED BY <3>2, <3>3
  <2>3. ASSUME job'.mode = "server", job'.phase = "downloading" PROVE Flight' \subseteq Mine'
    <3>1. CASE job.phase # "downloading"
      <4>1. PICK t \in Tabs : Starts(t) BY <2>3, <3>1, PhaseMoves
      <4>2. Pressed BY <4>1 DEF Starts, Pressed
      <4> QED BY <2>h, <3>1, <4>2, QuietRows
    <3>2. CASE job.phase = "downloading" /\ job.mode = "server"
      <4>1. Flight \subseteq Mine BY <2>h, <3>2
      <4>2. CASE ServerStep BY <4>1, <4>2, WorkerHolds
      <4>3. CASE ~ServerStep
        <5>1. ASSUME NEW m \in Machines, Say(m) PROVE FALSE
          BY <3>2, <5>1, HandlerHolds DEF Handler, LeaseLive
        <5>2. Flight' \subseteq Flight BY <4>3, <5>1, RowMoves DEF ServerStep
        <5>3. CASE wk' = wk BY <4>1, <5>2, <5>3 DEF Mine
        <5>4. CASE wk' = Asleep /\ wk # Asleep
          <6>1. Raises
            <7>1. ASSUME NEW t \in Tabs, PressChecks(t) \/ Cancel(t) \/ Pin(t) \/ Answers(t) PROVE FALSE
              BY <5>4, <7>1 DEF PressChecks, Cancel, Pin, Answers, Marks, Clears, Starts, Expires
            <7>2. ASSUME NEW m \in Machines, Claim(m) \/ Leave(m) \/ Companion(m) PROVE FALSE
              BY <5>4, <7>2 DEF Claim, Leave, Companion, Asks, Gone, NextClip, Fetched
            <7>3. ASSUME NEW m \in Machines, Handler(m) PROVE FALSE
              BY <5>4, <7>3 DEF Handler, Manifest, Say, Moves, Counts, Requeues, EndsLease
            <7>4. ~((\E c \in Clips : Upload(c)) \/ Lapse) /\ ~UNCHANGED vars
              BY <5>4 DEF Upload, Lapse, vars
            <7> QED BY <1>n, <4>3, <7>1, <7>2, <7>3, <7>4 DEF Next
          <6>2. job'.phase = "failed" BY <6>1 DEF Raises, Over_, Ind, TypeOK, Job
          <6> QED BY <2>3, <6>2
        <5> QED BY <4>3, <5>3, <5>4, WorkerMoves
      <4> QED BY <4>2, <4>3
    <3>3. CASE job.phase = "downloading" /\ job.mode # "server"
      <4>1. \/ \E t \in Tabs : Clears(t)
            \/ \E m \in Machines : EndsLease(m) /\ job.holder = m
            \/ SetsUp /\ wk.local
        BY <2>3, <3>3, ModeMoves
      <4>2. ASSUME NEW t \in Tabs, Clears(t) PROVE FALSE
        <5>1. Pressed BY <4>2 DEF Clears, Pressed
        <5> QED BY <1>0, <3>3, <5>1 DEF Pressing
      <4>3. ASSUME NEW m \in Machines, EndsLease(m), job.holder = m PROVE Flight' = {}
        <5>1. LeaseLive BY <4>3, HandlerHolds DEF Handler
        <5>2. Flight = {} BY <1>0, <4>3, <5>1 DEF Swept, EndsLease
        <5> QED BY <4>3, <5>2 DEF EndsLease, Flight, InState
      <4>4. CASE SetsUp /\ wk.local BY <4>4, WorkerHolds DEF ServerStep
      <4> QED BY <4>1, <4>2, <4>3, <4>4
    <3> QED BY <3>1, <3>2, <3>3
  <2> QED BY <2>1, <2>2, <2>3
<1> QED BY <1>r, <1>n

\* The worker's list keeps what waits, but the clip it is at.
LEMMA WorkerAhead ==
    ASSUME Ind, ServerStep, ~Picks, ~Credits,
           wk.pc \in {"next", "take"} => Queue \subseteq wk.todo,
           wk.pc \in {"fetch", "count"} => Queue \subseteq wk.todo \ {First(wk.todo)},
           Queue' \subseteq Queue
    PROVE  /\ wk'.pc \in {"next", "take"} => Queue' \subseteq wk'.todo
           /\ wk'.pc \in {"fetch", "count"} => Queue' \subseteq wk'.todo \ {First(wk'.todo)}
<1>0. wk \in Worker /\ Asleep.pc = "idle" BY RestTyped DEF Ind, TypeOK
<1>1. CASE SetsUp \/ Waits
  <2>1. wk'.pc \in {"credit", "grace", "list", "idle"} BY <1>0, <1>1 DEF SetsUp, Waits, Worker
  <2> QED BY <2>1
<1>2. CASE Lists
  <2>1. wk' = Asleep \/ wk' = [wk EXCEPT !.pc = "next", !.todo = InState("pending")]
    BY <1>2 DEF Lists
  <2>2. wk'.pc = "idle" \/ (wk'.pc = "next" /\ wk'.todo = Queue) BY <1>0, <2>1 DEF Worker, Queue
  <2> QED BY <2>2
<1>3. CASE Turns
  <2>1. wk' = Asleep \/ wk' = [wk EXCEPT !.pc = "take"] BY <1>3 DEF Turns
  <2>2. wk'.pc = "idle" \/ (wk'.pc = "take" /\ wk'.todo = wk.todo) BY <1>0, <2>1 DEF Worker
  <2> QED BY <1>3, <2>2 DEF Turns, At
<1>4. CASE Takes
  <2> DEFINE c == First(wk.todo)
  <2>1. c \in Clips /\ {c} \in SUBSET Clips BY <1>4, AtClip DEF Takes, At
  <2>2. c \notin Queue'
    <3>1. \/ row' = row /\ row[c] # "pending"
          \/ row' = Put({c}, "skipped")
          \/ row' = Put({c}, "downloading")
      BY <1>4 DEF Takes
    <3> QED BY <2>1, <3>1 DEF Queue, InState, Put
  <2>3. \/ wk'.pc = "next" /\ wk'.todo = wk.todo \ {c}
        \/ wk'.pc = "fetch" /\ wk'.todo = wk.todo
    BY <1>0, <1>4 DEF Takes, Worker
  <2>4. Queue' \subseteq wk.todo \ {c} BY <1>4, <2>2 DEF Takes, At
  <2> QED BY <2>3, <2>4
<1>5. CASE Lands
  <2>1. wk'.pc = "count" /\ wk'.todo = wk.todo BY <1>0, <1>5 DEF Lands, Worker
  <2> QED BY <1>5, <2>1 DEF Lands, At
<1>6. CASE CountsLanded \/ CountsFailed \/ CountsBlocked
  <2>1. \/ wk' = Asleep
        \/ wk' = [wk EXCEPT !.pc = "next", !.todo = @ \ {First(wk.todo)}, !.n = 0]
        \/ \E n : wk' = [wk EXCEPT !.pc = "next", !.bad = FALSE, !.n = n, !.todo = @ \ {First(wk.todo)}]
    BY <1>6 DEF CountsLanded, CountsFailed, CountsBlocked
  <2>2. wk'.pc = "idle" \/ (wk'.pc = "next" /\ wk'.todo = wk.todo \ {First(wk.todo)})
    BY <1>0, <2>1 DEF Worker
  <2> QED BY <1>6, <2>2 DEF CountsLanded, CountsFailed, CountsBlocked, At
<1> QED BY <1>1, <1>2, <1>3, <1>4, <1>5, <1>6 DEF ServerStep

LEMMA StepAhead == Ind /\ Unclaimed /\ Shape /\ Ahead /\ [Next]_vars => Ahead'
<1> SUFFICES ASSUME Ind, Unclaimed, Shape, Ahead, [Next]_vars, Clean', ~hist'.since, wk'.pc # "idle"
             PROVE  /\ wk'.pc \in {"next", "take"} => Queue' \subseteq wk'.todo
                    /\ wk'.pc \in {"fetch", "count"} => Queue' \subseteq wk'.todo \ {First(wk'.todo)}
  BY DEF Ahead
<1> USE DEF Shape
<1>0. Clean /\ wk \in Worker /\ Asleep \in Worker /\ Asleep.pc = "idle"
  BY CleanStays, RestTyped DEF Ind, TypeOK
<1>1. CASE wk.pc = "idle"
  <2>1. wk'.pc = "setup"
    <3>1. wk' = [Asleep EXCEPT !.pc = "setup", !.local = (job.mode = "local"),
                               !.handed = (job.holder # Nobody /\ job.mode = "server")]
      BY <1>1, WorkerWakes
    <3> QED BY <1>0, <3>1 DEF Worker
  <2> QED BY <2>1
<1>2. CASE wk.pc # "idle" /\ ~Credits
  <2>1. ~Picks /\ (\A m \in Machines : ~Claim(m)) BY <1>2, WorkerMoves DEF Picks, At
  <2>2. ~hist.since /\ job.phase = "downloading" BY <1>2, <2>1, WorkerMoves DEF Running
  <2>3. ~LeaseLive BY <1>2, <2>2 DEF Unclaimed
  <2>4. ASSUME NEW t \in Tabs, Marks(t), tab'[t] = "marked" PROVE FALSE
    <3>1. tab[t] = "checked" BY <2>4 DEF Marks
    <3>2. Pressable BY <2>4, <3>1, TabsPress
    <3> QED BY <2>2, <3>2 DEF Pressable
  <2>5. ASSUME NEW m \in Machines, Requeues(m) PROVE FALSE
    BY <2>3, <2>5, HandlerHolds DEF Handler
  <2>6. ~Restart BY <1>0 DEF Restart
  <2>7. Queue' \subseteq Queue BY <1>2, <2>4, <2>5, <2>6, RowMoves
  <2>8. /\ wk.pc \in {"next", "take"} => Queue \subseteq wk.todo
        /\ wk.pc \in {"fetch", "count"} => Queue \subseteq wk.todo \ {First(wk.todo)}
    BY <1>0, <2>2 DEF Ahead
  <2>9. CASE ServerStep BY <1>2, <2>1, <2>7, <2>8, <2>9, WorkerAhead
  <2>10. CASE wk' = wk BY <2>7, <2>8, <2>10
  <2> QED BY <1>0, <2>9, <2>10, WorkerMoves
<1>3. CASE Credits
  <2>1. wk'.pc \in {"credit", "grace"} BY <1>0, <1>3 DEF Credits, At, Worker
  <2> QED BY <2>1
<1> QED BY <1>1, <1>2, <1>3

\* What a restart found unfinished is remembered until the next start.
LEMMA TornStays ==
    ASSUME Ind, [Next]_vars, ~hist'.torn
    PROVE  /\ ~hist.torn \/ \E t \in Tabs : Starts(t)
           /\ Restart => job.phase = "downloading" \/ Unsettled = {}
<1>0. hist \in Hist BY DEF Ind, TypeOK
<1>1. ASSUME NEW b, Crossing(b) \/ TakenBack(b) PROVE hist'.torn = hist.torn
  BY <1>0, <1>1 DEF Crossing, TakenBack, Hist
<1>2. CASE Restart
  <2>1. hist'.torn = (hist.torn \/ (job.phase # "downloading" /\ Unsettled # {}))
    BY <1>0, <1>2 DEF Restart, Hist
  <2> QED BY <2>1
<1>3. CASE ~Restart
  <2> SUFFICES ASSUME \A t \in Tabs : ~Starts(t) PROVE hist'.torn = hist.torn BY <1>3
  <2>1. CASE UNCHANGED vars BY <2>1 DEF vars
  <2>2. ASSUME NEW t \in Tabs, PressChecks(t) \/ Cancel(t) \/ Pin(t) \/ Answers(t)
        PROVE  hist'.torn = hist.torn
    <3>1. CASE Clears(t) BY <1>0, <3>1 DEF Clears, Hist
    <3> QED BY <1>1, <2>2, <3>1 DEF PressChecks, Cancel, Pin, Answers, Marks, Expires
  <2>3. ASSUME NEW m \in Machines, Claim(m) PROVE hist'.torn = hist.torn
    BY <1>0, <2>3 DEF Claim, Hist
  <2>4. ASSUME NEW m \in Machines, Leave(m) \/ Companion(m) \/ Handler(m)
        PROVE  hist'.torn = hist.torn
    BY <1>1, <2>4 DEF Leave, Companion, Asks, Gone, NextClip, Fetched, Handler, Manifest, Say,
       Moves, Counts, Requeues, EndsLease
  <2>5. CASE (\E c \in Clips : Upload(c)) \/ Lapse BY <2>5 DEF Upload, Lapse
  <2>6. CASE ServerStep \/ Raises
    <3>1. CASE Picks BY <1>0, <3>1 DEF Picks, Hist
    <3>2. CASE Credits
      <4>1. CASE wk.todo = {} BY <1>1, <3>2, <4>1 DEF Credits
      <4>2. CASE wk.todo # {} BY <1>0, <3>2, <4>2 DEF Credits, Hist
      <4> QED BY <4>1, <4>2
    <3>3. CASE Raises BY <1>0, <3>3 DEF Raises, Hist
    <3> QED BY <1>1, <2>6, <3>1, <3>2, <3>3 DEF ServerStep, SetsUp, Waits, Lists, Turns, Takes,
            Lands, CountsLanded, CountsFailed, CountsBlocked
  <2> QED BY <1>3, <2>1, <2>2, <2>3, <2>4, <2>5, <2>6 DEF Next
<1> QED BY <1>2, <1>3

\* A press ends with the start.
LEMMA PressEnds ==
    ASSUME Ind, [Next]_vars, Pressed, ~Restart, \A t \in Tabs : ~Starts(t)
    PROVE  Pressed'
<1>0. tab \in [Tabs -> {"no", "checked", "marked", "cleared", "expiring"}] BY DEF Ind, TypeOK
<1>1. PICK s \in Tabs : tab[s] \in {"marked", "cleared"} BY DEF Pressed
<1> SUFFICES tab'[s] \in {"marked", "cleared"} BY DEF Pressed
<1>2. CASE UNCHANGED vars BY <1>1, <1>2 DEF vars
<1>3. ASSUME NEW t \in Tabs, PressChecks(t) \/ Cancel(t) \/ Pin(t) \/ Answers(t)
      PROVE  tab'[s] \in {"marked", "cleared"}
  <2>1. CASE Marks(t) BY <1>0, <1>1, <2>1 DEF Marks
  <2>2. CASE ~Marks(t)
    BY <1>0, <1>1, <1>3, <2>2 DEF PressChecks, Cancel, Pin, Answers, Clears, Expires
  <2> QED BY <2>1, <2>2
<1>4. ASSUME NEW m \in Machines, Claim(m) \/ Leave(m) \/ Companion(m) \/ Handler(m)
      PROVE  tab' = tab
  BY <1>4 DEF Claim, Leave, Companion, Asks, Gone, NextClip, Fetched, Handler, Manifest, Say,
     Moves, Counts, Requeues, EndsLease
<1>5. CASE (\E c \in Clips : Upload(c)) \/ Lapse BY <1>1, <1>5 DEF Upload, Lapse
<1>6. CASE ServerStep \/ Raises
  BY <1>1, <1>6 DEF ServerStep, Picks, SetsUp, Credits, Waits, Lists, Turns, Takes, Lands,
     CountsLanded, CountsFailed, CountsBlocked, Raises
<1> QED BY <1>1, <1>2, <1>3, <1>4, <1>5, <1>6 DEF Next

\* The worker ends a job as done when its list is through, or fails the rest.
LEMMA WorkerThrough ==
    ASSUME Ind, ServerStep \/ Raises, ~Picks, job.phase = "downloading", job'.phase = "done",
           wk.pc \in {"next", "take"} => Queue \subseteq wk.todo
    PROVE  Queue' = {}
<1>0. job \in Job BY DEF Ind, TypeOK
<1>1. CASE Turns
  <2>1. wk.todo = {} BY <1>0, <1>1 DEF Turns
  <2> QED BY <1>1, <2>1 DEF Turns, At, Queue, InState
<1>2. CASE CountsBlocked
  <2>1. wk.handed BY <1>0, <1>2 DEF CountsBlocked, Job
  <2>2. row' = Put(InState("pending"), "failed") BY <1>2, <2>1 DEF CountsBlocked
  <2>3. InState("pending") \in SUBSET Clips BY InStates
  <2>4. Queue' = Queue \ InState("pending") BY <2>2, <2>3, PutAside
  <2> QED BY <2>4 DEF Queue
<1>3. CASE Lists \/ Raises BY <1>0, <1>3 DEF Lists, Raises, Over_, Job
<1>4. CASE CountsFailed BY <1>0, <1>4 DEF CountsFailed, Job
<1>5. CASE SetsUp \/ Credits \/ Waits \/ Takes \/ Lands \/ CountsLanded
  BY <1>0, <1>5 DEF SetsUp, Reclaimed, Credits, Waits, Takes, Lands, CountsLanded, Job
<1> QED BY <1>1, <1>2, <1>3, <1>4, <1>5 DEF ServerStep

LEMMA StepThrough == Ind /\ Unclaimed /\ Shape /\ Ahead /\ Through /\ [Next]_vars => Through'
<1> SUFFICES ASSUME Ind, Unclaimed, Shape, Ahead, Through, [Next]_vars, Clean', ~hist'.torn,
                    job'.phase = "done", ~Pressed'
             PROVE  Queue' = {}
  BY DEF Through
<1> USE DEF Shape
<1>0. Clean BY CleanStays
<1>1. CASE job.phase = "done"
  <2>1. \A t \in Tabs : ~Starts(t) BY <1>1 DEF Starts, Ind, TypeOK, Job
  <2>2. ~hist.torn BY <2>1, TornStays
  <2>3. CASE Restart
    <3>1. Unsettled = {} BY <1>1, <2>3, TornStays
    <3>2. Queue = {} /\ Flight = {}
      BY <3>1 DEF Queue, Flight, InState, Unsettled, Unfinished
    <3>3. row' = Put(Flight, "pending") BY <2>3 DEF Restart, Flight
    <3>4. Queue' = Queue \cup Flight BY <3>2, <3>3, PutMoves
    <3> QED BY <3>2, <3>4
  <2>4. CASE ~Restart
    <3>1. ~Pressed BY <2>1, <2>4, PressEnds
    <3>2. Queue = {} BY <1>0, <1>1, <2>2, <3>1 DEF Through
    <3>3. ASSUME NEW m \in Machines, Requeues(m) PROVE FALSE
      BY <1>0, <1>1, <3>3, HandlerHolds DEF Handler, NoLease
    <3>4. ~Credits BY <1>1 DEF Credits, At, Running
    <3>5. ~(\E t \in Tabs : Marks(t) /\ tab'[t] = "marked") BY DEF Pressed
    <3>6. Queue' \subseteq Queue BY <2>4, <3>3, <3>4, <3>5, RowMoves
    <3> QED BY <3>2, <3>6
  <2> QED BY <2>3, <2>4
<1>2. CASE job.phase # "done"
  <2>1. (ServerStep \/ Raises) /\ ~Picks BY <1>2, PhaseMoves
  <2>2. ~hist.since /\ wk.pc # "idle" BY <1>2, <2>1, WorkerAlone DEF Takes
  <2>3. wk.pc \in {"next", "take"} => Queue \subseteq wk.todo BY <1>0, <2>2 DEF Ahead
  <2>4. job.phase = "downloading" BY <2>2 DEF Running
  <2> QED BY <2>1, <2>3, <2>4, WorkerThrough
<1> QED BY <1>1, <1>2

-----------------------------------------------------------------------------
(* The invariant, and what it says of a job that is done *)

Settles == Unclaimed /\ Shape /\ Held /\ Ahead /\ Through

LEMMA SettlesStarts == Init => Settles
<1> SUFFICES ASSUME Init PROVE Settles OBVIOUS
<1>1. wk.pc = "idle" /\ \A m \in Machines : call[m].at = "no" BY RestTyped DEF Init, NoCall
<1>2. Flight = {} /\ ~Pressed /\ job.phase = "ready" /\ job.mode = "server"
  BY DEF Init, Flight, InState, Pressed
<1>3. Unclaimed /\ Running /\ Ours /\ Ahead BY <1>1 DEF Unclaimed, Running, Ours, Ahead
<1>4. Pressing /\ NoLease /\ Swept BY <1>1, <1>2 DEF Init, Pressing, Pressed, NoLease, LeaseLive, Swept
<1>5. Held /\ Through BY <1>2 DEF Held, Through
<1> QED BY <1>3, <1>4, <1>5 DEF Settles, Shape

LEMMA Settling == Spec => []Settles
<1>1. Ind /\ Settles /\ [Next]_vars => Settles'
  <2> SUFFICES ASSUME Ind, Settles, [Next]_vars PROVE Settles' OBVIOUS
  <2>1. Unclaimed' BY StepUnclaimed DEF Settles
  <2>2. Running' /\ Pressing' /\ NoLease' /\ Ours' /\ Swept'
    BY StepRunning, StepPressing, StepNoLease, StepOurs, StepSwept DEF Settles, Shape
  <2>3. Held' /\ Ahead' /\ Through' BY StepHeld, StepAhead, StepThrough DEF Settles
  <2> QED BY <2>1, <2>2, <2>3 DEF Settles, Shape
<1> QED BY <1>1, SettlesStarts, Typing, PTL DEF Spec

\* Whenever the executors did not cross and no phase died with a clip in flight,
\* a job that is done has no clip left in flight, crashes and retries included.
THEOREM NothingStranded == Spec => []NoClipStranded
<1>1. Settles => NoClipStranded BY DEF Settles, Held, NoClipStranded, Flight
<1> QED BY <1>1, Settling, PTL

\* Whenever the executors did not cross, a job that is done and at rest has no
\* clip waiting or in flight.
THEOREM DoneIsSettled == Spec => []SettledUncrossed
<1>1. Settles => SettledUncrossed
  <2> SUFFICES ASSUME Settles, Clean, ~hist.dropped, ~hist.torn, AtRest, job.phase = "done"
               PROVE  Unsettled = {}
    BY DEF SettledUncrossed
  <2>1. ~Pressed BY DEF AtRest, Pressed
  <2>2. Flight = {} BY DEF Settles, Held
  <2>3. Queue = {} BY <2>1 DEF Settles, Through
  <2> QED BY <2>2, <2>3 DEF Flight, Queue, InState, Unsettled, Unfinished
<1> QED BY <1>1, Settling, PTL

=============================================================================
