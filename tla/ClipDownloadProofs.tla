-------------------------- MODULE ClipDownloadProofs --------------------------
(***************************************************************************)
(* Proofs about ClipDownload, for every set of clips, machines and tabs and *)
(* every bound.                                                             *)
(*                                                                          *)
(* Types need that nobody has a clip in hand whose list is empty            *)
(* (HandsFull).  OneExecutor needs how the worker and a machine come to     *)
(* have a clip: the worker takes one only while no claim was granted since  *)
(* it picked the job (Unclaimed), and a machine that claims later is not    *)
(* told of a clip in flight.                                                *)
(***************************************************************************)
EXTENDS ClipDownload, TLAPS, FiniteSetTheorems, WellFoundedInduction

-----------------------------------------------------------------------------
(* Clips in order *)

\* A set of clips has a first one.
LEMMA HasLeast ==
    ASSUME NEW S \in SUBSET Nat, S # {}
    PROVE  \E c \in S : \A d \in S : c <= d
<1> DEFINE R == OpToRel(<, Nat)
<1>1. IsWellFoundedOn(R, Nat) BY NatLessThanWellFounded
<1>2. \A x, y \in Nat : y < x => <<y, x>> \in R BY DEF OpToRel
<1> HIDE DEF R
<1>3. PICK x \in S : \A y \in S : ~ (<<y, x>> \in R) BY <1>1, WFMin
<1>4. ASSUME NEW d \in S PROVE x <= d
  <2>1. x \in Nat /\ d \in Nat OBVIOUS
  <2>2. ~ (d < x) BY <1>2, <1>3, <2>1, Zenon
  <2> QED BY <2>1, <2>2
<1> QED BY <1>4

LEMMA FirstIsOne ==
    ASSUME NEW S \in SUBSET Clips, S # {}
    PROVE  First(S) \in S
<1>1. S \in SUBSET Nat BY ClipDownloadAssumption
<1>2. \E c \in S : \A d \in S : c <= d BY <1>1, HasLeast
<1> QED BY <1>2, Zenon DEF First

LEMMA Counted ==
    ASSUME NEW S \in SUBSET Clips
    PROVE  Cardinality(S) \in Nat
BY ClipDownloadAssumption, FS_Subset, FS_CardinalityType

-----------------------------------------------------------------------------
(* Types *)

\* Whoever has a clip in hand has it on the list.
RunFull(r) ==
    /\ r.pc \in {"say", "fetch", "report"} => r.todo # {}
    /\ r.pc = "off" => r.todo = {}
CallFull(c) ==
    /\ c.at \in {"say", "report", "count"} => c.todo # {}
    /\ c.at = "no" => c.todo = {}
HandsFull ==
    /\ wk.pc \in {"take", "fetch", "count"} => wk.todo # {}
    /\ \A m \in Machines : RunFull(run[m]) /\ CallFull(call[m])

Ind == TypeOK /\ HandsFull

LEMMA RestTyped ==
    /\ Asleep \in Worker /\ Asleep.pc = "idle"
    /\ Idle \in Run /\ RunFull(Idle)
    /\ NoCall \in Call /\ CallFull(NoCall)
BY DEF Asleep, Worker, Steps, Idle, Run, RunFull, NoCall, Call, CallFull

LEMMA StartsTyped == Init => Ind
BY RestTyped DEF Init, Ind, TypeOK, HandsFull, Job, Hist, DlStates, Phases, Over, Unfinished

LEMMA PutTyped ==
    ASSUME TypeOK, NEW S \in SUBSET Clips, NEW s \in DlStates
    PROVE  /\ Put(S, s) \in [Clips -> DlStates]
           /\ \A c \in Clips : Put(S, s)[c] = IF c \in S THEN s ELSE row[c]
BY DEF Put, TypeOK

LEMMA InStates ==
    ASSUME NEW s
    PROVE  InState(s) \in SUBSET Clips /\ Unsettled \in SUBSET Clips
BY DEF InState, Unsettled

LEMMA StatesAre ==
    {"none", "done", "failed", "skipped", "pending", "downloading"} \subseteq DlStates
BY DEF DlStates, Unfinished

\* What the ghost remembers of a step.
LEMMA GhostTyped ==
    ASSUME TypeOK, NEW b, Crossing(b) \/ TakenBack(b) \/ UNCHANGED hist
    PROVE  hist' \in Hist /\ hist'.since = hist.since /\ hist'.old = hist.old
BY DEF TypeOK, Hist, Crossing, TakenBack

\* The steps whose ghost remembers something of its own.
LEMMA OtherGhosts ==
    ASSUME TypeOK, Credits \/ Raises \/ Restart \/ \E t \in Tabs : Starts(t)
    PROVE  /\ hist' \in Hist /\ hist'.since = hist.since /\ hist'.old = hist.old
           /\ hist'.back = hist.back /\ (Clean' => Clean)
<1> USE DEF TypeOK, Hist, Clean
<1>1. CASE Credits
  <2>1. CASE wk.todo = {}
    <3>1. Crossing(LeaseLive) BY <1>1, <2>1 DEF Credits
    <3>2. hist' = [hist EXCEPT !.crossed = @ \/ LeaseLive] BY <3>1 DEF Crossing
    <3>3. (hist.crossed \/ LeaseLive) \in BOOLEAN OBVIOUS
    <3> QED BY <3>2, <3>3
  <2>2. CASE wk.todo # {}
    <3> DEFINE f == First(wk.todo) \in wk.failed \cap disk
    <3>1. hist' = [hist EXCEPT !.crossed = @ \/ LeaseLive, !.found = @ \/ f]
      BY <1>1, <2>2 DEF Credits
    <3>2. (hist.found \/ f) \in BOOLEAN /\ (hist.crossed \/ LeaseLive) \in BOOLEAN OBVIOUS
    <3> HIDE DEF f
    <3> QED BY <3>1, <3>2
  <2> QED BY <2>1, <2>2
<1>2. CASE Raises
  <2> DEFINE d == InState("downloading") # {}
  <2>1. hist' = [hist EXCEPT !.crossed = @ \/ hist.since, !.dropped = @ \/ d]
    BY <1>2 DEF Raises
  <2>2. (hist.dropped \/ d) \in BOOLEAN OBVIOUS
  <2> HIDE DEF d
  <2> QED BY <2>1, <2>2
<1>3. CASE Restart
  <2> DEFINE d == job.phase # "downloading" /\ Unsettled # {}
  <2>1. hist' = [hist EXCEPT !.dropped = FALSE, !.torn = @ \/ d]
    BY <1>3 DEF Restart
  <2>2. (hist.torn \/ d) \in BOOLEAN OBVIOUS
  <2> HIDE DEF d
  <2> QED BY <2>1, <2>2
<1>4. CASE \E t \in Tabs : Starts(t) BY <1>4 DEF Starts
<1> QED BY <1>1, <1>2, <1>3, <1>4

\* The page's requests.
LEMMA PageTyped ==
    ASSUME Ind, NEW t \in Tabs,
           PressChecks(t) \/ Cancel(t) \/ Pin(t) \/ Answers(t)
    PROVE  Ind'
<1> USE DEF Ind, TypeOK, HandsFull
<1>1. CASE PressChecks(t) BY <1>1 DEF PressChecks
<1>2. CASE Cancel(t)
  <2>1. job' \in Job BY <1>2 DEF Cancel, Job, Phases, Over
  <2>2. tab' \in [Tabs -> {"no", "checked", "marked", "cleared", "expiring"}] BY <1>2 DEF Cancel
  <2> QED BY <1>2, <2>1, <2>2 DEF Cancel
<1>3. CASE Pin(t) BY <1>3 DEF Pin, Job
<1>4. CASE Marks(t)
  <2> DEFINE again == InState("none") \cup InState("failed") \cup InState("pending")
  <2>1. again \in SUBSET Clips BY InStates
  <2>2. row' \in [Clips -> DlStates] BY <1>4, <2>1, PutTyped, StatesAre DEF Marks
  <2>3. tab' \in [Tabs -> {"no", "checked", "marked", "cleared", "expiring"}] BY <1>4 DEF Marks
  <2>4. hist' \in Hist BY <1>4, GhostTyped DEF Marks
  <2> QED BY <1>4, <2>2, <2>3, <2>4 DEF Marks
<1>5. CASE Clears(t)
  <2>0. 0 \in Int OBVIOUS
  <2>1. FreshRun \in Job BY <2>0 DEF FreshRun, Job
  <2>2. job' \in Job BY <1>5, <2>1 DEF Clears
  <2>3. hist' \in Hist BY <1>5, InStates DEF Clears, Hist
  <2> QED BY <1>5, <2>2, <2>3 DEF Clears
<1>6. CASE Starts(t)
  <2>1. hist' \in Hist BY <1>6, OtherGhosts
  <2> QED BY <1>6, <2>1 DEF Starts, Job, Phases
<1>7. CASE Expires(t) BY <1>7 DEF Expires, Job
<1> QED BY <1>1, <1>2, <1>3, <1>4, <1>5, <1>6, <1>7 DEF Answers

\* A machine's list and what becomes of it.
LEMMA OneRun ==
    ASSUME Ind, NEW m \in Machines, NEW r \in Run, RunFull(r), run' = [run EXCEPT ![m] = r]
    PROVE  run' \in [Machines -> Run] /\ \A x \in Machines : RunFull(run'[x])
BY DEF Ind, TypeOK, HandsFull

LEMMA OneCall ==
    ASSUME Ind, NEW m \in Machines, NEW c \in Call, CallFull(c), call' = [call EXCEPT ![m] = c]
    PROVE  call' \in [Machines -> Call] /\ \A x \in Machines : CallFull(call'[x])
BY DEF Ind, TypeOK, HandsFull

LEMMA AnsweredTyped ==
    ASSUME Ind, NEW m \in Machines, NEW asked, NEW next \in Run,
           run[m].pc = asked => RunFull(next), Answered(m, asked, next)
    PROVE  /\ run' \in [Machines -> Run] /\ call' \in [Machines -> Call]
           /\ \A x \in Machines : RunFull(run'[x]) /\ CallFull(call'[x])
<1>1. call' = [call EXCEPT ![m] = NoCall] BY DEF Answered
<1>2. \/ run' = run
      \/ run' = [run EXCEPT ![m] = IF run[m].pc = asked THEN next ELSE run[m]]
  BY DEF Answered
<1>3. (IF run[m].pc = asked THEN next ELSE run[m]) \in Run
  BY DEF Ind, TypeOK
<1>4. RunFull(IF run[m].pc = asked THEN next ELSE run[m]) BY DEF Ind, HandsFull
<1>5. run' \in [Machines -> Run] /\ \A x \in Machines : RunFull(run'[x])
  BY <1>2, <1>3, <1>4, OneRun DEF Ind, TypeOK, HandsFull
<1>6. call' \in [Machines -> Call] /\ \A x \in Machines : CallFull(call'[x])
  BY <1>1, RestTyped, OneCall
<1> QED BY <1>5, <1>6

LEMMA AtWorkTyped ==
    ASSUME NEW S \in SUBSET Clips
    PROVE  AtWork(S) \in Run /\ RunFull(AtWork(S))
BY DEF AtWork, Run, RunFull

\* A companion's own steps, and its claims.
LEMMA CompanionTyped ==
    ASSUME Ind, NEW m \in Machines, Claim(m) \/ Leave(m) \/ Companion(m)
    PROVE  Ind'
<1>0. run[m] \in Run /\ RunFull(run[m]) /\ call[m] \in Call /\ CallFull(call[m])
  BY DEF Ind, TypeOK, HandsFull
<1> USE DEF Ind, TypeOK, HandsFull
<1>1. CASE Claim(m)
  <2>1. job' \in Job BY <1>1 DEF Claim, Job
  <2>2. hist' \in Hist BY <1>1 DEF Claim, Hist
  <2>3. [run[m] EXCEPT !.pc = "manifest"] \in Run /\ RunFull([run[m] EXCEPT !.pc = "manifest"])
    BY <1>0 DEF Run, RunFull
  <2>4. run' = run \/ run' = [run EXCEPT ![m] = [run[m] EXCEPT !.pc = "manifest"]]
    BY <1>1 DEF Claim
  <2>5. run' \in [Machines -> Run] /\ \A x \in Machines : RunFull(run'[x])
    BY <2>3, <2>4, OneRun
  <2> QED BY <1>1, <2>1, <2>2, <2>5 DEF Claim
<1>2. CASE Leave(m) \/ Gone(m)
  BY <1>2, RestTyped, OneRun DEF Leave, Gone
<1>3. CASE Asks(m)
  <2> DEFINE c == [at |-> run[m].pc, todo |-> run[m].todo, bad |-> run[m].bad, n |-> 0]
  <2>1. c \in Call /\ CallFull(c) BY <1>0, <1>3 DEF Asks, Run, RunFull, Call, CallFull
  <2> QED BY <1>3, <2>1, OneCall DEF Asks
<1>4. CASE NextClip(m)
  <2> DEFINE r == IF run[m].todo = {} THEN Idle ELSE [run[m] EXCEPT !.pc = "say"]
  <2>1. r \in Run /\ RunFull(r) BY <1>0, RestTyped DEF Run, RunFull
  <2> QED BY <1>4, <2>1, OneRun DEF NextClip
<1>5. CASE Fetched(m)
  <2>1. PICK bad \in BOOLEAN :
          /\ run' = [run EXCEPT ![m].pc = "report", ![m].bad = bad]
          /\ away' = IF bad THEN away ELSE away \cup {First(run[m].todo)}
    BY <1>5 DEF Fetched
  <2> DEFINE r == [run[m] EXCEPT !.pc = "report", !.bad = bad]
  <2>2. r \in Run /\ RunFull(r) BY <1>0, <1>5 DEF Fetched, Run, RunFull
  <2>3. run' = [run EXCEPT ![m] = r] BY <1>0, <2>1 DEF Run
  <2>4. First(run[m].todo) \in Clips BY <1>0, <1>5, FirstIsOne DEF Fetched, Run, RunFull
  <2> QED BY <1>5, <2>1, <2>2, <2>3, <2>4, OneRun DEF Fetched
<1> QED BY <1>1, <1>2, <1>3, <1>4, <1>5 DEF Companion

\* The server's side of a machine's requests.
LEMMA HandlerTyped ==
    ASSUME Ind, NEW m \in Machines, Handler(m)
    PROVE  Ind'
<1>0. run[m] \in Run /\ RunFull(run[m]) /\ call[m] \in Call /\ CallFull(call[m])
  BY DEF Ind, TypeOK, HandsFull
<1> DEFINE c == First(call[m].todo)
<1>1. call[m].at \in {"say", "report", "count"} => c \in Clips /\ {c} \in SUBSET Clips
  BY <1>0, FirstIsOne DEF Call, CallFull
<1>2. NextOf(m) \in Run /\ RunFull(NextOf(m))
  <2>1. run[m].todo \ {First(call[m].todo)} \in SUBSET Clips BY <1>0 DEF Run
  <2> QED BY <2>1, AtWorkTyped DEF NextOf
<1>3. ASSUME NEW at \in {"sweep", "end", "count"}, NEW n \in Nat, at = "count" => call[m].todo # {}
      PROVE  LET k == [call[m] EXCEPT !.at = at, !.n = n]
                 j == [call[m] EXCEPT !.at = at]
             IN k \in Call /\ CallFull(k) /\ j \in Call /\ CallFull(j)
  BY <1>0, <1>3 DEF Call, CallFull
<1> HIDE DEF c
<1> USE DEF Ind, TypeOK, HandsFull
<1>4. CASE Manifest(m)
  <2> DEFINE dups == InState("pending") \cap Known
  <2>1. dups \in SUBSET Clips /\ Owed \in SUBSET Clips BY InStates DEF Owed
  <2>2. row' \in [Clips -> DlStates] BY <1>4, <2>1, PutTyped, StatesAre DEF Manifest
  <2>3. hist' \in Hist BY <1>4, GhostTyped DEF Manifest
  <2>4. /\ run' \in [Machines -> Run] /\ call' \in [Machines -> Call]
        /\ \A x \in Machines : RunFull(run'[x]) /\ CallFull(call'[x])
    <3>1. CASE Unsettled \ dups = {}
      <4>1. call' = [call EXCEPT ![m] = [call[m] EXCEPT !.at = "sweep"]] /\ run' = run
        BY <1>4, <3>1 DEF Manifest
      <4> QED BY <1>3, <4>1, OneCall
    <3>2. CASE Unsettled \ dups # {}
      <4>1. Answered(m, "manifest", AtWork(Owed)) BY <1>4, <3>2 DEF Manifest
      <4> QED BY <2>1, <4>1, AtWorkTyped, AnsweredTyped
    <3> QED BY <3>1, <3>2
  <2> QED BY <1>4, <2>2, <2>3, <2>4 DEF Manifest
<1>5. CASE Say(m)
  <2>1. row' \in [Clips -> DlStates] BY <1>1, <1>5, PutTyped, StatesAre DEF Say, c
  <2>2. hist' \in Hist BY <1>5, GhostTyped DEF Say
  <2> DEFINE r == [run[m] EXCEPT !.pc = "fetch"]
  <2>3. r \in Run /\ (run[m].pc = "say" => RunFull(r)) BY <1>0 DEF Run, RunFull
  <2>4. Answered(m, "say", r) BY <1>5 DEF Say
  <2> HIDE DEF r
  <2> QED BY <1>5, <2>1, <2>2, <2>3, <2>4, AnsweredTyped DEF Say
<1>6. CASE Moves(m)
  <2>1. hist' \in Hist BY <1>6, GhostTyped DEF Moves
  <2>2. CASE row[c] \in Unfinished
    <3>1. (IF call[m].bad THEN "failed" ELSE "done") \in DlStates BY StatesAre
    <3>0. row' = Put({c}, IF call[m].bad THEN "failed" ELSE "done")
      BY <1>6, <2>2 DEF Moves, c
    <3>2. {c} \in SUBSET Clips BY <1>1, <1>6 DEF Moves
    <3>5. row' \in [Clips -> DlStates] BY <3>0, <3>1, <3>2, PutTyped
    <3>3. call' = [call EXCEPT ![m] = [call[m] EXCEPT !.at = "count"]] /\ run' = run
      BY <1>6, <2>2 DEF Moves, c
    <3>4. call[m].todo # {} BY <1>0, <1>6 DEF Moves, CallFull
    <3> QED BY <1>3, <1>6, <2>1, <3>3, <3>4, <3>5, OneCall DEF Moves
  <2>3. CASE row[c] \notin Unfinished
    <3>1. Answered(m, "report", NextOf(m)) /\ row' = row BY <1>6, <2>3 DEF Moves, c
    <3> QED BY <1>2, <1>6, <2>1, <3>1, AnsweredTyped DEF Moves
  <2> QED BY <2>2, <2>3
<1>7. CASE Counts(m)
  <2>1. hist' \in Hist BY <1>7, GhostTyped DEF Counts
  <2>2. job' \in Job BY <1>7 DEF Counts, Job
  <2>3. ledger' \subseteq Clips BY <1>1, <1>7 DEF Counts, c
  <2>4. /\ run' \in [Machines -> Run] /\ call' \in [Machines -> Call]
        /\ \A x \in Machines : RunFull(run'[x]) /\ CallFull(call'[x])
    <3>1. CASE Unsettled = {}
      <4>1. call' = [call EXCEPT ![m] = [call[m] EXCEPT !.at = "sweep"]] /\ run' = run
        BY <1>7, <3>1 DEF Counts
      <4> QED BY <1>3, <4>1, OneCall
    <3>2. CASE Unsettled # {}
      <4>1. Answered(m, "report", NextOf(m)) BY <1>7, <3>2 DEF Counts
      <4> QED BY <1>2, <4>1, AnsweredTyped
    <3> QED BY <3>1, <3>2
  <2> QED BY <1>7, <2>1, <2>2, <2>3, <2>4 DEF Counts
<1>8. CASE Requeues(m)
  <2>1. hist' \in Hist BY <1>8, GhostTyped DEF Requeues
  <2>2. row' \in [Clips -> DlStates] BY <1>8, InStates, PutTyped, StatesAre DEF Requeues
  <2> DEFINE k == [call[m] EXCEPT !.at = "end", !.n = Cardinality(InState("failed"))]
  <2>3. k \in Call /\ CallFull(k) BY <1>3, InStates, Counted
  <2>4. call' = [call EXCEPT ![m] = k] BY <1>0, <1>8 DEF Requeues, Call
  <2> QED BY <1>8, <2>1, <2>2, <2>3, <2>4, OneCall DEF Requeues
<1>9. CASE EndsLease(m)
  <2>1. hist' \in Hist BY <1>9, GhostTyped DEF EndsLease
  <2>2. call[m].n \in Int BY <1>0 DEF Call
  <2>3. job' \in Job
    <3>1. job.failed - call[m].n \in Int BY <2>2 DEF Job
    <3> QED BY <1>9, <3>1 DEF EndsLease, Ended, Job
  <2>4. /\ run' \in [Machines -> Run] /\ call' \in [Machines -> Call]
        /\ \A x \in Machines : RunFull(run'[x]) /\ CallFull(call'[x])
    <3>1. CASE call[m].todo = {}
      <4>1. Answered(m, "manifest", AtWork({})) BY <1>9, <3>1 DEF EndsLease
      <4>2. AtWork({}) \in Run /\ RunFull(AtWork({})) BY AtWorkTyped
      <4> QED BY <4>1, <4>2, AnsweredTyped
    <3>2. CASE call[m].todo # {}
      <4>1. Answered(m, "report", NextOf(m)) BY <1>9, <3>2 DEF EndsLease
      <4> QED BY <1>2, <4>1, AnsweredTyped
    <3> QED BY <3>1, <3>2
  <2> QED BY <1>9, <2>1, <2>3, <2>4 DEF EndsLease
<1> QED BY <1>4, <1>5, <1>6, <1>7, <1>8, <1>9 DEF Handler

\* The worker.
LEMMA StepsAre ==
    /\ "idle" \in Steps /\ "setup" \in Steps /\ "credit" \in Steps /\ "grace" \in Steps
    /\ "list" \in Steps /\ "next" \in Steps /\ "take" \in Steps /\ "fetch" \in Steps
    /\ "count" \in Steps
BY DEF Steps

LEMMA EndsPhase ==
    ASSUME TypeOK, NEW p \in Phases
    PROVE  Over_(p) \in Job
BY DEF TypeOK, Over_, Job

LEMMA ServerTyped == ASSUME Ind, ServerStep \/ Raises \/ Restart PROVE Ind'
<1>0. wk \in Worker /\ (wk.pc \in {"take", "fetch", "count"} => wk.todo # {})
  BY DEF Ind, TypeOK, HandsFull
<1> DEFINE c == First(wk.todo)
<1>1. wk.pc \in {"take", "fetch", "count"} => c \in Clips /\ {c} \in SUBSET Clips
  BY <1>0, FirstIsOne DEF Worker
<1>2. {"cancelled", "failed", "done"} \subseteq Phases BY DEF Phases, Over
<1> HIDE DEF c
<1> USE RestTyped, EndsPhase, StepsAre, <1>2 DEF Ind, TypeOK, HandsFull, At
<1>3. CASE Picks
  <2>1. hist' \in Hist BY <1>3 DEF Picks, Hist
  <2>2. CASE job.cancel BY <1>3, <2>1, <2>2 DEF Picks
  <2>3. CASE ~job.cancel
    <3>1. wk' = [Asleep EXCEPT !.pc = "setup", !.local = (job.mode = "local"),
                               !.handed = (job.holder # Nobody /\ job.mode = "server")]
          /\ job' = job
      BY <1>3, <2>3 DEF Picks
    <3>2. (job.mode = "local") \in BOOLEAN
          /\ (job.holder # Nobody /\ job.mode = "server") \in BOOLEAN
      OBVIOUS
    <3>3. wk' \in Worker /\ wk'.pc = "setup" BY <3>1, <3>2 DEF Worker
    <3> QED BY <1>3, <2>1, <3>1, <3>3 DEF Picks
  <2> QED BY <2>2, <2>3
<1>4. CASE SetsUp
  <2>1. hist' \in Hist BY <1>4, GhostTyped DEF SetsUp
  <2>2. Reclaimed \in Job BY DEF Reclaimed, Job
  <2>3. job' \in Job BY <1>4, <2>2 DEF SetsUp
  <2>4. wk' \in Worker /\ wk'.pc \in {"credit", "grace"}
    <3>1. Unsettled \cup InState("failed") \in SUBSET Clips /\ InState("failed") \in SUBSET Clips
      BY InStates
    <3>2. CASE wk.local
      <4>1. wk' = [wk EXCEPT !.pc = "credit", !.failed = InState("failed"),
                             !.todo = Unsettled \cup InState("failed")]
        BY <1>4, <3>2 DEF SetsUp
      <4> QED BY <1>0, <3>1, <4>1 DEF Worker
    <3>3. CASE ~wk.local
      <4>1. wk' = [wk EXCEPT !.pc = "grace"] BY <1>4, <3>3 DEF SetsUp
      <4> QED BY <1>0, <4>1 DEF Worker
    <3> QED BY <3>2, <3>3
  <2> QED BY <1>4, <2>1, <2>3, <2>4 DEF SetsUp
<1>5. CASE Credits
  <2>1. hist' \in Hist BY <1>5, OtherGhosts
  <2>2. CASE wk.todo = {}
    <3>0. wk.n \in Int /\ 0 \in Nat BY <1>0 DEF Worker
    <3>1. job' \in Job BY <1>5, <2>2, <3>0 DEF Credits, Job
    <3>3. wk' = [wk EXCEPT !.pc = "grace", !.failed = {}, !.n = 0]
      BY <1>5, <2>2 DEF Credits
    <3>4. {} \in SUBSET Clips OBVIOUS
    <3>2. wk' \in Worker /\ wk'.pc = "grace" BY <1>0, <3>0, <3>3, <3>4 DEF Worker
    <3> QED BY <1>5, <2>1, <2>2, <3>1, <3>2 DEF Credits
  <2>3. CASE wk.todo # {}
    <3>0. c \in Clips /\ {c} \in SUBSET Clips BY <1>0, <2>3, FirstIsOne DEF Worker, c
    <3>1. (IF c \in disk THEN "done" ELSE "pending") \in DlStates BY StatesAre
    <3>8. row' = Put({c}, IF c \in disk THEN "done" ELSE "pending")
      BY <1>5, <2>3 DEF Credits, c
    <3>2. row' \in [Clips -> DlStates] BY <3>0, <3>1, <3>8, PutTyped
    <3>3. job' \in Job BY <1>5, <2>3 DEF Credits, Job
    <3>4. ledger' \subseteq Clips BY <1>5, <2>3, <3>0 DEF Credits, c
    <3>5. wk' = [wk EXCEPT !.todo = @ \ {c}, !.n = IF c \in wk.failed \ disk THEN @ + 1 ELSE @]
      BY <1>5, <2>3 DEF Credits, c
    <3>6. (IF c \in wk.failed \ disk THEN wk.n + 1 ELSE wk.n) \in Nat BY <1>0 DEF Worker
    <3>7. wk' \in Worker /\ wk'.pc = "credit" BY <1>0, <1>5, <3>5, <3>6 DEF Credits, Worker
    <3> QED BY <1>5, <2>1, <3>2, <3>3, <3>4, <3>7 DEF Credits
  <2> QED BY <2>2, <2>3
<1>6. CASE Waits
  <2>1. wk' \in Worker /\ wk'.pc \in {"idle", "list"} BY <1>0, <1>6 DEF Waits, Worker
  <2> QED BY <1>6, <2>1 DEF Waits
<1>7. CASE Lists
  <2>1. hist' \in Hist BY <1>7, GhostTyped DEF Lists
  <2>2. wk' \in Worker /\ wk'.pc \in {"idle", "next"}
    <3>1. wk' = Asleep \/ wk' = [wk EXCEPT !.pc = "next", !.todo = InState("pending")]
      BY <1>7 DEF Lists
    <3>2. InState("pending") \in SUBSET Clips BY InStates
    <3> QED BY <1>0, <3>1, <3>2 DEF Worker
  <2> QED BY <1>7, <2>1, <2>2 DEF Lists
<1>8. CASE Turns
  <2>1. hist' \in Hist BY <1>8, GhostTyped DEF Turns
  <2>2. wk' \in Worker /\ (wk'.pc \in {"take", "fetch", "count"} => wk'.todo # {})
    BY <1>0, <1>8 DEF Turns, Worker
  <2>3. job' \in Job BY <1>8 DEF Turns
  <2> QED BY <1>8, <2>1, <2>2, <2>3 DEF Turns
<1>9. CASE Takes
  <2>1. hist' \in Hist BY <1>9, GhostTyped DEF Takes
  <2>2. row' \in [Clips -> DlStates]
    <3>1. {c} \in SUBSET Clips BY <1>1, <1>9 DEF Takes
    <3>2. row' = row \/ row' = Put({c}, "skipped") \/ row' = Put({c}, "downloading")
      BY <1>9 DEF Takes, c
    <3> QED BY <3>1, <3>2, PutTyped, StatesAre
  <2>3. wk' \in Worker /\ (wk'.pc \in {"take", "fetch", "count"} => wk'.todo # {})
    <3>1. \/ wk' = [wk EXCEPT !.pc = "next", !.todo = @ \ {First(wk.todo)}]
          \/ wk' = [wk EXCEPT !.pc = "fetch"]
      BY <1>9 DEF Takes
    <3>2. wk.todo \ {First(wk.todo)} \in SUBSET Clips BY <1>0 DEF Worker
    <3>3. wk.todo # {} BY <1>0, <1>9 DEF Takes
    <3> QED BY <1>0, <3>1, <3>2, <3>3 DEF Worker
  <2> QED BY <1>9, <2>1, <2>2, <2>3 DEF Takes
<1>10. CASE Lands
  <2>1. PICK bad \in BOOLEAN :
          /\ row' = Put({c}, IF bad THEN "failed" ELSE "done")
          /\ disk' = IF bad THEN disk ELSE disk \cup {c}
          /\ wk' = [wk EXCEPT !.pc = "count", !.bad = bad]
    BY <1>10 DEF Lands, c
  <2>2. (IF bad THEN "failed" ELSE "done") \in DlStates BY StatesAre
  <2>3. row' \in [Clips -> DlStates]
    <3>1. {c} \in SUBSET Clips BY <1>1, <1>10 DEF Lands
    <3> QED BY <2>1, <2>2, <3>1, PutTyped
  <2>4. wk' \in Worker /\ wk'.todo # {} BY <1>0, <1>10, <2>1 DEF Lands, Worker
  <2>5. disk' \subseteq Clips BY <1>1, <1>10, <2>1 DEF Lands
  <2> QED BY <1>10, <2>3, <2>4, <2>5 DEF Lands
<1>11. CASE CountsLanded
  <2>0. 0 \in Nat OBVIOUS
  <2>1. job' \in Job BY <1>11 DEF CountsLanded, Job
  <2>2. wk' \in Worker /\ wk'.pc = "next" BY <1>0, <1>11, <2>0 DEF CountsLanded, Worker
  <2>3. ledger' \subseteq Clips BY <1>1, <1>11 DEF CountsLanded, c
  <2> QED BY <1>11, <2>1, <2>2, <2>3 DEF CountsLanded
<1>12. CASE CountsFailed
  <2>1. hist' \in Hist BY <1>12, GhostTyped DEF CountsFailed
  <2>2. PICK n \in {1, wk.n + 1} :
          IF n < Streak
          THEN /\ job' = [job EXCEPT !.failed = @ + 1]
               /\ wk' = [wk EXCEPT !.pc = "next", !.bad = FALSE, !.n = n, !.todo = @ \ {First(wk.todo)}]
          ELSE /\ job' = [job EXCEPT !.failed = @ + 1, !.phase = "failed"]
               /\ wk' = Asleep
    BY <1>12 DEF CountsFailed
  <2>3. n \in Nat BY <1>0 DEF Worker
  <2>4. job' \in Job
    <3>1. job.failed + 1 \in Int BY DEF Job
    <3>2. \/ job' = [job EXCEPT !.failed = @ + 1]
          \/ job' = [job EXCEPT !.failed = @ + 1, !.phase = "failed"]
      BY <2>2
    <3> QED BY <3>1, <3>2 DEF Job
  <2>5. wk' \in Worker /\ wk'.pc \in {"idle", "next"}
    <3>1. \/ wk' = [wk EXCEPT !.pc = "next", !.bad = FALSE, !.n = n, !.todo = @ \ {First(wk.todo)}]
          \/ wk' = Asleep
      BY <2>2
    <3>2. wk.todo \ {First(wk.todo)} \in SUBSET Clips BY <1>0 DEF Worker
    <3> QED BY <1>0, <2>3, <3>1, <3>2 DEF Worker
  <2> QED BY <1>12, <2>1, <2>4, <2>5 DEF CountsFailed
<1>13. CASE CountsBlocked
  <2>1. hist' \in Hist BY <1>13, GhostTyped DEF CountsBlocked
  <2>2. row' \in [Clips -> DlStates]
    BY <1>13, InStates, PutTyped, StatesAre DEF CountsBlocked
  <2>3. Cardinality(InState("pending")) \in Nat BY InStates, Counted
  <2>4. job' \in Job
    <3>1. job.failed + 1 \in Int /\ job.failed + 1 + Cardinality(InState("pending")) \in Int
      BY <2>3 DEF Job
    <3>2. \/ job' = [job EXCEPT !.phase = "done",
                               !.failed = @ + 1 + Cardinality(InState("pending"))]
          \/ job' = [job EXCEPT !.failed = @ + 1, !.phase = "failed"]
      BY <1>13 DEF CountsBlocked
    <3> QED BY <3>1, <3>2 DEF Job
  <2> QED BY <1>13, <2>1, <2>2, <2>4 DEF CountsBlocked
<1>14. CASE Raises
  <2>1. hist' \in Hist BY <1>14, OtherGhosts
  <2> QED BY <1>14, <2>1 DEF Raises
<1>15. CASE Restart
  <2>1. row' \in [Clips -> DlStates] BY <1>15, InStates, PutTyped, StatesAre DEF Restart
  <2>2. InHand \subseteq Clips BY <1>1 DEF InHand, c
  <2>3. hist' \in Hist BY <1>15, OtherGhosts
  <2> QED BY <1>15, <2>1, <2>2, <2>3 DEF Restart
<1> QED BY <1>3, <1>4, <1>5, <1>6, <1>7, <1>8, <1>9, <1>10, <1>11, <1>12, <1>13, <1>14, <1>15
        DEF ServerStep

LEMMA StepTyped == Ind /\ [Next]_vars => Ind'
<1> SUFFICES ASSUME Ind, [Next]_vars PROVE Ind' OBVIOUS
<1>1. CASE UNCHANGED vars BY <1>1 DEF vars, Ind, TypeOK, HandsFull
<1>2. ASSUME NEW clip \in Clips, Upload(clip) PROVE Ind'
  BY <1>2 DEF Upload, Ind, TypeOK, HandsFull
<1>3. CASE Lapse
  <2>1. job' \in Job BY <1>3 DEF Lapse, Ind, TypeOK, Job
  <2> QED BY <1>3, <2>1 DEF Lapse, Ind, TypeOK, HandsFull
<1> QED BY <1>1, <1>2, <1>3, PageTyped, CompanionTyped, HandlerTyped, ServerTyped DEF Next

LEMMA Typing == Spec => []Ind
BY StartsTyped, StepTyped, PTL DEF Spec

\* Every row, lease, thread and request stays what it is declared to be.
THEOREM TypeCorrect == Spec => []TypeOK
<1>1. Ind => TypeOK BY DEF Ind
<1> QED BY <1>1, Typing, PTL

-----------------------------------------------------------------------------
(* Back for good *)

\* A job the server has had back is pinned to it.
Pinned == hist.back => job.lock /\ ~LeaseLive

LEMMA SamePin ==
    ASSUME Pinned, hist'.back = hist.back, job'.lock = job.lock,
           job'.mode = job.mode \/ job'.mode = "server",
           job'.lease = job.lease \/ job'.lease # "live"
    PROVE  Pinned'
BY DEF Pinned, LeaseLive

LEMMA CrossingPin ==
    ASSUME Ind, NEW b, Crossing(b)
    PROVE  hist'.back = hist.back
BY DEF Crossing, Ind, TypeOK, Hist

LEMMA StepPin == Ind /\ Pinned /\ [Next]_vars => Pinned'
<1> SUFFICES ASSUME Ind, Pinned, [Next]_vars PROVE Pinned' OBVIOUS
<1> USE SamePin
<1>0. job \in Job /\ hist \in Hist BY DEF Ind, TypeOK
<1>1. CASE UNCHANGED vars BY <1>1 DEF vars
<1>2. ASSUME NEW t \in Tabs, PressChecks(t) \/ Cancel(t) \/ Pin(t) \/ Answers(t) PROVE Pinned'
  <2>1. CASE PressChecks(t) \/ Marks(t) BY <2>1, CrossingPin DEF PressChecks, Marks
  <2>2. CASE Cancel(t) BY <1>0, <2>2 DEF Cancel, Job
  <2>3. CASE Pin(t) BY <1>0, <2>3 DEF Pin, Job, Pinned, LeaseLive
  <2>4. CASE Clears(t) BY <1>0, <2>4 DEF Clears, Hist, Pinned
  <2>5. CASE Starts(t)
    <3>1. hist'.back = hist.back BY <2>5, OtherGhosts DEF Ind
    <3> QED BY <1>0, <2>5, <3>1 DEF Starts, Job
  <2>6. CASE Expires(t) BY <1>0, <2>6 DEF Expires, Job
  <2> QED BY <1>2, <2>1, <2>2, <2>3, <2>4, <2>5, <2>6 DEF Answers
<1>3. ASSUME NEW m \in Machines, Claim(m) PROVE Pinned'
  <2>1. hist'.back = hist.back BY <1>0, <1>3 DEF Claim, Hist
  <2> QED BY <1>3, <2>1 DEF Claim, Claimable, Pinned
<1>4. ASSUME NEW m \in Machines, Leave(m) \/ Companion(m) PROVE Pinned'
  BY <1>4 DEF Leave, Companion, Asks, Gone, NextClip, Fetched
<1>5. ASSUME NEW m \in Machines, Handler(m) PROVE Pinned'
  <2>1. CASE Manifest(m) \/ Say(m) \/ Moves(m) \/ Requeues(m)
    BY <2>1, CrossingPin DEF Manifest, Say, Moves, Requeues
  <2>2. CASE Counts(m)
    <3>1. job'.lock = job.lock /\ job'.mode = job.mode /\ job'.lease = job.lease
      BY <1>0, <2>2 DEF Counts, Job
    <3> QED BY <2>2, <3>1, CrossingPin DEF Counts
  <2>3. CASE EndsLease(m)
    <3>1. CASE job.mode = "local" /\ job.holder = m
      <4>1. job'.mode = "server" /\ job'.lock
        BY <1>0, <2>3, <3>1 DEF EndsLease, Ended, Job
      <4> QED BY <4>1 DEF Pinned, LeaseLive
    <3>2. CASE ~(job.mode = "local" /\ job.holder = m)
      <4>1. job'.lock = job.lock /\ job'.mode = job.mode /\ job'.lease = job.lease
        BY <1>0, <2>3, <3>2 DEF EndsLease, Ended, Job
      <4> QED BY <2>3, <4>1, CrossingPin DEF EndsLease
    <3> QED BY <3>1, <3>2
  <2> QED BY <1>5, <2>1, <2>2, <2>3 DEF Handler
<1>6. CASE \E c \in Clips : Upload(c) BY <1>6 DEF Upload
<1>7. CASE Lapse BY <1>0, <1>7 DEF Lapse, Job
<1>8. CASE ServerStep
  <2>1. CASE Picks
    <3>1. hist'.back = hist.back BY <1>0, <2>1 DEF Picks, Hist
    <3>2. job' = job \/ job' = Over_("cancelled") BY <2>1 DEF Picks
    <3> QED BY <1>0, <3>1, <3>2 DEF Over_, Job
  <2>2. CASE SetsUp
    <3>1. CASE wk.local
      <4>1. job'.mode = "server" /\ job'.lock BY <1>0, <2>2, <3>1 DEF SetsUp, Reclaimed, Job
      <4> QED BY <4>1 DEF Pinned, LeaseLive
    <3>2. CASE ~wk.local BY <2>2, <3>2 DEF SetsUp
    <3> QED BY <3>1, <3>2
  <2>3. CASE Credits
    <3>1. job'.lock = job.lock /\ job'.mode = job.mode /\ job'.lease = job.lease
      BY <1>0, <2>3 DEF Credits, Job
    <3>2. hist'.back = hist.back BY <2>3, OtherGhosts DEF Ind
    <3> QED BY <3>1, <3>2
  <2>4. CASE Waits BY <2>4 DEF Waits
  <2>5. CASE Lists \/ Turns \/ Takes
    <3>1. job' = job \/ job' = Over_("failed") \/ job' = Over_("done")
      BY <2>5 DEF Lists, Turns, Takes
    <3>2. hist'.back = hist.back BY <2>5, CrossingPin DEF Lists, Turns, Takes
    <3> QED BY <1>0, <3>1, <3>2 DEF Over_, Job
  <2>6. CASE Lands BY <2>6 DEF Lands
  <2>7. CASE CountsLanded BY <1>0, <2>7 DEF CountsLanded, Job
  <2>8. CASE CountsFailed \/ CountsBlocked
    <3>1. job'.lock = job.lock /\ job'.mode = job.mode /\ job'.lease = job.lease
      BY <1>0, <2>8 DEF CountsFailed, CountsBlocked, Job
    <3> QED BY <2>8, <3>1, CrossingPin DEF CountsFailed, CountsBlocked
  <2> QED BY <1>8, <2>1, <2>2, <2>3, <2>4, <2>5, <2>6, <2>7, <2>8 DEF ServerStep
<1>9. CASE Raises
  <2>1. hist'.back = hist.back BY <1>9, OtherGhosts DEF Ind
  <2> QED BY <1>0, <1>9, <2>1 DEF Raises, Over_, Job
<1>10. CASE Restart
  <2>1. hist'.back = hist.back BY <1>10, OtherGhosts DEF Ind
  <2> QED BY <1>10, <2>1 DEF Restart
<1> QED BY <1>1, <1>2, <1>3, <1>4, <1>5, <1>6, <1>7, <1>8, <1>9, <1>10 DEF Next

\* No machine holds a job again that the server has had back.
THEOREM StaysBack == Spec => []BackForGood
<1>1. Init => Pinned BY DEF Init, Pinned
<1>2. Pinned => BackForGood BY DEF Pinned, BackForGood
<1> QED BY <1>1, <1>2, StepPin, Typing, PTL DEF Spec

-----------------------------------------------------------------------------
(* One executor at a clip *)

\* Only a claim brings a lease to life.
LEMMA LeaseFalls ==
    ASSUME Ind, [Next]_vars, \A m \in Machines : ~Claim(m)
    PROVE  LeaseLive' => LeaseLive /\ job'.holder = job.holder
<1> SUFFICES ASSUME LeaseLive' PROVE LeaseLive /\ job'.holder = job.holder OBVIOUS
<1> USE DEF LeaseLive
<1>0. job \in Job BY DEF Ind, TypeOK
<1>1. ASSUME job' = job PROVE LeaseLive /\ job'.holder = job.holder BY <1>1
<1>2. ASSUME NEW p, job' = Over_(p) PROVE LeaseLive /\ job'.holder = job.holder
  BY <1>0, <1>2 DEF Over_, Job
<1>3. CASE UNCHANGED vars BY <1>1, <1>3 DEF vars
<1>4. ASSUME NEW t \in Tabs, PressChecks(t) \/ Cancel(t) \/ Pin(t) \/ Answers(t)
      PROVE  LeaseLive /\ job'.holder = job.holder
  <2>1. CASE PressChecks(t) \/ Marks(t) BY <1>1, <2>1 DEF PressChecks, Marks
  <2>2. CASE Clears(t)
    <3>1. job'.mode = "server" BY <1>0, <2>2 DEF Clears, FreshRun, Job
    <3> QED BY <3>1
  <2>3. CASE Cancel(t) BY <1>0, <2>3 DEF Cancel, Job
  <2>4. CASE Pin(t) BY <1>0, <2>4 DEF Pin, Job
  <2>5. CASE Starts(t) BY <1>0, <2>5 DEF Starts, Job
  <2>6. CASE Expires(t) BY <1>0, <2>6 DEF Expires, Job
  <2> QED BY <1>4, <2>1, <2>2, <2>3, <2>4, <2>5, <2>6 DEF Answers
<1>5. ASSUME NEW m \in Machines, Leave(m) \/ Companion(m)
      PROVE  LeaseLive /\ job'.holder = job.holder
  BY <1>1, <1>5 DEF Leave, Companion, Asks, Gone, NextClip, Fetched
<1>6. ASSUME NEW m \in Machines, Handler(m) PROVE LeaseLive /\ job'.holder = job.holder
  <2>1. CASE Manifest(m) \/ Say(m) \/ Moves(m) \/ Requeues(m)
    BY <1>1, <2>1 DEF Manifest, Say, Moves, Requeues
  <2>2. CASE Counts(m) BY <1>0, <2>2 DEF Counts, Job
  <2>3. CASE EndsLease(m) BY <1>0, <2>3 DEF EndsLease, Ended, Job
  <2> QED BY <1>6, <2>1, <2>2, <2>3 DEF Handler
<1>7. CASE \E c \in Clips : Upload(c) BY <1>1, <1>7 DEF Upload
<1>8. CASE Lapse BY <1>0, <1>8 DEF Lapse, Job
<1>9. CASE ServerStep
  <2>1. CASE Picks \/ Lists \/ Turns \/ Waits \/ Takes \/ Lands
    BY <1>1, <1>2, <2>1 DEF Picks, Lists, Turns, Waits, Takes, Lands
  <2>2. CASE SetsUp
    <3>1. job'.mode = "server" \/ job' = job BY <1>0, <2>2 DEF SetsUp, Reclaimed, Job
    <3> QED BY <1>1, <3>1
  <2>3. CASE Credits BY <1>0, <2>3 DEF Credits, Job
  <2>4. CASE CountsLanded BY <1>0, <2>4 DEF CountsLanded, Job
  <2>5. CASE CountsFailed \/ CountsBlocked BY <1>0, <2>5 DEF CountsFailed, CountsBlocked, Job
  <2> QED BY <1>9, <2>1, <2>2, <2>3, <2>4, <2>5 DEF ServerStep
<1>10. CASE Raises BY <1>2, <1>10 DEF Raises
<1>11. CASE Restart BY <1>1, <1>11 DEF Restart
<1> QED BY <1>3, <1>4, <1>5, <1>6, <1>7, <1>8, <1>9, <1>10, <1>11 DEF Next

\* While no claim has been granted since the worker picked the job, no machine
\* holds it.
Unclaimed == wk.pc # "idle" /\ ~hist.since => ~LeaseLive

\* What the ghost keeps of "since", and that it never forgets a crossing.
LEMMA GhostKeeps ==
    ASSUME Ind, NEW b, Crossing(b) \/ TakenBack(b) \/ UNCHANGED hist
    PROVE  hist'.since = hist.since /\ (Clean' => Clean)
BY DEF Ind, TypeOK, Hist, Crossing, TakenBack, Clean

LEMMA CrossingTells == ASSUME Ind, NEW b, Crossing(b), Clean' PROVE ~b
BY DEF Ind, TypeOK, Hist, Crossing, Clean

\* The worker's steps but Picks go on from where it was.
LEMMA StepUnclaimed == Ind /\ Unclaimed /\ [Next]_vars => Unclaimed'
<1> SUFFICES ASSUME Ind, Unclaimed, [Next]_vars PROVE Unclaimed' OBVIOUS
<1>0. hist \in Hist /\ wk \in Worker BY DEF Ind, TypeOK
<1>1. ASSUME NEW m \in Machines, Claim(m) PROVE Unclaimed'
  BY <1>0, <1>1 DEF Claim, Hist, Unclaimed
<1>2. ASSUME \A m \in Machines : ~Claim(m), ~Picks PROVE Unclaimed'
  <2>1. LeaseLive' => LeaseLive BY <1>2, LeaseFalls
  <2>2. ASSUME UNCHANGED <<wk, hist>> PROVE Unclaimed' BY <2>1, <2>2 DEF Unclaimed
  <2>3. ASSUME hist'.since = hist.since, wk'.pc # "idle" => wk.pc # "idle" PROVE Unclaimed'
    BY <2>1, <2>3 DEF Unclaimed
  <2>4. CASE UNCHANGED vars BY <2>2, <2>4 DEF vars
  <2>5. ASSUME NEW t \in Tabs, PressChecks(t) \/ Cancel(t) \/ Pin(t) \/ Answers(t)
        PROVE  Unclaimed'
    <3>1. CASE Clears(t) BY <1>0, <2>3, <3>1 DEF Clears, Hist
    <3>2. CASE Marks(t) BY <2>3, <3>2, GhostKeeps DEF Marks
    <3>3. CASE Starts(t)
      <4>1. hist'.since = hist.since BY <3>3, OtherGhosts DEF Ind
      <4> QED BY <2>3, <3>3, <4>1 DEF Starts
    <3> QED BY <2>2, <2>5, <3>1, <3>2, <3>3
            DEF PressChecks, Cancel, Pin, Answers, Expires
  <2>6. ASSUME NEW m \in Machines, Leave(m) \/ Companion(m) PROVE Unclaimed'
    BY <2>2, <2>6 DEF Leave, Companion, Asks, Gone, NextClip, Fetched
  <2>7. ASSUME NEW m \in Machines, Handler(m) PROVE Unclaimed'
    <3>1. wk' = wk BY <2>7 DEF Handler, Manifest, Say, Moves, Counts, Requeues, EndsLease
    <3>2. hist'.since = hist.since
      BY <2>7, GhostKeeps DEF Handler, Manifest, Say, Moves, Counts, Requeues, EndsLease
    <3> QED BY <2>3, <3>1, <3>2
  <2>8. CASE (\E c \in Clips : Upload(c)) \/ Lapse BY <2>2, <2>8 DEF Upload, Lapse
  <2>9. CASE ServerStep \/ Raises \/ Restart
    <3>1. CASE Restart
      <4>1. hist'.since = hist.since BY <3>1, OtherGhosts DEF Ind
      <4> QED BY <2>3, <3>1, <4>1, RestTyped DEF Restart
    <3>2. CASE ServerStep \/ Raises
      <4>1. wk.pc # "idle"
        BY <1>2, <3>2 DEF ServerStep, SetsUp, Credits, Waits, Lists, Turns, Takes, Lands,
           CountsLanded, CountsFailed, CountsBlocked, Raises, At
      <4>2. hist'.since = hist.since
        BY <1>2, <3>2, GhostKeeps, OtherGhosts
           DEF ServerStep, SetsUp, Waits, Lists, Turns, Takes, Lands,
           CountsLanded, CountsFailed, CountsBlocked, Ind
      <4> QED BY <2>3, <4>1, <4>2
    <3> QED BY <2>9, <3>1, <3>2
  <2> QED BY <1>2, <2>4, <2>5, <2>6, <2>7, <2>8, <2>9 DEF Next
<1>3. CASE Picks
  <2>1. job'.mode = job.mode /\ job'.lease = job.lease
    BY <1>3 DEF Picks, Over_, Ind, TypeOK, Job
  <2> QED BY <1>3, <2>1 DEF Picks, Unclaimed, LeaseLive
<1> QED BY <1>1, <1>2, <1>3

\* A step that leaves the worker at its clip, the clip in flight, and nobody's
\* list longer.
LEMMA SameOneExecutor ==
    ASSUME OneExecutor, Clean' => Clean, LeaseLive' => LeaseLive /\ job'.holder = job.holder,
           wk'.pc = "fetch" => wk.pc = "fetch" /\ wk'.todo = wk.todo,
           Clean' /\ wk.pc = "fetch" /\ row[First(wk.todo)] = "downloading"
               => row'[First(wk.todo)] = "downloading",
           \A m \in Machines :
               Clean' /\ wk.pc = "fetch" /\ First(wk.todo) \notin run[m].todo \cup call[m].todo
                   /\ row[First(wk.todo)] = "downloading"
               => First(wk.todo) \notin run'[m].todo \cup call'[m].todo
    PROVE  OneExecutor'
BY DEF OneExecutor

\* A request that ends takes a list away, or leaves the rest of it.
LEMMA AnsweredShrinks ==
    ASSUME Ind, NEW m \in Machines, NEW asked, NEW next \in Run, NEW c,
           Answered(m, asked, next),
           c \notin run[m].todo => c \notin next.todo
    PROVE  \A x \in Machines : c \notin run[x].todo \cup call[x].todo
                                  => c \notin run'[x].todo \cup call'[x].todo
<1>1. call' = [call EXCEPT ![m] = NoCall] BY DEF Answered
<1>2. \/ run' = run
      \/ run' = [run EXCEPT ![m] = IF run[m].pc = asked THEN next ELSE run[m]]
  BY DEF Answered
<1>3. run \in [Machines -> Run] /\ call \in [Machines -> Call] BY DEF Ind, TypeOK
<1>4. NoCall.todo = {} BY DEF NoCall
<1>5. ASSUME NEW x \in Machines, c \notin run[x].todo \cup call[x].todo
      PROVE  c \notin run'[x].todo \cup call'[x].todo
  <2>1. c \notin call'[x].todo BY <1>1, <1>3, <1>4, <1>5
  <2>2. c \notin run'[x].todo BY <1>2, <1>3, <1>5
  <2> QED BY <2>1, <2>2
<1> QED BY <1>5

LEMMA HandlerOneExecutor ==
    ASSUME Ind, OneExecutor, NEW m \in Machines, Handler(m), LeaseLive' => LeaseLive /\ job'.holder = job.holder
    PROVE  OneExecutor'
<1> DEFINE c == First(wk.todo)
<1>0. /\ run \in [Machines -> Run] /\ call \in [Machines -> Call]
      /\ RunFull(run[m]) /\ CallFull(call[m]) /\ row \in [Clips -> DlStates]
      /\ wk.pc = "fetch" => c \in Clips
  <2>1. wk.pc = "fetch" => wk.todo \in SUBSET Clips /\ wk.todo # {} BY DEF Ind, TypeOK, HandsFull, Worker
  <2> QED BY <2>1, FirstIsOne DEF Ind, TypeOK, HandsFull
<1>1. wk' = wk BY DEF Handler, Manifest, Say, Moves, Counts, Requeues, EndsLease
<1>2. Clean' => Clean
  BY GhostKeeps DEF Handler, Manifest, Say, Moves, Counts, Requeues, EndsLease
<1>3. ASSUME NEW next \in Run, NEW asked, Answered(m, asked, next),
             row[c] = "downloading" /\ c \notin run[m].todo => c \notin next.todo
      PROVE  \A x \in Machines :
                c \notin run[x].todo \cup call[x].todo /\ row[c] = "downloading"
                  => c \notin run'[x].todo \cup call'[x].todo
  BY <1>3, AnsweredShrinks
<1>4. ASSUME NEW at, NEW n, run' = run,
             \/ call' = [call EXCEPT ![m].at = at]
             \/ call' = [call EXCEPT ![m].at = at, ![m].n = n]
      PROVE  \A x \in Machines : run'[x].todo = run[x].todo /\ call'[x].todo = call[x].todo
  BY <1>0, <1>4 DEF Call
<1>5. NextOf(m) \in Run /\ NextOf(m).todo \subseteq run[m].todo
  <2>1. run[m].todo \ {First(call[m].todo)} \in SUBSET Clips BY <1>0 DEF Run
  <2> QED BY <2>1, AtWorkTyped DEF NextOf, AtWork
<1> HIDE DEF c
<1>6. ASSUME wk.pc = "fetch" /\ row[c] = "downloading" /\ Clean' => row'[c] = "downloading",
             \A x \in Machines :
                Clean' /\ wk.pc = "fetch" /\ c \notin run[x].todo \cup call[x].todo
                   /\ row[c] = "downloading"
                  => c \notin run'[x].todo \cup call'[x].todo
      PROVE  OneExecutor'
  BY <1>1, <1>2, <1>6, SameOneExecutor DEF c
<1>7. CASE Manifest(m)
  <2> DEFINE dups == InState("pending") \cap Known
  <2>1. row' = Put(dups, "skipped") BY <1>7 DEF Manifest
  <2>2. row[c] = "downloading" /\ wk.pc = "fetch" => row'[c] = "downloading"
    BY <1>0, <2>1 DEF Put, InState
  <2>3. Owed \in SUBSET Clips /\ (row[c] = "downloading" => c \notin Owed) BY DEF Owed, InState
  <2>4. CASE Unsettled \ dups = {}
    <3>1. call' = [call EXCEPT ![m].at = "sweep"] /\ run' = run BY <1>7, <2>4 DEF Manifest
    <3> QED BY <1>4, <1>6, <2>2, <3>1
  <2>5. CASE Unsettled \ dups # {}
    <3>1. Answered(m, "manifest", AtWork(Owed)) BY <1>7, <2>5 DEF Manifest
    <3>2. AtWork(Owed) \in Run /\ AtWork(Owed).todo = Owed BY <2>3, AtWorkTyped DEF AtWork
    <3> QED BY <1>3, <1>6, <2>2, <2>3, <3>1, <3>2
  <2> QED BY <2>4, <2>5
<1>8. CASE Say(m)
  <2>1. row' = Put({First(call[m].todo)}, "downloading") BY <1>8 DEF Say
  <2>2. row[c] = "downloading" /\ wk.pc = "fetch" => row'[c] = "downloading"
    BY <1>0, <2>1 DEF Put
  <2> DEFINE r == [run[m] EXCEPT !.pc = "fetch"]
  <2>3. r \in Run /\ r.todo = run[m].todo BY <1>0 DEF Run
  <2>4. Answered(m, "say", r) BY <1>8 DEF Say
  <2> HIDE DEF r
  <2> QED BY <1>3, <1>6, <2>2, <2>3, <2>4
<1>9. CASE Moves(m)
  <2> DEFINE d == First(call[m].todo)
  <2>1. d \in call[m].todo
    <3>1. call[m].todo \in SUBSET Clips /\ call[m].todo # {} BY <1>0, <1>9 DEF Moves, Call, CallFull
    <3> QED BY <3>1, FirstIsOne
  <2>2. CASE row[d] \in Unfinished
    <3>1. row' = Put({d}, IF call[m].bad THEN "failed" ELSE "done") BY <1>9, <2>2 DEF Moves
    <3>2. call' = [call EXCEPT ![m].at = "count"] /\ run' = run BY <1>9, <2>2 DEF Moves
    <3>3. ASSUME Clean', wk.pc = "fetch" PROVE d # c
      <4>1. ~TooLate(m) BY <1>9, <3>3, CrossingTells DEF Moves
      <4> QED BY <1>2, <2>1, <3>3, <4>1 DEF TooLate, OneExecutor, c
    <3>4. wk.pc = "fetch" /\ row[c] = "downloading" /\ Clean' => row'[c] = "downloading"
      BY <1>0, <3>1, <3>3 DEF Put
    <3> QED BY <1>4, <1>6, <3>2, <3>4
  <2>3. CASE row[d] \notin Unfinished
    <3>1. Answered(m, "report", NextOf(m)) /\ row' = row BY <1>9, <2>3 DEF Moves
    <3> QED BY <1>3, <1>5, <1>6, <3>1
  <2> QED BY <2>2, <2>3
<1>10. CASE Counts(m)
  <2>1. row' = row BY <1>10 DEF Counts
  <2>2. CASE Unsettled = {}
    <3>1. call' = [call EXCEPT ![m].at = "sweep"] /\ run' = run BY <1>10, <2>2 DEF Counts
    <3> QED BY <1>4, <1>6, <2>1, <3>1
  <2>3. CASE Unsettled # {}
    <3>1. Answered(m, "report", NextOf(m)) BY <1>10, <2>3 DEF Counts
    <3> QED BY <1>3, <1>5, <1>6, <2>1, <3>1
  <2> QED BY <2>2, <2>3
<1>11. CASE Requeues(m)
  <2>1. row' = Put(InState("failed"), "pending") BY <1>11 DEF Requeues
  <2>2. row[c] = "downloading" /\ wk.pc = "fetch" => row'[c] = "downloading"
    BY <1>0, <2>1 DEF Put, InState
  <2>3. call' = [call EXCEPT ![m].at = "end", ![m].n = Cardinality(InState("failed"))] /\ run' = run
    BY <1>11 DEF Requeues
  <2> QED BY <1>4, <1>6, <2>2, <2>3
<1>12. CASE EndsLease(m)
  <2>1. row' = row BY <1>12 DEF EndsLease
  <2>2. CASE call[m].todo = {}
    <3>1. Answered(m, "manifest", AtWork({})) BY <1>12, <2>2 DEF EndsLease
    <3>2. AtWork({}) \in Run /\ AtWork({}).todo = {} BY AtWorkTyped DEF AtWork
    <3> QED BY <1>3, <1>6, <2>1, <3>1, <3>2
  <2>3. CASE call[m].todo # {}
    <3>1. Answered(m, "report", NextOf(m)) BY <1>12, <2>3 DEF EndsLease
    <3> QED BY <1>3, <1>5, <1>6, <2>1, <3>1
  <2> QED BY <2>2, <2>3
<1> QED BY <1>7, <1>8, <1>9, <1>10, <1>11, <1>12 DEF Handler

\* The worker takes a clip while no claim has been granted since it picked the
\* job, or the ghost remembers.
LEMMA ServerOneExecutor ==
    ASSUME Ind, OneExecutor, Unclaimed, ServerStep \/ Raises \/ Restart,
           LeaseLive' => LeaseLive /\ job'.holder = job.holder
    PROVE  OneExecutor'
<1>1. CASE Takes
  <2> DEFINE c == First(wk.todo)
  <2>1. c \in Clips
    <3>1. wk.todo \in SUBSET Clips /\ wk.todo # {}
      BY <1>1 DEF Takes, At, Ind, TypeOK, HandsFull, Worker
    <3> QED BY <3>1, FirstIsOne
  <2>2. ASSUME Clean' PROVE ~LeaseLive
    <3>1. ~hist.since BY <1>1, <2>2, CrossingTells DEF Takes
    <3> QED BY <1>1, <3>1 DEF Takes, At, Unclaimed
  <2>3. ASSUME wk'.pc = "fetch" PROVE wk'.todo = wk.todo /\ row' = Put({c}, "downloading")
    BY <1>1, <2>3 DEF Takes, Ind, TypeOK, Worker
  <2>4. Put({c}, "downloading")[c] = "downloading" BY <2>1 DEF Put
  <2> QED BY <2>2, <2>3, <2>4 DEF OneExecutor
<1>2. CASE ~Takes
  <2>1. wk'.pc # "fetch"
    <3>0. wk \in Worker /\ Asleep \in Worker /\ Asleep.pc = "idle" BY RestTyped DEF Ind, TypeOK
    <3>1. CASE Picks \/ Waits \/ Raises \/ Restart
      BY <3>0, <3>1 DEF Picks, Waits, Raises, Restart, At, Worker
    <3>2. CASE SetsUp \/ Credits BY <3>0, <3>2 DEF SetsUp, Credits, At, Worker
    <3>3. CASE Lists \/ Turns BY <3>0, <3>3 DEF Lists, Turns, At, Worker
    <3>4. CASE Lands \/ CountsLanded BY <3>0, <3>4 DEF Lands, CountsLanded, Worker
    <3>5. CASE CountsFailed \/ CountsBlocked BY <3>0, <3>5 DEF CountsFailed, CountsBlocked, Worker
    <3> QED BY <1>2, <3>1, <3>2, <3>3, <3>4, <3>5 DEF ServerStep
  <2> QED BY <2>1 DEF OneExecutor
<1> QED BY <1>1, <1>2

LEMMA StepOneExecutor == Ind /\ Unclaimed /\ OneExecutor /\ [Next]_vars => OneExecutor'
<1> SUFFICES ASSUME Ind, Unclaimed, OneExecutor, [Next]_vars PROVE OneExecutor' OBVIOUS
<1>0. /\ run \in [Machines -> Run] /\ call \in [Machines -> Call] /\ hist \in Hist
      /\ \A m \in Machines : RunFull(run[m]) /\ CallFull(call[m])
  BY DEF Ind, TypeOK, HandsFull
<1>1. ASSUME NEW m \in Machines, Claim(m) PROVE OneExecutor'
  <2>1. hist'.crossed = (hist.crossed \/ call[m] # NoCall) BY <1>0, <1>1 DEF Claim, Hist
  <2>2. Clean' => Clean /\ call[m] = NoCall BY <2>1 DEF Clean
  <2>3. run[m].todo = {} BY <1>0, <1>1 DEF Claim, RunFull
  <2>4. Clean' => call'[m].todo = {} BY <1>1, <2>2 DEF Claim, NoCall
  <2>5. run'[m].todo = {} BY <1>0, <1>1, <2>3 DEF Claim, Run
  <2>6. job'.holder = m BY <1>1 DEF Claim, Ind, TypeOK, Job
  <2> QED BY <1>1, <2>2, <2>4, <2>5, <2>6 DEF Claim, OneExecutor
<1>2. ASSUME \A m \in Machines : ~Claim(m) PROVE OneExecutor'
  <2>1. LeaseLive' => LeaseLive /\ job'.holder = job.holder BY <1>2, LeaseFalls
  <2>2. ASSUME UNCHANGED <<row, wk, run, call>>, Clean' => Clean PROVE OneExecutor'
    BY <2>1, <2>2, SameOneExecutor
  <2>3. CASE UNCHANGED vars BY <2>2, <2>3 DEF vars, Clean
  <2>4. ASSUME NEW t \in Tabs, PressChecks(t) \/ Cancel(t) \/ Pin(t) \/ Answers(t) PROVE OneExecutor'
    <3>1. CASE Marks(t)
      <4>1. wk.pc = "fetch" => First(wk.todo) \in Clips
        BY FirstIsOne DEF Ind, TypeOK, HandsFull, Worker
      <4>2. row[First(wk.todo)] = "downloading" /\ wk.pc = "fetch"
              => row'[First(wk.todo)] = "downloading"
        BY <3>1, <4>1 DEF Marks, Put, InState
      <4>3. Clean' => Clean BY <3>1, GhostKeeps DEF Marks
      <4> QED BY <2>1, <3>1, <4>2, <4>3, SameOneExecutor DEF Marks
    <3>2. CASE Clears(t)
      <4>1. Clean' => Clean BY <1>0, <3>2 DEF Clears, Hist, Clean
      <4> QED BY <2>2, <3>2, <4>1 DEF Clears
    <3>3. CASE Starts(t)
      <4>1. Clean' => Clean BY <3>3, OtherGhosts DEF Ind
      <4> QED BY <2>2, <3>3, <4>1 DEF Starts
    <3> QED BY <2>2, <2>4, <3>1, <3>2, <3>3
            DEF PressChecks, Cancel, Pin, Answers, Expires, Clean
  <2>5. ASSUME NEW m \in Machines, Leave(m) \/ Companion(m) PROVE OneExecutor'
    <3>1. UNCHANGED <<row, wk, hist>>
      BY <2>5 DEF Leave, Companion, Asks, Gone, NextClip, Fetched
    <3>2. \A x \in Machines : run'[x].todo \cup call'[x].todo \subseteq run[x].todo \cup call[x].todo
      <4>1. CASE Leave(m) \/ Gone(m) BY <1>0, <4>1 DEF Leave, Gone, Idle
      <4>2. CASE Asks(m) BY <1>0, <4>2 DEF Asks, Call
      <4>3. CASE NextClip(m) BY <1>0, <4>3 DEF NextClip, Idle, Run
      <4>4. CASE Fetched(m) BY <1>0, <4>4 DEF Fetched, Run
      <4> QED BY <2>5, <4>1, <4>2, <4>3, <4>4 DEF Companion
    <3> QED BY <2>1, <3>1, <3>2, SameOneExecutor DEF Clean
  <2>6. CASE (\E c \in Clips : Upload(c)) \/ Lapse BY <2>2, <2>6 DEF Upload, Lapse, Clean
  <2> QED BY <1>2, <2>1, <2>3, <2>4, <2>5, <2>6, HandlerOneExecutor, ServerOneExecutor DEF Next
<1> QED BY <1>1, <1>2

\* The clip in the worker's hands is on no list of the machine that holds the job,
\* and nobody else settles it before the worker does.
THEOREM OneDownloadAtATime == Spec => []OneExecutor
<1>1. Init => Unclaimed /\ OneExecutor BY RestTyped DEF Init, Unclaimed, OneExecutor
<1> QED BY <1>1, StepUnclaimed, StepOneExecutor, Typing, PTL DEF Spec

=============================================================================
