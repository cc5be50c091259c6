----------------------------- MODULE IngestBatch -----------------------------
(***************************************************************************)
(* One batch of dropped b-roll clips: the ledger of                         *)
(* broll/web/app/ingest_batches.py and the routes over it, and the machines *)
(* (broll_ingest.py) that hold the batch by a lease, describe its clips,    *)
(* upload them and say so.                                                  *)
(*                                                                          *)
(* A request is checked when it arrives (_leaseholder_or_410) and writes    *)
(* later, in one transaction that names the row alone: whatever other       *)
(* requests commit lies in between.  A caller gives up after a timeout, and *)
(* its request still writes.                                                *)
(***************************************************************************)
EXTENDS Naturals, FiniteSets

CONSTANTS
    Items,        \* clips of the batch, each of a name of its own
    Machines,     \* the editor's computers
    Requests,     \* requests the app serves at a time
    Nobody,       \* also: no clip, no row, no request
    MaxAttempts,  \* MAX_ITEM_ATTEMPTS
    Suffixes,     \* bound: names A, A_2, ... a clip may be given
    Runs, Clicks, Mishaps,   \* bounds; the last also bounds
    Restarts                 \* clips put down for the gate

ASSUME IngestAssumption ==
    /\ Nobody \notin Items \cup Machines \cup Requests \cup (Items \X Suffixes)
    /\ MaxAttempts \in Nat \ {0}
    /\ {Runs, Clicks, Mishaps, Restarts} \cup Suffixes \subseteq Nat

VARIABLES
    batch,   \* the ingest_batches row
    item,    \* the ingest_items rows
    rows,    \* the videos rows, by clip and suffix of the name
    nas,     \* what is uploaded under that name
    req,     \* requests being served
    ing,     \* each machine's BrollIngestor
    hist,    \* ghost: what overtook what, and which clips came apart
    left     \* what is left of each bound

ledger == <<batch, item, rows>>
vars == <<ledger, nas, req, ing, hist, left>>

-----------------------------------------------------------------------------
BatchTerminal == {"done", "done_with_errors", "cancelled", "failed"}
BatchStates == {"queued", "claimed", "running"} \cup BatchTerminal
\* ITEM_PROGRESS; "describing" is the work before it too.
Progress == <<"pending", "describing", "indexed", "uploading", "proxies_live", "live">>
Rank(s) == CHOOSE k \in DOMAIN Progress : Progress[k] = s
ItemTerminal == {"live", "cancelled"}
\* Defective: a published clip that owes its original counts as unfinished.
CancelKeepsLive == {"live", "cancelled"}
CancelKeeps == {"live", "proxies_live", "cancelled"}
ItemStates == {Progress[k] : k \in DOMAIN Progress} \cup {"failed", "cancelled"}

Slots == Items \X Suffixes
Local == [has : BOOLEAN, unclaimed : BOOLEAN, stage : [Items -> ItemStates],
          tries : [Items -> Nat], row : [Items -> Slots \cup {Nobody}],
          told : SUBSET Items, up : SUBSET Items, staged : SUBSET Items,
          refused : SUBSET Items, queue : BOOLEAN,
          doing : Items \cup {Nobody}, step : {"idle", "describe", "hand", "fail"},
          at : Requests \cup {Nobody}]

Ops == {"none", "list", "claim", "cancel", "retry", "beat", "status", "result", "uploaded",
        "release", "publish"}

TypeOK ==
    /\ batch \in [state : BatchStates, machine : Machines \cup {Nobody},
                  lease : {"none", "live", "lapsed"}, cancel : BOOLEAN]
    /\ item \in [Items -> [state : ItemStates, row : Slots \cup {Nobody}, tries : Nat]]
    /\ rows \in [Slots -> [status : {"absent", "ingesting", "indexed"}, described : BOOLEAN]]
    /\ nas \in [Slots -> {"nothing", "proxies", "all"}]
    /\ \A t \in Requests : req[t].op \in Ops
    /\ ing \in [Machines -> Local]
    \* A row belongs to one clip, and a clip that is in the archive has its row.
    /\ \A i \in Items : item[i].row # Nobody =>
          item[i].row[1] = i /\ rows[item[i].row].status # "absent"
    /\ \A m \in Machines : ing[m].at # Nobody => req[ing[m].at].op # "none"
    /\ hist \in [late : SUBSET Items, twice : BOOLEAN, apart : SUBSET Items,
                 again : SUBSET Items, wedged : BOOLEAN]
    /\ left \in [runs : 0..Runs, clicks : 0..Clicks, mishaps : 0..Mishaps, restarts : 0..Restarts]

NoRow == [status |-> "absent", described |-> FALSE]
Free == [op |-> "none"]
Forgot(m) == [ing[m] EXCEPT !.has = FALSE, !.unclaimed = FALSE, !.queue = FALSE,
                            !.up = {}, !.staged = {}, !.told = {}, !.refused = {}, !.doing = Nobody,
                            !.step = "idle", !.at = Nobody,
                            !.stage = [i \in Items |-> "pending"],
                            !.tries = [i \in Items |-> 0],
                            !.row = [i \in Items |-> Nobody]]

Init ==
    /\ batch = [state |-> "queued", machine |-> Nobody, lease |-> "none", cancel |-> FALSE]
    /\ item = [i \in Items |-> [state |-> "pending", row |-> Nobody, tries |-> 0]]
    /\ rows = [s \in Slots |-> NoRow] /\ nas = [s \in Slots |-> "nothing"]
    /\ req = [t \in Requests |-> Free]
    /\ ing = [m \in Machines |->
                [has |-> FALSE, unclaimed |-> FALSE, stage |-> [i \in Items |-> "pending"],
                 tries |-> [i \in Items |-> 0], row |-> [i \in Items |-> Nobody],
                 told |-> {}, up |-> {}, staged |-> {}, refused |-> {}, queue |-> FALSE,
                 doing |-> Nobody, step |-> "idle", at |-> Nobody]]
    /\ hist = [late |-> {}, twice |-> FALSE, apart |-> {}, again |-> {}, wedged |-> FALSE]
    /\ left = [runs |-> Runs, clicks |-> Clicks, mishaps |-> Mishaps, restarts |-> Restarts]

Spend(what) == left[what] > 0 /\ left' = [left EXCEPT ![what] = @ - 1]
Over == batch.state \in BatchTerminal
LeaseLive == batch.lease = "live"
Becomes(t, r) == req' = [req EXCEPT ![t] = r]
Ends(t) == Becomes(t, Free)

-----------------------------------------------------------------------------
(* The ledger's transactions.                                               *)

Owed == \E i \in Items : item[i].state \in {"failed", "proxies_live"}

\* Defective: only what failed is owed, as before wire-1.
VerdictPlain(state) ==
    IF state = "done" /\ \E i \in Items : item[i].state = "failed" THEN "done_with_errors" ELSE state
\* release(): what is over, half-made rows go with a cancel, and with a row the
\* clip's reference to it.
Verdict(state) == IF state = "done" /\ Owed THEN "done_with_errors" ELSE state
HalfMade == {s \in Slots : rows[s].status = "ingesting"}
\* Defective: rows go, references to them stay.
DroppedDangling(state, S) ==
    IF state # "cancelled" THEN UNCHANGED <<item, rows>>
    ELSE /\ rows' = [s \in Slots |-> IF s \in S THEN NoRow ELSE rows[s]]
         /\ item' = [i \in Items |->
              [item[i] EXCEPT !.state = IF @ \in CancelKeeps THEN @ ELSE "cancelled"]]
Dropped(state, S) ==
    IF state # "cancelled" THEN UNCHANGED <<item, rows>>
    ELSE LET gone == {item[i].row : i \in Items} \cap S
         IN /\ rows' = [s \in Slots |-> IF s \in gone THEN NoRow ELSE rows[s]]
            /\ item' = [i \in Items |->
                 [item[i] EXCEPT
                    !.row = IF @ \in gone THEN Nobody ELSE @,
                    !.state = IF @ \in CancelKeeps THEN @ ELSE "cancelled"]]
\* Defective: the batch is ended and its half-made rows stay.
FinishOnly(state) ==
    /\ batch' = [batch EXCEPT !.state = Verdict(state), !.lease = "none"]
    /\ UNCHANGED <<item, rows>>
Finish(state) ==
    /\ batch' = [batch EXCEPT !.state = Verdict(state), !.lease = "none"]
    /\ Dropped(state, HalfMade)

\* expire_stale_leases: the look for stopped batches, then the writes.
Stale == batch.state \in {"claimed", "running"} /\ batch.lease = "lapsed"
Look(op, who) == [op |-> op, who |-> who, step |-> "sweep",
                  stale |-> Stale, stopped |-> Stale /\ batch.cancel]
Sweep(r) ==
    LET back == r.stale /\ ~r.stopped /\ Stale IN
    /\ hist' = [hist EXCEPT !.wedged = @ \/ (back /\ batch.cancel)]
    /\ IF r.stopped THEN Finish("cancelled")
       ELSE /\ batch' = IF back THEN [batch EXCEPT !.state = "queued", !.lease = "none"] ELSE batch
            /\ UNCHANGED <<item, rows>>

-----------------------------------------------------------------------------
(* What a machine makes of an answer: "ok", "no" (any refusal but 410) or   *)
(* "lost" (no answer).  410 makes it forget the batch.                      *)

Done(rec) == [rec EXCEPT !.at = Nobody, !.doing = Nobody, !.step = "idle"]
Then(rec, step) == [rec EXCEPT !.at = Nobody, !.step = step]

After(m, rec, r, answer) ==
    CASE r.op = "status" -> {IF r.arg = "describing" THEN Then(rec, "describe") ELSE Done(rec)}
      [] r.op = "result" ->
           {IF answer = "ok" THEN Then(rec, "hand")
            ELSE [Then(rec, "fail") EXCEPT !.told = IF answer = "no" THEN @ \ {r.i} ELSE @]}
      [] r.op \in {"uploaded", "publish"} ->
           IF answer = "no" /\ r.arg
           THEN {Then(rec, "fail")} \cup {q \in {[Done(rec) EXCEPT !.refused = @ \cup {r.i}]} :
                                           r.i \notin rec.refused}
           ELSE {IF answer # "ok" THEN Done(rec)
                 ELSE IF r.arg THEN [Done(rec) EXCEPT !.stage[r.i] = "live"]
                 ELSE [Done(rec) EXCEPT !.staged = @ \cup {r.i}]}
      [] r.op = "release" -> {Forgot(m)}
      [] OTHER -> {Done(rec)}

\* The answer reaches whoever still waits for it.
Answers(t, answer) ==
    LET r == req[t] IN
    IF ing[r.who].at # t THEN UNCHANGED ing
    ELSE \E rec \in After(r.who, ing[r.who], r, answer) : ing' = [ing EXCEPT ![r.who] = rec]

\* _leaseholder_or_410
Holds(m) == ~Over /\ ~batch.cancel /\ batch.machine = m /\ LeaseLive

\* A call of m's worker, which leaves m at rec: it arrives and is checked, is
\* refused with 410, or never arrives.
Request(op, m, i, arg, rec) ==
    IF op = "release" THEN [op |-> op, who |-> m, arg |-> arg]
    ELSE [op |-> op, who |-> m, i |-> i, arg |-> arg, was |-> item[i].state, row |-> item[i].row,
          fresh |-> batch.state = "claimed", tries |-> rec.tries[i]]
\* Lost: that a clip failed, or the answer that it is in the archive early.
Unsaid(r) ==
    IF \/ r.op = "status" /\ r.arg = "failed"
       \/ r.op \in {"uploaded", "publish"} /\ ~r.arg
    THEN [hist EXCEPT !.apart = @ \cup {r.i}] ELSE hist
Call(m, rec, op, i, arg) ==
    LET r == Request(op, m, i, arg, rec) IN
    /\ ing[m].has /\ ~ing[m].unclaimed /\ ing[m].at = Nobody
    /\ \/ /\ Holds(m)
          /\ \E t \in Requests : /\ req[t] = Free /\ Becomes(t, r)
                                 /\ ing' = [ing EXCEPT ![m] = [rec EXCEPT !.at = t]]
          /\ UNCHANGED <<hist, left>>
       \/ ~Holds(m) /\ ing' = [ing EXCEPT ![m] = Forgot(m)] /\ UNCHANGED <<req, hist, left>>
       \/ /\ Spend("mishaps") /\ hist' = Unsaid(r)
          /\ \E next \in After(m, rec, r, "lost") : ing' = [ing EXCEPT ![m] = next]
          /\ UNCHANGED req
    /\ UNCHANGED <<ledger, nas>>

-----------------------------------------------------------------------------
(* The worker of a machine, one clip at a time.                             *)

Finished(m, i) == ing[m].stage[i] \in ItemTerminal
Spent(m, i) == ing[m].stage[i] = "failed" /\ ing[m].tries[i] >= MaxAttempts

\* _next_item and the start of _crunch_item; a described clip goes on.
Begin(m, i) ==
    LET rec == [ing[m] EXCEPT !.doing = i, !.tries[i] = @ + 1] IN
    /\ ing[m].step = "idle" /\ ~Finished(m, i) /\ ~Spent(m, i)
    /\ ing[m].stage[i] # "uploading"
    /\ \/ /\ i \notin ing[m].told
          /\ Call(m, [rec EXCEPT !.stage[i] = "describing"], "status", i, "describing")
       \/ /\ ing[m].has /\ ~ing[m].unclaimed /\ ing[m].at = Nobody
          /\ ing' = [ing EXCEPT ![m] =
                       [rec EXCEPT !.step = IF i \in ing[m].told THEN "hand" ELSE "fail"]]
          /\ UNCHANGED <<ledger, nas, req, hist, left>>

\* The model answers, or an encode, the model or the card gives up.
Describe(m) ==
    /\ ing[m].step = "describe" /\ ing[m].at = Nobody
    /\ \/ Call(m, [ing[m] EXCEPT !.told = @ \cup {ing[m].doing}], "result", ing[m].doing, TRUE)
       \/ /\ ing' = [ing EXCEPT ![m].step = "fail"]
          /\ UNCHANGED <<ledger, nas, req, hist, left>>

\* _should_stop between two stages: the editor is back, the work is paused, the
\* model or the drive is gone.  The clip waits for the gate, its try spent.
PutDown(m) ==
    /\ ing[m].step = "describe" /\ ing[m].at = Nobody /\ Spend("restarts")
    /\ ing' = [ing EXCEPT ![m] = Done(@)]
    /\ UNCHANGED <<ledger, nas, req, hist>>

\* _stage(UPLOADING) and _enqueue_uploads.
Hand(m) ==
    LET i == ing[m].doing IN
    /\ ing[m].step = "hand"
    /\ Call(m, [ing[m] EXCEPT !.stage[i] = "uploading", !.up = @ \cup {i}, !.queue = TRUE],
            "status", i, "uploading")

\* _fail_item: a clip already in the archive only owes its original.
GiveUp(m) ==
    LET i == ing[m].doing IN
    /\ ing[m].step = "fail"
    /\ IF i \in ing[m].staged
       THEN /\ ing' = [ing EXCEPT ![m] = [Done(ing[m]) EXCEPT !.stage[i] = "live"]]
            /\ UNCHANGED <<ledger, nas, req, hist, left>>
       ELSE Call(m, [ing[m] EXCEPT !.stage[i] = "failed"], "status", i, "failed")

\* rclone: stills and proxies first, the original last.
Land(m, i) ==
    LET s == ing[m].row[i] IN
    /\ i \in ing[m].up /\ ing[m].queue /\ s # Nobody /\ nas[s] # "all"
    /\ nas' = [nas EXCEPT ![s] = IF @ = "nothing" THEN "proxies" ELSE "all"]
    /\ UNCHANGED <<ledger, req, ing, hist, left>>

\* _pump_uploads, which does nothing at all before a queue is made: what has
\* landed is posted, what failed for good or was never handed over is given up.
Pump(m, i) ==
    /\ ing[m].step = "idle" /\ ing[m].at = Nobody /\ ing[m].queue
    /\ ing[m].stage[i] = "uploading"
    /\ LET s == ing[m].row[i]
           rec == [ing[m] EXCEPT !.doing = i] IN
       \/ /\ i \in ing[m].up /\ s # Nobody /\ nas[s] = "all"
          /\ Call(m, rec, "uploaded", i, TRUE)
       \/ /\ i \in ing[m].up \ ing[m].staged /\ s # Nobody /\ nas[s] = "proxies"
          /\ Call(m, rec, "uploaded", i, FALSE)
       \/ /\ ~(i \in ing[m].up /\ s # Nobody /\ nas[s] = "all")
          /\ ing' = [ing EXCEPT ![m] = [rec EXCEPT !.step = "fail"]]
          /\ UNCHANGED <<ledger, nas, req, hist, left>>

\* _maybe_finish: the release is sent once, and the batch forgotten.
MaybeFinish(m) ==
    /\ ing[m].step = "idle"
    /\ \A i \in Items : Finished(m, i) \/ Spent(m, i)
    /\ LET i == CHOOSE i \in Items : TRUE
           all == \A k \in Items : ing[m].stage[k] = "failed" IN
       Call(m, ing[m], "release", i, IF all THEN "failed" ELSE "done")

GivesUpWaiting(m) ==
    /\ ing[m].at # Nobody /\ Spend("mishaps")
    /\ LET r == req[ing[m].at] IN
       /\ \E rec \in After(m, ing[m], r, "lost") : ing' = [ing EXCEPT ![m] = rec]
       /\ hist' = Unsaid(r)
    /\ UNCHANGED <<ledger, nas, req>>

-----------------------------------------------------------------------------
(* The machine's other threads.                                             *)

Beats(m) == \E t \in Requests : req[t].op = "beat" /\ req[t].who = m

Beat(m) ==
    /\ ing[m].has /\ ~ing[m].unclaimed /\ ~Beats(m)
    /\ IF Holds(m)
       THEN /\ \E t \in Requests : req[t] = Free /\ Becomes(t, [op |-> "beat", who |-> m])
            /\ UNCHANGED ing
       ELSE ing' = [ing EXCEPT ![m] = Forgot(m)] /\ UNCHANGED req
    /\ UNCHANGED <<ledger, nas, hist, left>>

\* cancel(), for the person at the machine or for the report's reply: the route
\* takes a cancelled release from whoever no other live lease shuts out.
Dashboard(m) == batch.cancel /\ ~Over /\ batch.machine \in {Nobody, m} /\ UNCHANGED left
StopHere(m) ==
    /\ ing[m].has /\ (Dashboard(m) \/ Spend("clicks"))
    /\ ing' = [ing EXCEPT ![m] = Forgot(m)]
    /\ IF Over \/ (batch.machine \notin {Nobody, m} /\ LeaseLive) THEN UNCHANGED req
       ELSE \E t \in Requests : /\ req[t] = Free
                                /\ Becomes(t, [op |-> "release", who |-> m, arg |-> "cancelled"])
    /\ UNCHANGED <<ledger, nas, hist>>

\* The companion restarts; what it was asking is still being served.
Restart(m) ==
    /\ ing[m].has /\ Spend("restarts")
    /\ ing' = [ing EXCEPT ![m] = [Done(ing[m]) EXCEPT !.unclaimed = TRUE, !.up = {}, !.queue = FALSE]]
    /\ UNCHANGED <<ledger, nas, req, hist>>

\* run() for a machine without a batch, _reclaim after a restart.
Claims(m) ==
    /\ ing[m].at = Nobody
    /\ IF ing[m].has THEN ing[m].unclaimed /\ UNCHANGED left ELSE Spend("runs")
    /\ \E t \in Requests :
          /\ req[t] = Free /\ Becomes(t, Look("claim", m))
          /\ ing' = [ing EXCEPT ![m].at = t]
    /\ UNCHANGED <<ledger, nas, hist>>

Refused(m) ==
    ing' = IF ing[m].has THEN [ing EXCEPT ![m] = Forgot(m)] ELSE [ing EXCEPT ![m].at = Nobody]
Turned(t) == LET m == req[t].who IN
    Ends(t) /\ IF ing[m].at = t THEN Refused(m) ELSE UNCHANGED ing

\* Claimed for the first time: what the manifest says.
Manifest(m) == [Forgot(m) EXCEPT !.has = TRUE, !.stage = [i \in Items |-> item'[i].state],
                                 !.tries = [i \in Items |-> item'[i].tries],
                                 !.row = [i \in Items |-> item'[i].row]]

\* Defective: the lease is taken back and the uploads are not queued again, as
\* before comp-loopback-2.
TakesUnqueued(m, rec) ==
    IF rec.has THEN [rec EXCEPT !.unclaimed = FALSE, !.at = Nobody] ELSE Manifest(m)

\* The manifest, or only the lease again; uploads are handed to a new queue.
Takes(m, rec) ==
    IF rec.has
    THEN LET up == {i \in Items : rec.stage[i] = "uploading"} IN
         [rec EXCEPT !.unclaimed = FALSE, !.at = Nobody, !.up = up, !.queue = up # {}]
    ELSE Manifest(m)

-----------------------------------------------------------------------------
(* claim(): sweep and check, read the clips, read the names, one transaction.*)

Mayclaim(b, m) ==
    /\ b.state \notin BatchTerminal /\ ~b.cancel
    /\ b.machine \in {Nobody, m} \/ b.lease # "live"

ClaimCheck(t) ==
    /\ req[t].op = "claim" /\ req[t].step = "sweep"
    /\ Sweep(req[t])
    /\ IF Mayclaim(batch', req[t].who)
       THEN Becomes(t, [op |-> "claim", who |-> req[t].who, step |-> "items"]) /\ UNCHANGED ing
       ELSE Turned(t)
    /\ UNCHANGED <<nas, left>>

Unminted == {i \in Items : item[i].row = Nobody /\ item[i].state \notin ItemTerminal}
ClaimItems(t) ==
    /\ req[t].op = "claim" /\ req[t].step = "items"
    /\ Becomes(t, [op |-> "claim", who |-> req[t].who, step |-> "names", mint |-> Unminted])
    /\ UNCHANGED <<ledger, nas, ing, hist, left>>

\* A machine's request that was checked and has yet to write.
Outstanding == \E t \in Requests : req[t].op \notin {"none", "list", "claim", "cancel"}

Taken == {s \in Slots : rows[s].status # "absent"}
ClaimNames(t) ==
    /\ req[t].op = "claim" /\ req[t].step = "names"
    /\ Becomes(t, [op |-> "claim", who |-> req[t].who, step |-> "mint",
                   mint |-> req[t].mint, taken |-> Taken])
    /\ UNCHANGED <<ledger, nas, ing, hist, left>>

\* claim_name: the clip's own name, or the first suffix nobody has.
Named(i, taken) ==
    <<i, CHOOSE k \in Suffixes : /\ <<i, k>> \notin taken
                                 /\ \A l \in Suffixes : l < k => <<i, l>> \in taken>>
Minted(S, taken) == {Named(i, taken) : i \in S}
ClaimMint(t) ==
    LET r == req[t]
        m == r.who
        new == Minted(r.mint, r.taken) IN
    /\ r.op = "claim" /\ r.step = "mint"
    /\ \A i \in r.mint : \E k \in Suffixes : <<i, k>> \notin r.taken
    /\ IF new \cap Taken # {}      \* UNIQUE(share, rel_path): 409 name_race
       THEN Turned(t) /\ UNCHANGED <<ledger, hist>>
       ELSE /\ rows' = [s \in Slots |-> IF s \in new THEN [NoRow EXCEPT !.status = "ingesting"]
                                        ELSE rows[s]]
            /\ item' = [i \in Items |-> IF i \in r.mint
                          THEN [item[i] EXCEPT !.row = Named(i, r.taken)] ELSE item[i]]
            /\ batch' = [batch EXCEPT !.state = IF @ = "running" THEN @ ELSE "claimed",
                                      !.machine = m, !.lease = "live"]
            /\ Ends(t)
            /\ ing' = IF ing[m].at = t THEN [ing EXCEPT ![m] = Takes(m, @)] ELSE ing
            /\ hist' = [hist EXCEPT !.twice = @ \/ \E i \in r.mint : item[i].row # Nobody,
                                    !.apart = IF ing[m].has /\ batch.machine # m THEN Items ELSE @,
                                    !.late = IF Outstanding \/ ing[m].at # t THEN Items ELSE @]
    /\ UNCHANGED <<nas, left>>

-----------------------------------------------------------------------------
(* The other routes' transactions.                                          *)

\* _check_transition, on the state the clip had when the request came.
Legal(old, new) ==
    \/ old = new
    \/ new = "failed" /\ old \notin ItemTerminal
    \/ new # "failed" /\ (old = "failed" \/ (old \notin ItemTerminal /\ Rank(new) >= Rank(old)))

Published(i) == item[i].state \in {"live", "proxies_live"}
\* The write is one the checks would refuse by now.
Overtaken(r) == ~Holds(r.who) \/ item[r.i].state # r.was
\* The caller has gone on, and called the clip failed once more.
Outrun(t) == ing[req[t].who].at # t /\ item[req[t].i].state = "failed"
Noting(t) == LET r == req[t] IN
    hist' = [hist EXCEPT !.late = IF Overtaken(r) THEN @ \cup {r.i} ELSE @,
                         !.apart = IF Outrun(t) THEN @ \cup {r.i} ELSE @,
                         !.again = IF Published(r.i) THEN @ \cup {r.i} ELSE @,
                         !.wedged = @ \/ (r.fresh /\ batch.lease = "none")]
Running(r) == batch' = IF r.fresh THEN [batch EXCEPT !.state = "running"] ELSE batch

StatusWrite(t) ==
    LET r == req[t] IN
    /\ r.op = "status" /\ Ends(t)
    /\ IF Legal(r.was, r.arg)
       THEN /\ item' = [item EXCEPT ![r.i].state = r.arg, ![r.i].tries = r.tries]
            /\ Running(r) /\ Noting(t) /\ Answers(t, "ok")
       ELSE Answers(t, "no") /\ UNCHANGED <<batch, item, hist>>
    /\ UNCHANGED <<rows, nas, left>>

\* The segments need their row: without it the foreign key refuses them.
ResultWrite(t) ==
    LET r == req[t] IN
    /\ r.op = "result" /\ Ends(t)
    /\ IF r.row # Nobody /\ Legal(r.was, "indexed") /\ rows[r.row].status # "absent"
       THEN /\ rows' = [rows EXCEPT ![r.row].described = TRUE]
            /\ item' = [item EXCEPT ![r.i].state = "indexed"]
            /\ Running(r) /\ Noting(t) /\ Answers(t, "ok")
       ELSE Answers(t, "no") /\ UNCHANGED <<ledger, hist>>
    /\ UNCHANGED <<nas, left>>

\* mark_uploaded looks at the files and the segments before it writes.
UploadedCheck(t) ==
    LET r == req[t] IN
    /\ r.op = "uploaded"
    /\ IF /\ r.row # Nobody /\ rows[r.row].described
          /\ nas[r.row] \in (IF r.arg THEN {"all"} ELSE {"proxies", "all"})
       THEN Becomes(t, [r EXCEPT !.op = "publish"]) /\ UNCHANGED ing
       ELSE Ends(t) /\ Answers(t, "no")
    /\ UNCHANGED <<ledger, nas, hist, left>>

UploadedWrite(t) ==
    LET r == req[t] IN
    /\ r.op = "publish" /\ Ends(t)
    /\ rows' = [rows EXCEPT ![r.row].status = IF @ = "absent" THEN @ ELSE "indexed"]
    /\ item' = [item EXCEPT ![r.i].state = IF r.arg THEN "live" ELSE "proxies_live"]
    /\ hist' = [hist EXCEPT !.late = IF Overtaken(r) THEN @ \cup {r.i} ELSE @]
    /\ Answers(t, "ok")
    /\ UNCHANGED <<batch, nas, left>>

BeatWrite(t) ==
    /\ req[t].op = "beat" /\ Ends(t)
    /\ batch' = [batch EXCEPT !.lease = "live"]
    /\ hist' = [hist EXCEPT !.late = IF Holds(req[t].who) THEN @ ELSE Items]
    /\ UNCHANGED <<item, rows, nas, ing, left>>

ReleaseWrite(t) ==
    LET r == req[t] IN
    /\ r.op = "release" /\ Ends(t)
    /\ Finish(r.arg)
    /\ hist' = [hist EXCEPT !.late = IF r.arg # "cancelled" /\ ~Holds(r.who) THEN Items ELSE @]
    /\ IF r.arg = "cancelled" THEN UNCHANGED ing ELSE Answers(t, "ok")
    /\ UNCHANGED <<nas, left>>

-----------------------------------------------------------------------------
(* The browser: the list, STOP and TRY AGAIN; and time.                     *)

List ==
    /\ Stale
    /\ \E t \in Requests : req[t] = Free /\ Becomes(t, Look("list", Nobody))
    /\ UNCHANGED <<ledger, nas, ing, hist, left>>
ListSweep(t) ==
    /\ req[t].op = "list" /\ Ends(t) /\ Sweep(req[t])
    /\ UNCHANGED <<nas, ing, left>>

Cancel ==
    /\ Spend("clicks")
    /\ \E t \in Requests : req[t] = Free /\ Becomes(t, Look("cancel", Nobody))
    /\ UNCHANGED <<ledger, nas, ing, hist>>
\* A batch nobody holds is ended here, any other only marked.
CancelCheck(t) ==
    /\ req[t].op = "cancel" /\ req[t].step = "sweep"
    /\ Sweep(req[t])
    /\ IF batch'.state \in BatchTerminal THEN Ends(t)
       ELSE Becomes(t, [op |-> "cancel", who |-> Nobody, step |-> "flag",
                        end |-> batch'.state = "queued" \/ batch'.lease # "live"])
    /\ UNCHANGED <<nas, ing, left>>
\* Defective: the lease goes with the flag, as before music-1's twin.
CancelFlagUnleased(t) ==
    /\ req[t].op = "cancel" /\ req[t].step = "flag"
    /\ batch' = [batch EXCEPT !.cancel = TRUE, !.lease = "none"]
    /\ IF req[t].end THEN Becomes(t, [req[t] EXCEPT !.step = "end"]) ELSE Ends(t)
    /\ UNCHANGED <<item, rows, nas, ing, hist, left>>
CancelFlag(t) ==
    /\ req[t].op = "cancel" /\ req[t].step = "flag"
    /\ batch' = [batch EXCEPT !.cancel = TRUE]
    /\ hist' = [hist EXCEPT !.wedged = @ \/ (~req[t].end /\ batch.state = "queued")]
    /\ IF req[t].end THEN Becomes(t, [req[t] EXCEPT !.step = "end"]) ELSE Ends(t)
    /\ UNCHANGED <<item, rows, nas, ing, left>>
CancelEnd(t) ==
    /\ req[t].op = "cancel" /\ req[t].step = "end" /\ Ends(t)
    /\ Finish("cancelled")
    /\ UNCHANGED <<nas, ing, hist, left>>

\* TRY AGAIN is refused beside a live lease.
Retry ==
    /\ ~LeaseLive /\ Spend("clicks")
    /\ \E t \in Requests : req[t] = Free /\ Becomes(t, [op |-> "retry", who |-> Nobody])
    /\ UNCHANGED <<ledger, nas, ing, hist>>
RetryWrite(t) ==
    LET again == {i \in Items : item[i].state \in {"failed", "proxies_live"}} IN
    /\ req[t].op = "retry" /\ Ends(t)
    /\ item' = [i \in Items |-> IF i \in again THEN [item[i] EXCEPT !.state = "pending"] ELSE item[i]]
    /\ batch' = IF again = {} THEN batch
                ELSE [batch EXCEPT !.state = "queued", !.lease = "none", !.cancel = FALSE]
    /\ hist' = [hist EXCEPT !.again = @ \cup {i \in again : Published(i)},
                            !.late = IF \E m \in Machines : ing[m].has THEN @ \cup again ELSE @]
    /\ UNCHANGED <<rows, nas, ing, left>>

\* A machine that neither beats nor is let to is silent.
Silent == batch.cancel \/ ~\E m \in Machines : ing[m].has /\ ~ing[m].unclaimed /\ batch.machine = m
Lapse ==
    /\ LeaseLive /\ (IF Silent THEN UNCHANGED left ELSE Spend("mishaps"))
    /\ batch' = [batch EXCEPT !.lease = "lapsed"]
    /\ UNCHANGED <<item, rows, nas, req, ing, hist>>

Serves(t) ==
    \/ ClaimCheck(t) \/ ClaimItems(t) \/ ClaimNames(t) \/ ClaimMint(t)
    \/ StatusWrite(t) \/ ResultWrite(t) \/ UploadedCheck(t) \/ UploadedWrite(t)
    \/ BeatWrite(t) \/ ReleaseWrite(t)
    \/ ListSweep(t) \/ CancelCheck(t) \/ CancelFlag(t) \/ CancelEnd(t) \/ RetryWrite(t)

\* What waits for _gate, and what every tick does whatever the gate says.
Crunches(m) == Describe(m) \/ \E i \in Items : Begin(m, i)
Pumps(m) == Hand(m) \/ GiveUp(m) \/ MaybeFinish(m) \/ \E i \in Items : Pump(m, i)
Works(m) == Crunches(m) \/ PutDown(m) \/ Pumps(m)

Next ==
    \/ \E t \in Requests : Serves(t)
    \/ \E m \in Machines :
          \/ Works(m) \/ GivesUpWaiting(m) \/ Beat(m) \/ StopHere(m) \/ Restart(m) \/ Claims(m)
          \/ \E i \in Items : Land(m, i)
    \/ List \/ Cancel \/ Retry \/ Lapse

Spec == Init /\ [][Next]_vars

\* Requests are served, and none waits for ever behind others to be let in (SF); a
\* machine's tick pumps its uploads and reports whatever its gate says; a silent
\* lease lapses and somebody looks at the list.  Nothing makes a machine beat, claim,
\* crunch or finish a copy: it may be off, and its gate and pauses may stand for ever.
FairSpec ==
    /\ Spec
    /\ \A t \in Requests : WF_vars(Serves(t))
    /\ \A m \in Machines : SF_vars(Pumps(m))
    /\ WF_vars(Silent /\ Lapse) /\ SF_vars(List)

-----------------------------------------------------------------------------
\* "done" is never said over a clip that failed, owes its original or was not
\* finished (release(), wire-1), except where a request wrote or had yet to write
\* what its checks would refuse by now, or where the machine's checkpoint and the
\* ledger had come apart over the clip: the report of its failure was lost, a call
\* given up on wrote over a second failure, or the machine took the batch back
\* after another had held it (_reclaim).
DoneIsWhole ==
    batch.state = "done" =>
        \A i \in Items : item[i].state \in ItemTerminal \/ i \in hist.apart \cup hist.late

\* A clip in the archive keeps its row and is never called cancelled, and one
\* that says it is published is (ITEM_PUBLISHED, mark_uploaded): until the clip is
\* called failed or pending again, or is overtaken by a write checked before, or
\* two claims that cross mint it a second row.
PublishedStands ==
    \A i \in Items : i \notin hist.late \cup hist.again /\ ~hist.twice =>
        /\ Published(i) => item[i].row # Nobody /\ rows[item[i].row].status = "indexed"
        /\ item[i].state = "cancelled" => \A s \in Slots : s[1] = i => rows[s].status # "indexed"

\* A cancelled batch leaves no invisible row to hold a name for ever, unless two
\* claims minted names for one clip (release(), claim()).
NoGhosts ==
    batch.state = "cancelled" /\ ~hist.twice => HalfMade = {}

\* A stop ends the batch, also when the machine is never heard of again
\* (cancel(), music-1's twin); unless it crosses a sweep that hands the
\* batch back, or an item's write checked before marks running a batch that
\* nobody holds by then.
CancelEnds == (batch.cancel /\ ~hist.wedged) ~> (Over \/ ~batch.cancel \/ hist.wedged)

\* A machine that took over a batch with a clip in mid upload, which it did not
\* describe itself and no queue of its own carries.
Parked(m) ==
    /\ ing[m].has /\ ~ing[m].unclaimed /\ ~ing[m].queue
    /\ \E i \in Items \ ing[m].told : ing[m].stage[i] = "uploading"
Held == batch.state \in {"claimed", "running"}

\* The gates are open often enough, and no upload is paused for ever.
Unhindered == \A m \in Machines :
    SF_vars(Crunches(m)) /\ \A i \in Items : WF_vars(Land(m, i))

\* A machine never holds a batch for ever, through a restart in mid upload too
\* (_requeue_after_restart): unless something holds it up for ever while its
\* heartbeat keeps the lease (the idle gate, an open Resolve, a pause, a missing
\* model, drive or mount), or it took the batch over from a machine that had a
\* clip in mid upload, which it then neither sends nor gives up (_pump_uploads).
HeldEnds ==
    Unhindered =>
        ((Held /\ ~hist.wedged) ~> (~Held \/ hist.wedged \/ \E m \in Machines : Parked(m)))
=============================================================================
