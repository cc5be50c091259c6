----------------------------- MODULE ClipDownload -----------------------------
(***************************************************************************)
(* One download job of the YouTube search page (src/ytdl/web/ytdlweb) and  *)
(* the two kinds of program that may fetch its clips: the one worker thread *)
(* in the dashboard's container, and the companion of an editor's machine   *)
(* (ytdl_executor.py), which claims the job under a lease and reports each  *)
(* clip over HTTP.                                                          *)
(*                                                                          *)
(* Every helper of db.py commits on its own, so a route or a phase that     *)
(* calls several is several steps here, with everybody else's in between:   *)
(* a fleet route first asks whether the caller holds the lease and writes   *)
(* afterwards; the worker decides on a job row it read before it touched    *)
(* the disk.  Two statements stay one step when the second only reads, or   *)
(* writes what nobody else looks at before the next.                        *)
(*                                                                          *)
(* Time is the lease: "live" while lease_expires_at is in the future.  A    *)
(* heartbeat that is granted leaves it live, so only a refused one is seen. *)
(***************************************************************************)
EXTENDS Integers, FiniteSets

CONSTANTS
    Clips,      \* the rows the editor selected; both executors go in row order
    Machines,   \* computers whose companion may claim the job
    Tabs,       \* browser tabs: requests the page can have open at once
    Nobody,     \* NULL in claimed_by
    Streak,     \* MAX_IDENTICAL_FAILURES
    Presses,    \* bounds: presses of DOWNLOAD or RETRY,
    Stops,      \* presses of CANCEL or "download on the server instead",
    Claims,     \* claims that are granted,
    Resends,    \* answers lost after the server acted,
    Mishaps     \* restarts of the container and phases that raise

ASSUME ClipDownloadAssumption ==
    /\ Clips \subseteq Nat /\ IsFiniteSet(Clips)
    /\ Nobody \notin Machines
    /\ Streak \in Nat \ {0}
    /\ {Presses, Stops, Claims, Resends, Mishaps} \subseteq Nat

VARIABLES
    job,      \* the row of `jobs`
    row,      \* clip -> dl_state of its row in `job_videos`
    ledger,   \* clips the fleet's ledger says somebody has
    disk,     \* clips whose file is in the project's tree on the server
    away,     \* clips whose file is on some editor's machine, not yet uploaded
    wk,       \* the worker thread
    run,      \* machine -> the companion's download thread
    call,     \* machine -> where the server is in that machine's request
    tab,      \* tab -> where the server is in that tab's request
    hist,     \* ghost: what the properties remember
    left      \* what is left of each bound

vars == <<job, row, ledger, disk, away, wk, run, call, tab, hist, left>>

-----------------------------------------------------------------------------
Over == {"done", "failed", "cancelled"}
Phases == {"ready", "downloading"} \cup Over
Unfinished == {"pending", "downloading"}
DlStates == {"none", "done", "failed", "skipped"} \cup Unfinished

Job == [phase : Phases, cancel : BOOLEAN, mode : {"server", "local"},
        lock : BOOLEAN, holder : Machines \cup {Nobody},
        lease : {"none", "live", "lapsed"}, done : Int, failed : Int]

Steps == {"idle", "setup", "credit", "grace", "list", "next", "take", "fetch",
          "count"}
Asleep == [pc |-> "idle", local |-> FALSE, handed |-> FALSE, todo |-> {},
           failed |-> {}, n |-> 0, bad |-> FALSE]
Worker == [pc : Steps, local : BOOLEAN, handed : BOOLEAN, todo : SUBSET Clips,
           failed : SUBSET Clips, n : Nat, bad : BOOLEAN]

\* The companion's thread: the clips still to fetch, the first of them in hand.
Idle == [pc |-> "off", todo |-> {}, bad |-> FALSE]
Run == [pc : {"off", "manifest", "work", "say", "fetch", "report"},
        todo : SUBSET Clips, bad : BOOLEAN]

\* A request the server is inside: what it is about, and the clips it re-queued.
NoCall == [at |-> "no", todo |-> {}, bad |-> FALSE, n |-> 0]
Call == [at : {"no", "manifest", "say", "report", "count", "sweep", "end"},
         todo : SUBSET Clips, bad : BOOLEAN, n : Nat]

First(S) == CHOOSE c \in S : \A d \in S : c <= d
InState(s) == {c \in Clips : row[c] = s}
Unsettled == {c \in Clips : row[c] \in Unfinished}

\* lease_active.
LeaseLive == job.mode = "local" /\ job.lease = "live"

\* _leaseholder_or_410.
Allowed(m) ==
    /\ LeaseLive /\ job.holder = m
    /\ ~(job.cancel /\ job.phase \notin Over)

Put(S, s) == [c \in Clips |-> IF c \in S THEN s ELSE row[c]]

\* The ghost: the clips that were done when the run was started; whether a
\* claim was granted since the worker last picked the job; whether the server
\* has had the job back from a machine in this run; whether a reclaim found a
\* clip that had failed; whether an executor has acted on a job that was the
\* other's at that moment; whether a phase raised with a clip in flight; and
\* whether a restart found clips unfinished in a job that nobody was running.
Hist == [old : SUBSET Clips, since : BOOLEAN, back : BOOLEAN, found : BOOLEAN,
         crossed : BOOLEAN, dropped : BOOLEAN, torn : BOOLEAN]
Crossing(b) == hist' = [hist EXCEPT !.crossed = @ \/ b]
TakenBack(b) == hist' = [hist EXCEPT !.crossed = @ \/ b, !.back = TRUE]

\* A fleet route that writes for a caller who does not hold the job any more.
TooLate(m) == ~(LeaseLive /\ job.holder = m)

\* The clip the fleet already has (duplicate_location).
Known == ledger \cup disk

-----------------------------------------------------------------------------
(* The page: DOWNLOAD and RETRY, CANCEL, "download on the server instead" *)

Pressable == job.phase \in {"ready", "done", "failed"}

\* A press is on its way from its marks to the start.
Pressed == \E t \in Tabs : tab[t] \in {"marked", "cleared"}

\* start_download, up to its refusals.
PressChecks(t) ==
    /\ tab[t] = "no" /\ left.presses > 0
    /\ Pressable
    /\ job.phase = "failed" => InState("failed") \cup Unsettled # {}
    /\ tab' = [tab EXCEPT ![t] = "checked"]
    /\ left' = [left EXCEPT !.presses = @ - 1]
    /\ UNCHANGED <<job, row, ledger, disk, away, wk, run, call, hist>>

\* mark_pending, and the 400 when it finds nothing.  A skipped row is a
\* duplicate here, and those are not selected any more.
Marks(t) ==
    /\ tab[t] = "checked"
    /\ LET again == InState("none") \cup InState("failed") \cup InState("pending")
       IN /\ row' = Put(again, "pending")
          /\ tab' = [tab EXCEPT ![t] = IF again = {} THEN "no" ELSE "marked"]
          /\ Crossing(again # {} /\ (~Pressable \/ Pressed))
    /\ UNCHANGED <<job, ledger, disk, away, wk, run, call, left>>

\* clear_cancel, clear_mode_lock and the counters.
FreshRun ==
    [job EXCEPT !.cancel = FALSE, !.lock = FALSE, !.mode = "server",
                !.holder = Nobody, !.lease = "none", !.done = 0, !.failed = 0]

Clears(t) ==
    /\ tab[t] = "marked"
    /\ job' = FreshRun
    /\ hist' = [hist EXCEPT !.old = InState("done"), !.back = FALSE, !.found = FALSE]
    /\ tab' = [tab EXCEPT ![t] = "cleared"]
    /\ UNCHANGED <<row, ledger, disk, away, wk, run, call, left>>

Starts(t) ==
    /\ tab[t] = "cleared"
    /\ job' = [job EXCEPT !.phase = "downloading"]
    /\ tab' = [tab EXCEPT ![t] = "no"]
    /\ hist' = [hist EXCEPT !.torn = FALSE]
    /\ UNCHANGED <<row, ledger, disk, away, wk, run, call, left>>

\* cancel: outright while nothing is in flight, else the flag, and then
\* expire_lease in a commit of its own.
Cancel(t) ==
    /\ tab[t] = "no" /\ left.stops > 0
    /\ job.phase \notin Over
    /\ job' = IF job.phase = "ready"
              THEN [job EXCEPT !.phase = "cancelled", !.cancel = TRUE]
              ELSE [job EXCEPT !.cancel = TRUE]
    /\ tab' = [tab EXCEPT ![t] = IF job.phase = "ready" THEN "no" ELSE "expiring"]
    /\ left' = [left EXCEPT !.stops = @ - 1]
    /\ UNCHANGED <<row, ledger, disk, away, wk, run, call, hist>>

\* mode_lock, and lock_mode's expire_lease after it.
Pin(t) ==
    /\ tab[t] = "no" /\ left.stops > 0
    /\ job' = [job EXCEPT !.lock = TRUE]
    /\ tab' = [tab EXCEPT ![t] = "expiring"]
    /\ left' = [left EXCEPT !.stops = @ - 1]
    /\ UNCHANGED <<row, ledger, disk, away, wk, run, call, hist>>

\* expire_lease, for both.
Expires(t) ==
    /\ tab[t] = "expiring"
    /\ job' = IF LeaseLive THEN [job EXCEPT !.lease = "lapsed"] ELSE job
    /\ tab' = [tab EXCEPT ![t] = "no"]
    /\ UNCHANGED <<row, ledger, disk, away, wk, run, call, hist, left>>

-----------------------------------------------------------------------------
(* The lease *)

\* Time passes a holder that is not heard from.
Lapse ==
    /\ LeaseLive
    /\ job' = [job EXCEPT !.lease = "lapsed"]
    /\ UNCHANGED <<row, ledger, disk, away, wk, run, call, tab, hist, left>>

\* The WHERE clause of claim_download.
Claimable(m) ==
    /\ job.phase = "downloading" /\ ~job.cancel /\ ~job.lock
    /\ job.mode # "local" \/ job.holder = m \/ job.lease # "live"

\* A claim granted.  When its answer is lost the companion gives up (claim is
\* not sent again) and the lease stays behind.
Claim(m) ==
    /\ run[m].pc = "off" /\ left.claims > 0
    /\ Claimable(m)
    /\ job' = [job EXCEPT !.mode = "local", !.holder = m, !.lease = "live"]
    /\ \/ run' = [run EXCEPT ![m].pc = "manifest"]
       \/ UNCHANGED run
    /\ left' = [left EXCEPT !.claims = @ - 1]
    /\ hist' = [hist EXCEPT !.since = TRUE, !.crossed = @ \/ call[m] # NoCall]
    /\ UNCHANGED <<row, ledger, disk, away, wk, call, tab>>

-----------------------------------------------------------------------------
(* A companion at work.  Its requests are answered one at a time; the server *)
(* goes on with one whose caller has died.                                   *)

\* A request of m passes _leaseholder_or_410.
Asks(m) ==
    /\ run[m].pc \in {"manifest", "say", "report"}
    /\ call[m] = NoCall
    /\ Allowed(m)
    /\ call' = [call EXCEPT ![m] = [at |-> run[m].pc, todo |-> run[m].todo,
                                    bad |-> run[m].bad, n |-> 0]]
    /\ UNCHANGED <<job, row, ledger, disk, away, wk, run, tab, hist, left>>

\* A request or the heartbeat is answered 410: stop, and clean up the clip in
\* hand.
Gone(m) ==
    /\ run[m].pc # "off" /\ call[m] = NoCall
    /\ ~Allowed(m)
    /\ run' = [run EXCEPT ![m] = Idle]
    /\ UNCHANGED <<job, row, ledger, disk, away, wk, call, tab, hist, left>>

\* The laptop is closed, the tray quits, a call's retries run out, the breaker
\* of this side trips: nobody is told.
Leave(m) ==
    /\ run[m].pc # "off"
    /\ run' = [run EXCEPT ![m] = Idle]
    /\ UNCHANGED <<job, row, ledger, disk, away, wk, call, tab, hist, left>>

\* The request that stood at `asked` ends, and its caller goes on as `next`: if
\* it is still there, and unless the answer is lost and the call is sent again.
Answered(m, asked, next) ==
    /\ call' = [call EXCEPT ![m] = NoCall]
    /\ \/ /\ run' = [run EXCEPT ![m] = IF run[m].pc = asked THEN next ELSE @]
          /\ UNCHANGED left
       \/ /\ left.resends > 0 /\ run[m].pc = asked
          /\ left' = [left EXCEPT !.resends = @ - 1]
          /\ UNCHANGED run

AtWork(todo) == [pc |-> "work", todo |-> todo, bad |-> FALSE]

\* Defective: what is in flight is on the list as well.
OwedTaken == Unsettled \ Known

\* _still_owed: what is pending and not a duplicate.
Owed == InState("pending") \ Known

\* download_manifest: duplicates are marked skipped; with nothing left at all
\* the job is handed back.
Manifest(m) ==
    /\ call[m].at = "manifest"
    /\ LET dups == InState("pending") \cap Known
       IN /\ row' = Put(dups, "skipped")
          /\ IF Unsettled \ dups = {}
             THEN /\ call' = [call EXCEPT ![m].at = "sweep"]
                  /\ UNCHANGED <<run, left>>
             ELSE Answered(m, "manifest", AtWork(Owed))
    /\ Crossing(TooLate(m))
    /\ UNCHANGED <<job, ledger, disk, away, wk, tab>>

\* The next clip of the list, or the end of the run.
NextClip(m) ==
    /\ run[m].pc = "work"
    /\ run' = [run EXCEPT ![m] = IF run[m].todo = {} THEN Idle
                                 ELSE [@ EXCEPT !.pc = "say"]]
    /\ UNCHANGED <<job, row, ledger, disk, away, wk, call, tab, hist, left>>

\* clip_status "downloading": whatever the row holds by now.
Say(m) ==
    /\ call[m].at = "say"
    /\ row' = Put({First(call[m].todo)}, "downloading")
    /\ Answered(m, "say", [run[m] EXCEPT !.pc = "fetch"])
    /\ Crossing(TooLate(m))
    /\ UNCHANGED <<job, ledger, disk, away, wk, tab>>

\* The file is on the machine, or it is not.
Fetched(m) ==
    /\ run[m].pc = "fetch"
    /\ \E bad \in BOOLEAN :
         /\ run' = [run EXCEPT ![m].pc = "report", ![m].bad = bad]
         /\ away' = IF bad THEN away ELSE away \cup {First(run[m].todo)}
    /\ UNCHANGED <<job, row, ledger, disk, wk, call, tab, hist, left>>

\* Lane A carries it up.
Upload(c) ==
    /\ c \in away
    /\ disk' = disk \cup {c}
    /\ away' = away \ {c}
    /\ UNCHANGED <<job, row, ledger, wk, run, call, tab, hist, left>>

NextOf(m) == AtWork(run[m].todo \ {First(call[m].todo)})

\* Defective: finish_download before it was a compare-and-set.
MovesAgain(m) ==
    /\ call[m].at = "report"
    /\ row' = Put({First(call[m].todo)}, IF call[m].bad THEN "failed" ELSE "done")
    /\ call' = [call EXCEPT ![m].at = "count"]
    /\ Crossing(TooLate(m))
    /\ UNCHANGED <<job, ledger, disk, away, wk, run, tab, left>>

\* clip_status "done" and "failed": finish_download, or "already terminal".
Moves(m) ==
    /\ call[m].at = "report"
    /\ LET c == First(call[m].todo)
       IN IF row[c] \in Unfinished
          THEN /\ row' = Put({c}, IF call[m].bad THEN "failed" ELSE "done")
               /\ call' = [call EXCEPT ![m].at = "count"]
               /\ UNCHANGED <<run, left>>
          ELSE /\ Answered(m, "report", NextOf(m))
               /\ UNCHANGED row
    /\ Crossing(TooLate(m))
    /\ UNCHANGED <<job, ledger, disk, away, wk, tab>>

\* The ledger and the counter; was it the last one?
Counts(m) ==
    /\ call[m].at = "count"
    /\ LET bad == call[m].bad
       IN /\ ledger' = IF bad THEN ledger ELSE ledger \cup {First(call[m].todo)}
          /\ job' = IF bad THEN [job EXCEPT !.failed = @ + 1]
                    ELSE [job EXCEPT !.done = @ + 1]
    /\ IF Unsettled = {}
       THEN call' = [call EXCEPT ![m].at = "sweep"] /\ UNCHANGED <<run, left>>
       ELSE Answered(m, "report", NextOf(m))
    /\ Crossing(TooLate(m))
    /\ UNCHANGED <<row, disk, away, wk, tab>>

\* _hand_back_to_the_server: requeue_failed ...
Requeues(m) ==
    /\ call[m].at = "sweep"
    /\ row' = Put(InState("failed"), "pending")
    /\ call' = [call EXCEPT ![m].at = "end", ![m].n = Cardinality(InState("failed"))]
    /\ Crossing(TooLate(m))
    /\ UNCHANGED <<job, ledger, disk, away, wk, run, tab, left>>

\* Defective: the hand-back does not pin the job.
EndedUnpinned(m, n) ==
    IF job.mode = "local" /\ job.holder = m
    THEN [job EXCEPT !.failed = @ - n, !.mode = "server", !.lease = "none"]
    ELSE [job EXCEPT !.failed = @ - n]

\* ... its count, and end_lease.
Ended(m, n) ==
    IF job.mode = "local" /\ job.holder = m
    THEN [job EXCEPT !.failed = @ - n, !.mode = "server", !.lease = "none",
                     !.lock = TRUE]
    ELSE [job EXCEPT !.failed = @ - n]

EndsLease(m) ==
    /\ call[m].at = "end"
    /\ job' = Ended(m, call[m].n)
    /\ IF call[m].todo = {} THEN Answered(m, "manifest", AtWork({}))
       ELSE Answered(m, "report", NextOf(m))
    /\ IF job'.mode = job.mode THEN Crossing(TooLate(m)) ELSE TakenBack(TooLate(m))
    /\ UNCHANGED <<row, ledger, disk, away, wk, tab>>

-----------------------------------------------------------------------------
(* The worker *)

At(pc) == wk.pc = pc
Over_(phase) == [job EXCEPT !.phase = phase]

\* Defective: a job that was ever local is hidden from the loop.
PicksServer ==
    /\ At("idle") /\ job.phase = "downloading" /\ job.mode = "server"
    /\ IF job.cancel
       THEN job' = Over_("cancelled") /\ UNCHANGED wk
       ELSE /\ wk' = [Asleep EXCEPT !.pc = "setup",
                                    !.handed = (job.holder # Nobody)]
            /\ UNCHANGED job
    /\ hist' = [hist EXCEPT !.since = FALSE]
    /\ UNCHANGED <<row, ledger, disk, away, run, call, tab, left>>

\* claim_next_job and run_job's own look at the row: a cancelled job ends, a
\* leased one is not ours.
Picks ==
    /\ At("idle") /\ job.phase = "downloading" /\ ~LeaseLive
    /\ IF job.cancel
       THEN job' = Over_("cancelled") /\ UNCHANGED wk
       ELSE /\ wk' = [Asleep EXCEPT !.pc = "setup",
                                    !.local = (job.mode = "local"),
                                    !.handed = (job.holder # Nobody
                                                /\ job.mode = "server")]
            /\ UNCHANGED job
    /\ hist' = [hist EXCEPT !.since = FALSE]
    /\ UNCHANGED <<row, ledger, disk, away, run, call, tab, left>>

\* Defective: a lease state nobody knows.
ReclaimedElse == [job EXCEPT !.mode = "server", !.holder = Nobody, !.lease = "over",
                             !.lock = TRUE]

Reclaimed == [job EXCEPT !.mode = "server", !.holder = Nobody, !.lease = "none",
                         !.lock = TRUE]

\* Defective: only what failed on the machine is queued again.
SetsUpFailed ==
    /\ At("setup")
    /\ IF wk.local
       THEN /\ job' = Reclaimed
            /\ wk' = [wk EXCEPT !.pc = "credit", !.failed = InState("failed"),
                                !.todo = InState("failed")]
       ELSE wk' = [wk EXCEPT !.pc = "grace"] /\ UNCHANGED job
    /\ IF wk.local THEN TakenBack(LeaseLive) ELSE UNCHANGED hist
    /\ UNCHANGED <<row, ledger, disk, away, run, call, tab, left>>

\* The folder is there and swept.  A job that was local when its row was read is
\* taken back: reclaim_download, and the rows as they are after it.
SetsUp ==
    /\ At("setup")
    /\ IF wk.local
       THEN /\ job' = Reclaimed
            /\ wk' = [wk EXCEPT !.pc = "credit", !.failed = InState("failed"),
                                !.todo = Unsettled \cup InState("failed")]
       ELSE wk' = [wk EXCEPT !.pc = "grace"] /\ UNCHANGED job
    /\ IF wk.local THEN TakenBack(LeaseLive) ELSE UNCHANGED hist
    /\ UNCHANGED <<row, ledger, disk, away, run, call, tab, left>>

\* _reclaim_local_job, a clip at a time: what is in the tree is credited, the
\* rest is queued again; then the failures that were.
Credits ==
    /\ At("credit")
    /\ IF wk.todo = {}
       THEN /\ job' = [job EXCEPT !.failed = @ - wk.n]
            /\ wk' = [wk EXCEPT !.pc = "grace", !.failed = {}, !.n = 0]
            /\ Crossing(LeaseLive)
            /\ UNCHANGED <<row, ledger>>
       ELSE LET c == First(wk.todo) IN
            /\ row' = Put({c}, IF c \in disk THEN "done" ELSE "pending")
            /\ ledger' = IF c \in disk THEN ledger \cup {c} ELSE ledger
            /\ job' = IF c \in disk THEN [job EXCEPT !.done = @ + 1] ELSE job
            /\ wk' = [wk EXCEPT !.todo = @ \ {c},
                                !.n = IF c \in wk.failed \ disk THEN @ + 1 ELSE @]
            /\ hist' = [hist EXCEPT !.crossed = @ \/ LeaseLive,
                                  !.found = @ \/ c \in wk.failed \cap disk]
    /\ UNCHANGED <<disk, away, run, call, tab, left>>

\* _await_local_claim: a claim seen in time, or the grace is over.
Waits ==
    /\ At("grace")
    /\ \/ LeaseLive /\ wk' = Asleep
       \/ wk' = [wk EXCEPT !.pc = "list"]
    /\ UNCHANGED <<job, row, ledger, disk, away, run, call, tab, hist, left>>

\* pending_videos; the tree is gone or full, or the work starts.
Lists ==
    /\ At("list")
    /\ \/ /\ wk' = [wk EXCEPT !.pc = "next", !.todo = InState("pending")]
          /\ UNCHANGED <<job, left>>
       \/ /\ left.mishaps > 0
          /\ left' = [left EXCEPT !.mishaps = @ - 1]
          /\ job' = Over_("failed")
          /\ wk' = Asleep
    /\ Crossing(job'.phase # "downloading" /\ hist.since)
    /\ UNCHANGED <<row, ledger, disk, away, run, call, tab>>

\* Between two clips: the end of the list, a cancel, a claim, or the next one.
Turns ==
    /\ At("next")
    /\ IF wk.todo = {} THEN job' = Over_("done") /\ wk' = Asleep
       ELSE /\ wk' = IF job.cancel \/ LeaseLive THEN Asleep
                     ELSE [wk EXCEPT !.pc = "take"]
            /\ UNCHANGED job
    /\ Crossing(hist.since /\ (wk.todo = {} \/ wk'.pc = "take"))
    /\ UNCHANGED <<row, ledger, disk, away, run, call, tab, left>>

\* begin_download, and the duplicate check behind it.
Takes ==
    /\ At("take")
    /\ LET c == First(wk.todo)
           skipped == [wk EXCEPT !.pc = "next", !.todo = @ \ {c}]
       IN IF row[c] # "pending" THEN wk' = skipped /\ UNCHANGED row
          ELSE IF c \in Known THEN wk' = skipped /\ row' = Put({c}, "skipped")
          ELSE /\ wk' = [wk EXCEPT !.pc = "fetch"]
               /\ row' = Put({c}, "downloading")
    /\ Crossing(hist.since)
    /\ UNCHANGED <<job, ledger, disk, away, run, call, tab, left>>

\* The file lands, or _record_failure: the row, whatever it is by now.
Lands ==
    /\ At("fetch")
    /\ LET c == First(wk.todo) IN \E bad \in BOOLEAN :
         /\ row' = Put({c}, IF bad THEN "failed" ELSE "done")
         /\ disk' = IF bad THEN disk ELSE disk \cup {c}
         /\ wk' = [wk EXCEPT !.pc = "count", !.bad = bad]
    /\ UNCHANGED <<job, ledger, away, run, call, tab, hist, left>>

\* ... and the ledger and the counter.
CountsLanded ==
    /\ At("count") /\ ~wk.bad
    /\ LET c == First(wk.todo)
       IN /\ ledger' = ledger \cup {c}
          /\ wk' = [wk EXCEPT !.pc = "next", !.todo = @ \ {c}, !.n = 0]
    /\ job' = [job EXCEPT !.done = @ + 1]
    /\ UNCHANGED <<row, disk, away, run, call, tab, hist, left>>

\* A failure: go on, or it is one too many of the same kind.
CountsFailed ==
    /\ At("count") /\ wk.bad
    /\ \E n \in {1, wk.n + 1} :
         IF n < Streak
         THEN /\ job' = [job EXCEPT !.failed = @ + 1]
              /\ wk' = [wk EXCEPT !.pc = "next", !.bad = FALSE, !.n = n,
                                  !.todo = @ \ {First(wk.todo)}]
         ELSE /\ job' = [job EXCEPT !.failed = @ + 1, !.phase = "failed"]
              /\ wk' = Asleep
    /\ Crossing(job'.phase # "downloading" /\ hist.since)
    /\ UNCHANGED <<row, ledger, disk, away, run, call, tab, left>>

\* A failure that says the server's address is blocked: the job fails with the
\* rest pending, or, when it was handed back, ends done with the rest failed.
CountsBlocked ==
    /\ At("count") /\ wk.bad
    /\ LET rest == InState("pending")
       IN IF wk.handed
          THEN /\ row' = Put(rest, "failed")
               /\ job' = [job EXCEPT !.phase = "done",
                                     !.failed = @ + 1 + Cardinality(rest)]
          ELSE /\ job' = [job EXCEPT !.failed = @ + 1, !.phase = "failed"]
               /\ UNCHANGED row
    /\ wk' = Asleep
    /\ Crossing(job'.phase # "downloading" /\ hist.since)
    /\ UNCHANGED <<ledger, disk, away, run, call, tab, left>>

\* Whatever a phase raises fails the job.
Raises ==
    /\ wk.pc \notin {"idle"} /\ left.mishaps > 0
    /\ job' = Over_("failed")
    /\ wk' = Asleep
    /\ left' = [left EXCEPT !.mishaps = @ - 1]
    /\ hist' = [hist EXCEPT !.crossed = @ \/ hist.since,
                          !.dropped = @ \/ InState("downloading") # {}]
    /\ UNCHANGED <<row, ledger, disk, away, run, call, tab>>

\* The clip the worker is fetching.
InHand == IF wk.pc = "fetch" THEN {First(wk.todo)} ELSE {}

\* Defective: the rows in flight stay in flight.
RestartLeaves ==
    /\ left.mishaps > 0
    /\ left' = [left EXCEPT !.mishaps = @ - 1]
    /\ wk' = Asleep
    /\ call' = [m \in Machines |-> NoCall]
    /\ tab' = [t \in Tabs |-> "no"]
    /\ UNCHANGED <<job, row, ledger, disk, away, run, hist>>

\* The container is restarted: every thread of it dies where it stands, and
\* reset_stale_jobs puts the rows in flight back.  The file of the clip in hand
\* may have landed just before.
Restart ==
    /\ left.mishaps > 0
    /\ left' = [left EXCEPT !.mishaps = @ - 1]
    /\ row' = Put(InState("downloading"), "pending")
    /\ wk' = Asleep
    /\ call' = [m \in Machines |-> NoCall]
    /\ tab' = [t \in Tabs |-> "no"]
    /\ disk' \in {disk, disk \cup InHand}
    /\ hist' = [hist EXCEPT !.dropped = FALSE,
                          !.torn = @ \/ (job.phase # "downloading" /\ Unsettled # {})]
    /\ UNCHANGED <<job, ledger, away, run>>

-----------------------------------------------------------------------------
Init ==
    /\ job = [phase |-> "ready", cancel |-> FALSE, mode |-> "server",
              lock |-> FALSE, holder |-> Nobody, lease |-> "none",
              done |-> 0, failed |-> 0]
    /\ row = [c \in Clips |-> "none"]
    /\ ledger = {} /\ disk = {} /\ away = {}
    /\ hist = [old |-> {}, since |-> FALSE, back |-> FALSE,
             found |-> FALSE, crossed |-> FALSE, dropped |-> FALSE, torn |-> FALSE]
    /\ wk = Asleep
    /\ run = [m \in Machines |-> Idle]
    /\ call = [m \in Machines |-> NoCall]
    /\ tab = [t \in Tabs |-> "no"]
    /\ left = [presses |-> Presses, stops |-> Stops, claims |-> Claims,
               resends |-> Resends, mishaps |-> Mishaps]

ServerStep ==
    \/ Picks \/ SetsUp \/ Credits \/ Waits \/ Lists \/ Turns \/ Takes \/ Lands
    \/ CountsLanded \/ CountsFailed \/ CountsBlocked

Handler(m) ==
    Manifest(m) \/ Say(m) \/ Moves(m) \/ Counts(m) \/ Requeues(m) \/ EndsLease(m)
Companion(m) == Asks(m) \/ Gone(m) \/ NextClip(m) \/ Fetched(m)
Answers(t) == Marks(t) \/ Clears(t) \/ Starts(t) \/ Expires(t)

Next ==
    \/ \E t \in Tabs : PressChecks(t) \/ Cancel(t) \/ Pin(t) \/ Answers(t)
    \/ \E m \in Machines : Claim(m) \/ Leave(m) \/ Companion(m) \/ Handler(m)
    \/ \E c \in Clips : Upload(c)
    \/ Lapse \/ ServerStep \/ Raises \/ Restart

Spec == Init /\ [][Next]_vars

\* The worker's loop and the handlers go on; a companion that is up works and
\* beats; a lease nobody is beating lapses.
FairSpec ==
    /\ Spec
    /\ WF_vars(ServerStep)
    /\ \A t \in Tabs : WF_vars(Answers(t))
    /\ \A m \in Machines :
         /\ WF_vars(Handler(m))
         /\ WF_vars(Companion(m))
         /\ WF_vars(Lapse /\ job.holder = m /\ run[m] = Idle)

-----------------------------------------------------------------------------
TypeOK ==
    /\ job \in Job
    /\ row \in [Clips -> DlStates]
    /\ ledger \subseteq Clips /\ disk \subseteq Clips /\ away \subseteq Clips
    /\ wk \in Worker
    /\ run \in [Machines -> Run]
    /\ call \in [Machines -> Call]
    /\ tab \in [Tabs -> {"no", "checked", "marked", "cleared", "expiring"}]
    /\ hist \in Hist


(* What one executor at a time comes to.  hist.crossed excuses exactly the     *)
(* moments at which an executor acted on a job that was the other's, which     *)
(* the comments of both programs rule out and the code does not:               *)
(*   - the worker takes a clip, ends the job or goes on to the next clip when  *)
(*     a machine has claimed the job since the worker picked it;               *)
(*   - the worker reclaims a job that has been claimed again meanwhile;        *)
(*   - a fleet route goes on writing after its caller's lease is gone, or when *)
(*     the same machine has claimed the job again;                             *)
(*   - DOWNLOAD is pressed in two tabs: a press marks clips of a job that is   *)
(*     running or cancelled by now, or that another press is about to start.   *)
Clean == ~hist.crossed

AtRest ==
    /\ job.phase \in {"done", "failed"} /\ wk = Asleep
    /\ \A m \in Machines : call[m] = NoCall
    /\ \A t \in Tabs : tab[t] = "no"

\* A job that says done has no clip waiting or in flight, whenever the executors
\* did not cross: reclaims, hand-backs, stand-downs, cancels and answers sent
\* twice included.  (worker.py ends the phase when its own list is through,
\* whoever has the other clips: crossed, it leaves them in flight.)
SettledUncrossed ==
    Clean /\ ~hist.dropped /\ ~hist.torn /\ AtRest /\ job.phase = "done" => Unsettled = {}

\* After crashes as well: no clip of a done job is left in flight, which no
\* RETRY would queue again.  (A phase that raises with a clip in flight leaves it
\* so, and a retry of the others ends done: dropped, until reset_stale_jobs.)
NoClipStranded ==
    Clean /\ ~hist.dropped /\ job.phase = "done" => InState("downloading") = {}

\* Nothing has died or raised so far.
NoMishap == left.mishaps = Mishaps

\* The counters the page shows are the rows: every clip of this run that is done
\* is counted once, and dl_failed counts the clips that are failed now, whatever
\* was requeued, reclaimed or reported twice (finish_download, requeue_failed).
\* (_reclaim_local_job counts a failed clip it finds as done and still as failed:
\* found.)
CountersTrue ==
    Clean /\ ~hist.found /\ NoMishap /\ AtRest =>
        /\ job.done = Cardinality(InState("done") \ hist.old)
        /\ job.failed = Cardinality(InState("failed"))

\* The clip in the worker's hands is the worker's: it is on no list of the machine
\* that holds the job, in its thread or in a request of it, and nobody else settles
\* it or queues it again before the worker has (begin_download, the manifest's
\* list, the look at the lease between clips).  A machine that holds the job no
\* longer is not covered: it goes on fetching until its next report or heartbeat
\* is answered 410, and until then both may be fetching one clip.  The clip
\* stays in flight for the worker all the same, unless a request of that machine's
\* was past its check already (crossed).
OneExecutor ==
    Clean /\ wk.pc = "fetch" =>
        /\ row[First(wk.todo)] = "downloading"
        /\ \A m \in Machines :
              LeaseLive /\ job.holder = m => First(wk.todo) \notin run[m].todo \cup call[m].todo

\* Once the server has had the job back, by reclaim or hand-back, no machine
\* holds it again in that run (mode_lock, "One-way").
BackForGood == hist.back => ~LeaseLive

\* A download ends: a machine that dies, a lost answer, a restart or a hand-back
\* never leave it "downloading" for ever.
DownloadEnds == (job.phase = "downloading") ~> (job.phase \in Over)
=============================================================================
