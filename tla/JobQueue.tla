------------------------------ MODULE JobQueue ------------------------------
(***************************************************************************)
(* The dashboard's fleet job queue: the `jobs` table of                     *)
(* ccsync_dashboard/db.py, the HTTP handlers of api.py that move its rows,  *)
(* the collector's lease sweep and the in-container pinned executor of      *)
(* cards_exec.py.                                                           *)
(*                                                                          *)
(* A handler reads in autocommit (db.connect keeps sqlite3's default        *)
(* isolation) and takes the write lock only at its first write.  A handler  *)
(* that decides on what it read is therefore two steps here: a Start that   *)
(* records what was read, and a Write that applies it under the lock.  A    *)
(* handler that is one UPDATE whose whole rule is in its WHERE clause is    *)
(* one step, and so is the collector's cycle, which has deleted old history *)
(* (and so holds the lock) before it reads the leases.                      *)
(***************************************************************************)
EXTENDS Integers, FiniteSets

CONSTANTS
    Jobs,        \* row ids that may be used (AUTOINCREMENT: none is reused)
    Machines,    \* (editor, machine) pairs
    Kinds,
    KindOf,      \* the kind a row id is created with
    Forced,      \* rows submitted with forced=True
    Able,        \* machine -> rows its capabilities, its allow-list and the row's
                 \* target_machine admit
    Budget,      \* kind -> JOB_RETRY_BUDGET
    Cap,         \* kind -> JOB_MAX_RUNNING, the fleet cap
    Pinnable,    \* JOB_PINNABLE_KINDS
    Threads,     \* request and collector threads of the dashboard
    Dash,        \* PIN_HOLDER
    Nobody,      \* NULL in claimed_machine
    NoJob,
    NoEngine,    \* _NO_ENGINE: the executor's last pass found no engine to hand work to
    FlakyWrites  \* may the executor's closing write raise "database is locked"?

ASSUME JobQueueAssumption ==
    /\ KindOf \in [Jobs -> Kinds]
    /\ Able \in [Machines -> SUBSET Jobs]
    /\ Budget \in [Kinds -> Nat \ {0}]
    /\ Cap \in [Kinds -> Nat \ {0}]
    /\ Dash \notin Machines /\ Nobody \notin Machines /\ Dash # Nobody
    /\ NoJob \notin Jobs /\ NoEngine \notin Jobs /\ NoJob # NoEngine
    /\ FlakyWrites \in BOOLEAN
    /\ IsFiniteSet(Jobs)

VARIABLES
    jobs,        \* the table: id -> row
    cool,        \* machines whose jobs_cooldown_until has not passed
    tx,          \* thread -> the handler it is inside, with what it read
    hand         \* the pinned job the executor thread is running, NoJob in a pass
                 \* that found an engine and between its jobs, or NoEngine

vars == <<jobs, cool, tx, hand>>

-----------------------------------------------------------------------------
(* Rows *)

HeldStates == {"claimed", "running"}
TerminalStates == {"done", "failed", "abandoned"}
\* "absent": not inserted yet; "pruned": deleted after 30 days.
States == HeldStates \cup TerminalStates
            \cup {"queued", "pinned", "absent", "pruned"}

\* A lease is "live" while lease_expires_at is in the future.
Row == [state    : States,
        holder   : Machines \cup {Nobody, Dash},
        lease    : {"none", "live", "lapsed"},
        attempts : Nat,
        cancel   : BOOLEAN,
        retryOf  : Jobs \cup {NoJob}]

Blank == [state |-> "absent", holder |-> Nobody, lease |-> "none",
          attempts |-> 0, cancel |-> FALSE, retryOf |-> NoJob]
NoRows == [j \in Jobs |-> Blank]

Held(r) == r.state \in HeldStates
HeldBy(r, m) == Held(r) /\ r.holder = m
Terminal(r) == r.state \in TerminalStates
Open(r) == r.state \in HeldStates \cup {"queued", "pinned"}
Lapsed(r) == Held(r) /\ r.lease = "lapsed"

HeldOf(rows, k) == {j \in Jobs : Held(rows[j]) /\ KindOf[j] = k}

Queued(from) == [Blank EXCEPT !.state = "queued", !.retryOf = from]

Claimed(r, m) == [r EXCEPT !.state = "claimed", !.holder = m, !.lease = "live"]

\* What becomes of a row whose attempt failed, from the row as it was read.
SpentState(j, pin) ==
    IF pin /\ KindOf[j] \in Pinnable THEN "pinned" ELSE "abandoned"

\* Defective: one attempt too many.
AfterAttemptLate(j, read, pin, final) ==
    IF read.cancel \/ final THEN "failed"
    ELSE IF read.attempts >= Budget[KindOf[j]] THEN SpentState(j, pin)
    ELSE "queued"

\* Defective: fail_job and expire_leases before they looked at cancel_requested_at.
AfterAttemptDeaf(j, read, pin, final) ==
    IF final THEN "failed"
    ELSE IF read.attempts + 1 >= Budget[KindOf[j]] THEN SpentState(j, pin)
    ELSE "queued"

AfterAttempt(j, read, pin, final) ==
    IF read.cancel \/ final THEN "failed"
    ELSE IF read.attempts + 1 >= Budget[KindOf[j]] THEN SpentState(j, pin)
    ELSE "queued"

LetGo(j, read, pin, final) ==
    [jobs[j] EXCEPT !.state = AfterAttempt(j, read, pin, final),
                    !.attempts = read.attempts + 1,
                    !.holder = Nobody, !.lease = "none"]

\* The predicate of claim_job's UPDATE.
Claimable(rows, j) ==
    /\ rows[j].state = "queued"
    /\ ~rows[j].cancel
    /\ Cardinality(HeldOf(rows, KindOf[j])) < Cap[KindOf[j]]

\* Defective: offers without the one-job-per-machine refusal.
OffersToBusy(rows, cooling, m) ==
    {j \in Jobs : /\ rows[j].state = "queued" /\ ~rows[j].cancel
                  /\ j \in Able[m]
                  /\ m \notin cooling \/ j \in Forced}

\* offers_for_machine.  Idleness, halts and upgrades can only remove offers;
\* ClaimStart and ClaimSweep may come to nothing, which covers them.
Offers(rows, cooling, m) ==
    {j \in Jobs : /\ Claimable(rows, j)
                  /\ j \in Able[m]
                  /\ m \notin cooling \/ j \in Forced
                  /\ \A x \in Jobs : ~HeldBy(rows[x], m)}

-----------------------------------------------------------------------------
(* Handlers in progress *)

Ops == {"idle", "claim", "take", "fail", "cancel", "retry"}

Tx == [op : Ops, who : Machines \cup {Nobody}, ids : SUBSET Jobs,
       seen : [Jobs -> Row], final : BOOLEAN]

Idle == [op |-> "idle", who |-> Nobody, ids |-> {}, seen |-> NoRows,
         final |-> FALSE]

Reading(S) == [j \in Jobs |-> IF j \in S THEN jobs[j] ELSE Blank]

Started(t, op, who, ids, rows, final) ==
    /\ tx[t] = Idle
    /\ tx' = [tx EXCEPT ![t] = [op |-> op, who |-> who, ids |-> ids,
                                seen |-> rows, final |-> final]]

Ended(t) == tx' = [tx EXCEPT ![t] = Idle]

\* The companion's runner makes one blocking call at a time, and its 20 s HTTP
\* timeout outlasts a handler's 5 s wait for the write lock.  The heartbeat has a
\* thread of its own and beats whatever the runner is waiting for.
Calling(m) == \E t \in Threads : tx[t].who = m

LapsedIds == {j \in Jobs : Lapsed(jobs[j])}

\* Defective: the UPDATE forgets to ask that the lease is still lapsed.
SweptRowsBlind(ids, read, pin) ==
    [j \in Jobs |-> IF j \in ids /\ Held(jobs[j])
                    THEN LetGo(j, read[j], pin, FALSE) ELSE jobs[j]]

\* Defective: the holder is looked up after the UPDATE has cleared it.
SweptCoolAfter(ids, read) ==
    cool \cup {LetGo(j, read[j], FALSE, FALSE).holder : j \in ids \cap LapsedIds}

\* expire_leases's UPDATEs, from the rows it read: only those still held on a
\* lapsed lease move, and their holders are left alone for a while.
SweptRows(ids, read, pin) ==
    [j \in Jobs |-> IF j \in ids \cap LapsedIds
                    THEN LetGo(j, read[j], pin, FALSE) ELSE jobs[j]]
SweptCool(ids, read) == cool \cup {read[j].holder : j \in ids \cap LapsedIds}

-----------------------------------------------------------------------------
(* Submitting, trying again, stopping *)

\* api_create_job / create_job.
Create(j) ==
    /\ jobs[j].state = "absent"
    /\ jobs' = [jobs EXCEPT ![j] = Queued(NoJob)]
    /\ UNCHANGED <<cool, tx, hand>>

OpenRetryOf(j) == {n \in Jobs : Open(jobs[n]) /\ jobs[n].retryOf = j}

\* api_retry_job / retry_job, its two refusals.
RetryStart(t, j) ==
    /\ Terminal(jobs[j])
    /\ OpenRetryOf(j) = {}
    /\ Started(t, "retry", Nobody, {j}, NoRows, FALSE)
    /\ UNCHANGED <<jobs, cool, hand>>

\* ... and its INSERT.  The finite set of row ids is the model's bound.
RetryWrite(t) ==
    /\ tx[t].op = "retry"
    /\ \E j \in tx[t].ids :
         LET fresh == {n \in Jobs : /\ jobs[n].state = "absent"
                                    /\ KindOf[n] = KindOf[j]
                                    /\ (n \in Forced) = (j \in Forced)}
         IN \/ \E n \in fresh : jobs' = [jobs EXCEPT ![n] = Queued(j)]
            \/ fresh = {} /\ UNCHANGED jobs
    /\ Ended(t)
    /\ UNCHANGED <<cool, hand>>

\* request_job_cancel: the unlocked read.
CancelStart(t, j) ==
    /\ Open(jobs[j])
    /\ Started(t, "cancel", Nobody, {j}, Reading({j}), FALSE)
    /\ UNCHANGED <<jobs, cool, hand>>

\* ... and the writes: a row read queued and still queued ends here; otherwise
\* the request is recorded if the row is held or pinned by now.
CancelWrite(t) ==
    /\ tx[t].op = "cancel"
    /\ \E j \in tx[t].ids :
         LET r == jobs[j]
         IN \/ /\ tx[t].seen[j].state = "queued" /\ r.state = "queued"
               /\ jobs' = [jobs EXCEPT ![j].state = "failed", ![j].cancel = TRUE]
            \/ /\ Held(r) \/ r.state = "pinned"
               /\ jobs' = [jobs EXCEPT ![j].cancel = TRUE]
            \/ /\ Terminal(r) \/ (r.state = "queued" /\ tx[t].seen[j].state # "queued")
               /\ UNCHANGED jobs
    /\ Ended(t)
    /\ UNCHANGED <<cool, hand>>

-----------------------------------------------------------------------------
(* A machine's calls *)

\* api_claim_job up to its first write.  With no lapsed row to sweep, what it
\* reads is what it will offer; nothing is locked.
ClaimStart(t, m) ==
    /\ ~Calling(m)
    /\ \/ /\ LapsedIds # {}
          /\ Started(t, "claim", m, LapsedIds, Reading(LapsedIds), FALSE)
       \/ /\ LapsedIds = {}
          /\ Started(t, "take", m, Offers(jobs, cool, m), NoRows, FALSE)
    /\ UNCHANGED <<jobs, cool, hand>>

\* The sweep's UPDATE took the write lock, so the offers and the claim that
\* follow it are read and written under it.
ClaimSweep(t) ==
    /\ tx[t].op = "claim"
    /\ cool' = SweptCool(tx[t].ids, tx[t].seen)
    /\ \E pin \in BOOLEAN :
         LET rows == SweptRows(tx[t].ids, tx[t].seen, pin)
         IN \/ jobs' = rows
            \/ \E j \in Offers(rows, cool', tx[t].who) :
                  jobs' = [rows EXCEPT ![j] = Claimed(@, tx[t].who)]
    /\ Ended(t)
    /\ UNCHANGED hand

\* Defective: the fleet cap counted only when the offer was made.
ClaimTakeUncapped(t) ==
    /\ tx[t].op = "take"
    /\ \/ \E j \in tx[t].ids :
             /\ jobs[j].state = "queued" /\ ~jobs[j].cancel
             /\ jobs' = [jobs EXCEPT ![j] = Claimed(@, tx[t].who)]
       \/ /\ \A j \in tx[t].ids : jobs[j].state # "queued" \/ jobs[j].cancel
          /\ UNCHANGED jobs
    /\ Ended(t)
    /\ UNCHANGED <<cool, hand>>

\* claim_next_job / claim_job: the first offered row the UPDATE still matches.
ClaimTake(t) ==
    /\ tx[t].op = "take"
    /\ \/ \E j \in tx[t].ids :
             /\ Claimable(jobs, j)
             /\ jobs' = [jobs EXCEPT ![j] = Claimed(@, tx[t].who)]
       \/ /\ \A j \in tx[t].ids : ~Claimable(jobs, j)
          /\ UNCHANGED jobs
    /\ Ended(t)
    /\ UNCHANGED <<cool, hand>>

\* heartbeat_job: never a re-claim, so a lapsed lease is not extended.
Heartbeat(m, j) ==
    /\ HeldBy(jobs[j], m) /\ jobs[j].lease = "live"
    /\ jobs' = [jobs EXCEPT ![j].state = "running"]
    /\ UNCHANGED <<cool, tx, hand>>

\* Defective: the lease column survives the finish.
FinishKeepingLease(m, j) ==
    /\ ~Calling(m)
    /\ HeldBy(jobs[j], m)
    /\ jobs' = [jobs EXCEPT ![j].state = "done"]
    /\ cool' = cool \ {m}
    /\ UNCHANGED <<tx, hand>>

\* finish_job: a lapsed lease may still finish; the holder columns stay.
Finish(m, j) ==
    /\ ~Calling(m)
    /\ HeldBy(jobs[j], m)
    /\ jobs' = [jobs EXCEPT ![j].state = "done", ![j].lease = "none"]
    /\ cool' = cool \ {m}
    /\ UNCHANGED <<tx, hand>>

\* fail_job: the SELECT.
FailStart(t, m, j, final) ==
    /\ ~Calling(m)
    /\ HeldBy(jobs[j], m)
    /\ Started(t, "fail", m, {j}, Reading({j}), final)
    /\ UNCHANGED <<jobs, cool, hand>>

\* Defective: an UPDATE by id alone, after the lease was lost.
FailWriteById(t) ==
    /\ tx[t].op = "fail"
    /\ \E j \in tx[t].ids, pin \in BOOLEAN :
          jobs' = [jobs EXCEPT ![j] = LetGo(j, tx[t].seen[j], pin, tx[t].final)]
    /\ Ended(t)
    /\ UNCHANGED <<cool, hand>>

\* ... and the UPDATE, whose WHERE names the holder and not the state.
FailWrite(t) ==
    /\ tx[t].op = "fail"
    /\ \E j \in tx[t].ids, pin \in BOOLEAN :
         /\ \/ /\ jobs[j].holder = tx[t].who
               /\ jobs' = [jobs EXCEPT ![j] = LetGo(j, tx[t].seen[j], pin, tx[t].final)]
            \/ /\ jobs[j].holder # tx[t].who
               /\ UNCHANGED jobs
         /\ cool' = IF tx[t].final \/ tx[t].seen[j].cancel
                    THEN cool ELSE cool \cup {tx[t].who}
    /\ Ended(t)
    /\ UNCHANGED hand

-----------------------------------------------------------------------------
(* The collector's prune cycle *)

\* Rows old enough to drop: finished 30 days ago, so read by no open handler.
Aged == {j \in Jobs : Terminal(jobs[j]) /\ \A t \in Threads : j \notin tx[t].ids}

Without(rows, P) ==
    [j \in Jobs |-> IF j \in P THEN [Blank EXCEPT !.state = "pruned"] ELSE rows[j]]

\* Defective: a cycle that only deletes old rows and leaves leases to claimants.
PruneOnly(pin, P) ==
    /\ P # {} /\ P \subseteq Aged
    /\ jobs' = Without(jobs, P)
    /\ UNCHANGED <<cool, tx, hand>>

\* db.prune: expire_leases, then prune_jobs, under the lock throughout.
Prune(pin, P) ==
    /\ LapsedIds \cup P # {}
    /\ P \subseteq Aged
    /\ jobs' = Without(SweptRows(LapsedIds, jobs, pin), P)
    /\ cool' = SweptCool(LapsedIds, jobs)
    /\ UNCHANGED <<tx, hand>>

-----------------------------------------------------------------------------
(* The pinned executor *)

\* tick's first line.  Any engine runs any job, and the pool has one only while
\* somebody has an episode open; who opens and closes it is nobody's duty.  What a
\* pass over no waiting row finds is left out: nothing comes of it.
Look ==
    /\ \E j \in Jobs : jobs[j].state = "pinned" /\ jobs[j].holder = Nobody
    /\ hand \in {NoJob, NoEngine}
    /\ hand' \in {NoJob, NoEngine} \ {hand}
    /\ UNCHANGED <<jobs, cool, tx>>

\* take_pinned_job, committed before the engine starts.  An engine that goes
\* while a pass is under way fails the job just taken (PinFail).
PinTake(j) ==
    /\ hand = NoJob
    /\ jobs[j].state = "pinned" /\ jobs[j].holder = Nobody
    /\ jobs' = [jobs EXCEPT ![j].holder = Dash]
    /\ hand' = j
    /\ UNCHANGED <<cool, tx>>

\* finish_pinned_job.
PinFinish(j) ==
    /\ hand = j
    /\ jobs' = IF jobs[j].state = "pinned"
               THEN [jobs EXCEPT ![j].state = "done"] ELSE jobs
    /\ hand' = NoJob
    /\ UNCHANGED <<cool, tx>>

\* Defective: a job the executor fails goes back to the executor.
PinFailAgain(j) ==
    /\ hand = j
    /\ jobs' = IF jobs[j].state = "pinned"
               THEN [jobs EXCEPT ![j].holder = Nobody] ELSE jobs
    /\ hand' = NoJob
    /\ UNCHANGED <<cool, tx>>

\* fail_pinned_job: an engine error, a stop, a cancel.
PinFail(j) ==
    /\ hand = j
    /\ jobs' = IF jobs[j].state = "pinned"
               THEN [jobs EXCEPT ![j].state = "abandoned", ![j].holder = Nobody,
                                 ![j].attempts = @ + 1]
               ELSE jobs
    /\ hand' = NoJob
    /\ UNCHANGED <<cool, tx>>

\* Either closing UPDATE raises after busy_timeout; _loop logs and goes on.
PinWriteFails(j) ==
    /\ FlakyWrites
    /\ hand = j
    /\ hand' = NoJob
    /\ UNCHANGED <<jobs, cool, tx>>

\* Defective: a boot that does not release what the dead process had in hand.
RestartHolding ==
    /\ tx' = [t \in Threads |-> Idle]
    /\ hand' = NoEngine
    /\ UNCHANGED <<jobs, cool>>

\* The container goes down (open handlers roll back, the engine dies) and boots
\* again: app.py calls release_pinned_jobs before it starts the executor, and the
\* pool of engines is empty.
Restart ==
    /\ jobs' = [j \in Jobs |->
                  IF jobs[j].state = "pinned" /\ jobs[j].holder = Dash
                  THEN [jobs[j] EXCEPT !.holder = Nobody] ELSE jobs[j]]
    /\ tx' = [t \in Threads |-> Idle]
    /\ hand' = NoEngine
    /\ UNCHANGED cool

-----------------------------------------------------------------------------
(* Time *)

\* A lease is 300 s and a handler waits at most 5 s for the lock, so a lease
\* granted behind a claim's open sweep cannot lapse before that sweep writes; the
\* sweep's own `now`, taken before its read, would not match it either.
LeaseRunsOut(j) ==
    /\ Held(jobs[j]) /\ jobs[j].lease = "live"
    /\ \A t \in Threads : tx[t].op = "claim" => j \notin tx[t].ids
    /\ jobs' = [jobs EXCEPT ![j].lease = "lapsed"]
    /\ UNCHANGED <<cool, tx, hand>>

CooldownOver(m) ==
    /\ m \in cool
    /\ cool' = cool \ {m}
    /\ UNCHANGED <<jobs, tx, hand>>

-----------------------------------------------------------------------------
Init ==
    /\ jobs = NoRows
    /\ cool = {}
    /\ tx = [t \in Threads |-> Idle]
    /\ hand = NoEngine

Admin ==
    \/ \E j \in Jobs : Create(j)
    \/ \E t \in Threads, j \in Jobs : RetryStart(t, j) \/ CancelStart(t, j)
    \/ \E t \in Threads : RetryWrite(t) \/ CancelWrite(t)

Machine ==
    \/ \E t \in Threads, m \in Machines : ClaimStart(t, m)
    \/ \E t \in Threads : ClaimSweep(t) \/ ClaimTake(t) \/ FailWrite(t)
    \/ \E m \in Machines, j \in Jobs : Heartbeat(m, j) \/ Finish(m, j)
    \/ \E t \in Threads, m \in Machines, j \in Jobs, final \in BOOLEAN :
          FailStart(t, m, j, final)

Container ==
    \/ \E pin \in BOOLEAN, P \in SUBSET Jobs : Prune(pin, P)
    \/ \E j \in Jobs : PinTake(j) \/ PinFinish(j) \/ PinFail(j) \/ PinWriteFails(j)
    \/ Look
    \/ Restart

Time ==
    \/ \E j \in Jobs : LeaseRunsOut(j)
    \/ \E m \in Machines : CooldownOver(m)

Next == Admin \/ Machine \/ Container \/ Time

Spec == Init /\ [][Next]_vars
-----------------------------------------------------------------------------
(* Properties *)

\* Every row, every open handler and the executor's hand keep their type.
TypeOK ==
    /\ jobs \in [Jobs -> Row]
    /\ cool \subseteq Machines
    /\ tx \in [Threads -> Tx]
    /\ hand \in Jobs \cup {NoJob, NoEngine}

\* A job held by a machine always carries a lease and a machine's name, and a
\* job that is waiting carries neither: a held row without a lease is one the
\* sweep (lease_expires_at IS NOT NULL) could never bring back.
HoldIsLeased ==
    \A j \in Jobs :
        /\ Held(jobs[j]) <=> jobs[j].lease # "none"
        /\ Held(jobs[j]) => jobs[j].holder \in Machines
        /\ jobs[j].state = "queued" => jobs[j].holder = Nobody
        /\ jobs[j].state = "pinned" => jobs[j].holder \in {Nobody, Dash}

\* No job is waiting for, or running, an attempt its kind's retry budget does
\* not have, whatever mix of failures, lapsed leases and races brought it there.
BudgetKept ==
    \A j \in Jobs : jobs[j].state \in HeldStates \cup {"queued"} =>
                        jobs[j].attempts < Budget[KindOf[j]]

\* The fleet cap holds at every instant, not only when the offer was counted:
\* claims that read the same count must not all be granted.
WithinCap == \A k \in Kinds : Cardinality(HeldOf(jobs, k)) <= Cap[k]

\* A machine never holds two jobs, though claim_job's UPDATE does not look at
\* what else the caller holds and the offers were read outside the lock.
OneJobPerMachine ==
    \A m \in Machines, i, j \in Jobs :
        HeldBy(jobs[i], m) /\ HeldBy(jobs[j], m) => i = j

\* What the executor is running is a pinned row marked as in this container's
\* hands, and a row so marked is being run: none is pinned with no worker.
InHandIsWorked ==
    /\ hand \in Jobs => jobs[hand].state = "pinned"
    /\ \A j \in Jobs : (jobs[j].state = "pinned" /\ jobs[j].holder = Dash) <=> hand = j

\* The outcome of a job is never rewritten: no late failure, sweep, cancel or
\* retry moves a finished row; it can only be deleted by age.
EndedStays ==
    [][\A j \in Jobs : Terminal(jobs[j]) =>
          jobs'[j] = jobs[j] \/ jobs'[j].state = "pruned"]_vars

\* The pin is one-way: once the fleet has spent the budget the job is never
\* queued for or held by a machine again.
PinIsOneWay ==
    [][\A j \in Jobs : jobs[j].state = "pinned" =>
          jobs'[j].state \in {"pinned", "done", "abandoned"}]_vars

\* This step is the write of a handler that read the row before it was cancelled.
ReadBefore(j) ==
    \E t \in Threads : /\ tx[t].op \in {"claim", "fail"} /\ tx'[t] = Idle
                       /\ j \in tx[t].ids /\ ~tx[t].seen[j].cancel

\* No machine begins a job after somebody asked for it to be stopped, through
\* any interleaving of the cancel with claims, failures and sweeps.  Nor does the
\* job become the executor's work behind the cancel's back, but by a failure or a
\* claim's sweep whose unlocked read came before the cancel.
CancelledNeverStarts ==
    [][\A j \in Jobs : jobs[j].cancel =>
          /\ jobs'[j].cancel \/ jobs'[j].state = "pruned"
          /\ Held(jobs'[j]) => Held(jobs[j]) /\ jobs'[j].holder = jobs[j].holder
          /\ jobs'[j].state = "pinned" => jobs[j].state = "pinned" \/ ReadBefore(j)]_vars

\* While a lease is live only its holder's own answer takes the job from it:
\* neither a sweep working from an old read nor another machine's late report.
LiveLeaseProtects ==
    [][\A j \in Jobs, m \in Machines :
          (HeldBy(jobs[j], m) /\ jobs[j].lease = "live" /\ ~HeldBy(jobs'[j], m)) =>
             \/ jobs'[j].state = "done" /\ jobs'[j].holder = m
             \/ \E t \in Threads : /\ tx[t].op = "fail" /\ tx[t].who = m
                                   /\ j \in tx[t].ids /\ tx'[t] = Idle]_vars

-----------------------------------------------------------------------------
(* The promise this queue implements, and how a row is read as a job's life. *)

PhaseOf(r) == CASE r.state = "absent" -> "none"
                [] r.state = "queued" -> "waiting"
                [] r.state \in HeldStates -> "granted"
                [] r.state = "pinned" -> "house"
                [] r.state \in TerminalStates -> "over"
                [] OTHER -> "forgotten"

\* A claim counts as a try from the moment it is granted; the row counts it
\* (attempts) only when the attempt ends.
GrantedOf(r) == IF Held(r) THEN r.attempts + 1
                ELSE IF r.state \in {"queued", "pinned"} THEN r.attempts ELSE 0

Life == INSTANCE JobLifecycle WITH
            Tries     <- [j \in Jobs |-> Budget[KindOf[j]]],
            HouseJobs <- {j \in Jobs : KindOf[j] \in Pinnable},
            NoOne     <- Nobody,
            phase     <- [j \in Jobs |-> PhaseOf(jobs[j])],
            owner     <- [j \in Jobs |-> IF Held(jobs[j]) THEN jobs[j].holder ELSE Nobody],
            granted   <- [j \in Jobs |-> GrantedOf(jobs[j])]

\* Every behaviour of the queue, races included, is one its promise allows.
ImplementsLifecycle == Life!Spec

-----------------------------------------------------------------------------
(* Liveness *)

\* A handler that has begun finishes; the collector's cycle has a thread of its
\* own and keeps coming round; the executor takes what waits if its passes find an
\* engine again and again, though not at every pass.  Nothing is assumed of the
\* companions, of admins, of who opens an episode, or of how leases run out.
HandlerEnds(t) == \/ ClaimSweep(t) \/ ClaimTake(t) \/ FailWrite(t)
                  \/ RetryWrite(t) \/ CancelWrite(t)

Fairness ==
    /\ \A t \in Threads : WF_vars(HandlerEnds(t))
    /\ WF_vars(\E pin \in BOOLEAN, P \in SUBSET Jobs : Prune(pin, P))
    /\ SF_vars(\E j \in Jobs : PinTake(j))
    /\ WF_vars(\E j \in Jobs : PinFinish(j) \/ PinFail(j))

FairSpec == Spec /\ Fairness

\* A machine that goes quiet cannot keep a job: once its lease has lapsed the
\* job is taken from it, or it answers after all.
LapsedIsSwept ==
    \A j \in Jobs : Lapsed(jobs[j]) ~> ~Lapsed(jobs[j])

\* Pinned work is settled by the executor, whatever is cancelled or swept around
\* it, unless the container keeps going down or no episode is opened any more: a
\* row may be pinned while there is an engine and wait when there is none.
PinnedIsSettled ==
    (<>[][~Restart]_vars /\ []<>(hand # NoEngine)) =>
        \A j \in Jobs : jobs[j].state = "pinned" ~> Terminal(jobs[j])

=============================================================================
