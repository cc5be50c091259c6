# Creators Club Sync: specifications and proofs

Creators Club Sync moves the media of a team of video editors between their
machines and a studio NAS. A *dashboard* (a FastAPI application and SQLite
database in a container on the NAS) directs the fleet, a *companion* runs on
every editor's machine, and web applications for b-roll, music and downloads
stand beside them. Bytes move in two ways: lanes A and B are `rclone` runs that a
companion starts, lane C is Syncthing, a service of its own that the companion
steers over REST.

This directory models the parts whose difficulty is the order in which things
happen. TLC checks the models on small instances; TLAPS proves the theorems for
every value of the constants.

Paths below are relative to the repository; `D/` stands for
`dashboard/src/ccsync_dashboard/` and `C/` for `companion/src/ccsync_companion/`.

- [The system](#the-system)
- [Modules](#modules)
- [JobQueue: the fleet job queue](#jobqueue-the-fleet-job-queue)
- [LaneBreaker: lane B's circuit breaker](#lanebreaker-lane-bs-circuit-breaker)
- [SyncHalt: stop all sync](#synchalt-stop-all-sync)
- [ClipDownload: a download and its lease](#clipdownload-a-download-and-its-lease)
- [CodeBoot: which code a container boots](#codeboot-which-code-a-container-boots)
- [IngestBatch: a batch of dropped clips](#ingestbatch-a-batch-of-dropped-clips)
- [Known behaviours of the code](#known-behaviours-of-the-code)
- [What is proved, and what is not](#what-is-proved-and-what-is-not)
- [What is not modelled](#what-is-not-modelled)

To repeat everything: `tlc -workers 2 -config X.cfg M` for every run of
PROJECT.json, and `tlapm M.tla` for `JobQueueProofs`, `LaneBreakerProofs`,
`SyncHaltProofs`, `ClipDownloadProofs`, `ClipDownloadSettledProofs`,
`ClipDownloadCountersProofs`, `CodeBootProofs` and `IngestBatchProofs`.

## The system

### Parts, their state, and how they meet

| part | state it keeps | operations | talks to |
|------|----------------|------------|----------|
| Fleet job queue (`D/db.py`, `D/jobs.py`, `D/api.py`) | the `jobs` table: state, holder, lease, attempts, cancel, retry link; a cooldown per machine | submit, retry, cancel, claim, heartbeat, finish, fail, sweep and prune | companions over HTTP; the pinned executor through the table |
| Pinned executor (`D/cards_exec.py`) | the one job in hand | take, finish, fail, release at boot | the table only |
| Companion job runner (`C/jobs_runner.py`) | current job, stop list | claim, run, heartbeat, answer | the queue; the tray; report replies |
| Lane B breaker (`C/sync/lane_guard.py`, `LaneBBreaker`) | latch, counters, remembered listing sizes; a JSON file | probe, credit, account, trip, resume | the lane B run; the sequencer; tray; dashboard through reports |
| Sync halt (`C/sync/lane_guard.py`, `HaltState`; `C/app.py`) | off / local / fleet; a JSON file | stop, release, fleet flag, gate at start, re-pause | tray, reports, sequencer, Syncthing |
| Sequencer (`C/sync/sequencer.py`, `C/sync/syncthing_admin.py`) | adopted selection, latched folders, stop and resume events | startup recovery, turns, park, sweeps, accept a folder | Syncthing, lane runs |
| Report loop (`C/reporter.py`, `D/api.py`) | last-heard status of every machine, standing requests | report, off-cycle report, reply with commands | everything above |
| Downloads (`ytdl/web/ytdlweb/`) | jobs, clips, a lease of a job to one editor's machine | search, claim, heartbeat, clip status, hand back, reclaim | worker thread, companion executor |
| B-roll and music ingest (`broll/web/app/`, `music/web/musicweb/`) | batches and items with stages, a lease per batch | claim, heartbeat, item state, upload, release, cancel | companion ingest |
| Self-update and boot (`D/dashboard_update.py`, `dashboard/deploy/select_code_root.py`) | `current.json`, boot counter, code trees | apply, rollback, retire, revert, watchdog | the container's entry point |
| Companion upgrade (`C/upgrade.py`) | installed, previous and refused builds, start counter | upgrade, revert, take over | release feed, supervisor |
| File moves (`C/file_moves.py`) | an on-disk ledger of moves | plan, apply, retry, exclude from upload | lane A, lane C |
| Resolve bridge, proxies, NAS setup, accounts, pages, indexers, installers | mostly other programs' state | many | — |

### Where it is hard

- **The dashboard reads before it locks.** `db.connect` leaves `sqlite3` in its
  default isolation: a SELECT runs in autocommit and only the first write takes
  the lock. Every handler that decides in Python on what it read is two steps with
  anything in between. What protects the data is the `WHERE` of each `UPDATE`,
  and the question for each one is whether it repeats enough of what was decided.
- **Leases.** A machine that goes quiet keeps nothing; one that answers late may
  be answering for work that is another's by now.
- **Deleting on the word of a listing.** Lane B mirrors: a server that lists
  wrongly makes it trash an editor's proxies. The breaker's account must survive
  crashes in the middle of a pass, writes the disk refuses, and resumes.
- **Commands that ride replies.** A request waits on the dashboard and is carried
  by whatever reply comes next: lost, repeated, overtaken, or about something else
  by the time it lands.
- **Pausing a service of its own.** A halt pauses Syncthing one REST call at a
  time while another thread's job is to un-pause; the halt survives a restart and
  the pauses it made may not.
- **What is in memory only**: which folders have no `.stignore`, whether a root
  has been probed, who is working on a pinned row.

Each of these places is listed with its line under `hazards` in PROJECT.json,
with the properties that would catch it going wrong. Where a property excuses
exactly the failing case, because the code does fail there, the hazard lists no
property and says so; the section on known behaviours tells what happens then.

### What would make each part correct

| part | properties |
|------|-----------|
| job queue | no machine is given a cancelled or finished job; no attempt past the budget; the fleet cap holds at every instant; one job per machine; a live lease protects; a lapsed one is taken back; pinned work stays in the house and is settled |
| breaker | loss between two go-aheads is bounded; no pass over a listing its history calls wrong; only a person opens the latch; a click opens it once, and for the trip it was made for; a trip reaches the disk |
| halt | a halt holds, through restarts and late hands; a fleet halt reaches every machine; nothing runs unfiltered; sync comes back |
| downloads | a clip is downloaded by one worker at a time; a re-sent status counts once; a job handed back is finished by somebody |
| ingest | a batch is worked by one machine; items do not go backwards; a cancelled batch ends |
| boot, upgrade | every crash ends at a tree that serves; a build fled from is not installed again |
| file moves | a move is applied once, and never uploaded half done |

## Modules

Each component is one module; an `MC` module extends it with the values a `.cfg`
cannot write; a `Proofs` module extends it with theorems.

| module | what it is | theorems |
|--------|-----------|--------|
| `JobLifecycle` | abstract: what the queue promises about one job | |
| `JobQueue` | the queue, its handlers, sweep and executor; implements `JobLifecycle` | `JobQueueProofs` |
| `LaneBreaker` | the breaker, the lane B pass, resumes, reports | `LaneBreakerProofs` |
| `SyncHalt` | halt, sequencer, lane C's folders | `SyncHaltProofs` |
| `ClipDownload` | the download lease: server worker, machines, clips, hand-back and reclaim | `ClipDownloadProofs`, `ClipDownloadSettledProofs`, `ClipDownloadCountersProofs` |
| `CodeBoot` | `current.json`, boot counter, retire, revert, refusal, apply, rollback, watchdog | `CodeBootProofs` |
| `IngestBatch` | batch lease, clip stages, archive rows and the machines that hold the batch | `IngestBatchProofs` |

The components meet only in assumptions, each named where it is made: that a
machine has one queue call open (`Calling` in `JobQueue`), that a halt rides a
report's reply (`TakeReply` in `SyncHalt`), that the breaker's resume does too
(`answering` in `LaneBreaker`). They keep no state in common.

Some properties would be false of the code as they stand, because of a crossing
that its comments rule out and its code does not. Such a crossing is remembered
in a variable of its own (`hist`, or a name such as `late`) that no guard reads,
and the property excuses it by name. So a property says what holds, and its
excuses say exactly where the code is weaker than its comments; the section on
known behaviours tells what happens then.

## JobQueue: the fleet job queue

**State.** `jobs` is the table, one row per id. `cool` holds the machines whose
`jobs_cooldown_until` has not passed. `tx` is the handler each dashboard thread is
inside, with what it has read. `hand` is the executor's thread: the job it runs,
nothing, or no engine to run one with, as after every start of the container. A
row's `lease` is live, lapsed or none in place of a time stamp; a holder is a
machine, the dashboard (`PIN_HOLDER`) or nobody.

**Actions and code.** A handler that decides on an earlier read is a `Start`, which
puts what was read into `tx`, and a `Write`, which applies it to the table as it is
by then. Where the whole rule is in one `UPDATE` it is one action.

| actions | code (`D/db.py` unless named) |
|---------|------|
| `Create` | `create_job` |
| `RetryStart`, `RetryWrite` | `retry_job`: its two refusals; its INSERT |
| `CancelStart`, `CancelWrite` | `request_job_cancel` |
| `ClaimStart` | `api_claim_job` up to its first write: `expire_leases`'s SELECT, or, with nothing to sweep, `offers_for_machine` |
| `ClaimSweep` | the sweep's UPDATEs; these take the lock, so the offers and the claim after them are read and written under it |
| `ClaimTake` | `claim_next_job`, `claim_job`: the UPDATE's predicate on the first offer that still matches |
| `Heartbeat`, `Finish` | `heartbeat_job`, `finish_job` |
| `FailStart`, `FailWrite` | `fail_job` |
| `Prune` | `db.prune`: `expire_leases` and `prune_jobs`; earlier deletes hold the lock, so it is one step |
| `Look` | `PinnedExecutor.tick`'s first line: is there an engine? |
| `PinTake`, `PinFinish`, `PinFail`, `PinWriteFails` | `take_pinned_job`, `finish_pinned_job`, `fail_pinned_job`, `cards_exec._loop` |
| `Restart` | the container dies and boots: `release_pinned_jobs` |
| `LeaseRunsOut`, `CooldownOver` | time |

Two places where time orders what the model would otherwise leave open, each from
constants in the code. `Calling(m)`: a companion's runner makes its claims, results
and failure reports one after another, and its HTTP timeout (20 s) is longer than a
handler's wait for the write lock (5 s), so a machine has one such call open at a
time. Heartbeats come from a thread of their own and are not held back by it.
`LeaseRunsOut`: a lease is 300 s, so one granted behind an open sweep does not lapse
before that sweep has written.

Machines' capabilities, allow-lists and targets are the constant `Able`. What only
takes offers away (idleness, a halt, an upgrade, the queue-depth brake) is covered
because a claim may come to nothing, and the order among offers (priorities) is
any order.

**Runs.**

| run | instance | shows | distinct states |
|-----|----------|-------|------|
| `queue_safety` | a media job (two tries, pinnable) and a forced whisper job (one try), two machines, two handlers open at once | the type invariant and the safety properties below | 1 199 000 |
| `queue_promises` | two alike media jobs, one try, cap of one, two machines, two handlers; the closing write may be refused | `WithinCap`; refinement of `JobLifecycle` | 845 000 |
| `queue_live` | one job, one machine, two handlers, fair | `LapsedIsSwept`, `PinnedIsSettled` | 11 600 |

Two machines and two handlers are what the races need: each of them is one handler
holding a stale read while another commits. Three of the properties relate two
jobs (cap, one per machine, refinement) and two jobs suffice to break them. A
budget of two tries makes both "queue again" and "budget spent" happen; the pin
follows. Row ids are bounded by `Jobs`: a retry for which no id is left inserts
nothing. `CHECK_DEADLOCK FALSE`: once every id is used and over, a small instance
has nothing left to do.

**Properties.** `HoldIsLeased`: a held row without a lease is one the sweep could
never bring back. `BudgetKept`: `attempts` is counted when an attempt ends, from
the row as read. `OneJobPerMachine`: `claim_job`'s UPDATE does not look at what
else the caller holds and the offers were read outside the lock; what makes it
true is `Calling`.
`InHandIsWorked`: a row marked in-hand is being run and the reverse. `EndedStays`,
`PinIsOneWay`, `CancelledNeverStarts`, `LiveLeaseProtects` are about steps: what
nobody's late answer, sweep or cancel may do. Behind a cancel a row is never given
to a machine, and it becomes the executor's only by a failure or a claim's sweep
that read it before the cancel (`ReadBefore`). `WithinCap`: the cap is in the
predicate of the one UPDATE, and only there is it decided.

`ImplementsLifecycle` reads every row as a job's life (`PhaseOf`) and counts a
claim as a try from the moment it is granted (`GrantedOf`), where the row counts
it only when the attempt ends; the abstract specification grants a job no more
often than its kind allows, to one machine at a time, hands it to the house only
when every try is spent, and never moves what is over.

**Fairness.** A handler that has begun finishes (an HTTP handler runs to its end);
the collector has a thread of its own and keeps coming round; an engine that runs
returns; the executor takes what waits if its passes find an engine again and again
(strong fairness of `PinTake`, for an engine may be gone at any one pass). Nothing
is assumed of companions, admins or clocks, nor that there ever is an engine: after
a start the pool is empty until an episode is opened (`D/cards_exec.py` 141), so
`PinnedIsSettled` has a hypothesis, that the container does not go down for ever and
that engines keep turning up.

## LaneBreaker: lane B's circuit breaker

**State.** `mem` and `disk` are the latch in memory and in `lane_b_breaker.json`;
`unsaved` is the payload of a write that failed and will be tried again. `credited`
and `rootOk` are the two things the breaker keeps in memory only. `pass` is the
lane B run with what rclone has trashed. `called` and `resuming` are where the
thread is that applies a resume. `request`, `shown`, `wire`, `answering` and
`replies` are the dashboard's standing request, what it last heard, and the reports
and replies under way. The rest is bookkeeping no code keeps, and no guard reads it
except as a bound: `lost` (files gone from the server since the last go-ahead),
`uncounted` (trashed by runs that died or raised before it was on file; `kept` in
`pass` tells how much is), `unjudged` (that, and all such runs trashed since the last
verdict), `amnesia` (a restart
over an unsaved write), `seen` (the last accepted listing per scope), `asked` and
`used` (which trip a click was made for, which trips it has cleared).

**Actions and code** (`C/sync/lane_guard.py` unless named).

| actions | code |
|---------|------|
| `RetrySave`, `DiskFills`, `DiskClears` | `report`'s retry of a failed `_write_state`; the disk |
| `RefusePass`, `StartPass`, `StartUnlisted` | `check_remote` and `begin_pass`, as `C/sync/rclone_lane.py` calls them |
| `ProbeRoot` | `check_remote_root` from the sequencer, which does not hold `_run_lock` |
| `Trash`, `CreditInFlight` | rclone; `note_deletes_in_flight`, written to disk at most every 20 s |
| `NotePass`, `Judge` | `note_pass`: the account under the lock; then the relocation probe, the discounts, the two limits |
| `RunRaises` | an exception out of the run: nothing is accounted |
| `TrayResume` | `resume()` without a request |
| `TakeReply`, `ResumeRecord`, `ResumeClear` | `_apply_resume_lane_b`; `resume(request_id)`, which records the id before it clears anything |
| `Click`, `Withdraw` | the two routes of `D/api.py` |
| `SendReport`, `HandleReport`, `AnswerReport`, `LoseReport`, `LoseReply` | a report, its handler up to the read of the request and from there on, and the network |
| `Restart` | the process dies at any point, inside `resume` too, and reads the file |

Files are counted, not named; a listing is its size. The fraction rule narrows the
per-pass limit to anything from 1 up, so `Judge` takes any such limit.

**Runs.**

| run | instance | shows | distinct states |
|-----|----------|-------|------|
| `breaker_budget` | two scopes, listings of 0, 1 and 3 files, passes of up to two deletions, one run that raises or dies | `WithinBudget`, `NoBlindPass`, `TypeOK` | 1 496 000 |
| `breaker_resume` | two report handlers, one click, three trips, a disk that refuses writes | `OneClickOneResume`, `TripIsRemembered` | 355 000 |

Three listing sizes are the three verdicts (empty, shrunk, fine); two deletions are
the least that a pass can credit half of; the second scope is there because the
root's baseline and a project's are probed by different threads. Two handlers are
what it takes to deliver one request twice, three trips to clear one with the
second copy and see a third. `Clicks`, `MaxTrips` and `MaxRough` bound counters.

**Properties.** `WithinBudget` is what the breaker is for: between two decisions of
a person at most `MaxCum`, one pass's `PassCap` and what runs that died or raised
trashed leaves the server, though a run that raised leaves its credit behind and
relocated files are taken off counters that a resume may have zeroed since. Of such
runs everything is allowed until the next verdict, because the limits are looked at
there and nowhere else; from then on only what had not reached the file when they
ended. So an account that a crash resets, or a credit that hides the next run's
deletions, breaks the property. It is void after a restart over a write the disk
refused, which the companion reports. `NoBlindPass`: no pass over a listing that the
last accepted one says is wrong, restarts in between included. `LatchStands`: the
latch opens by `TrayResume`, `ResumeClear`, or a restart over a refused write.
`OneClickOneResume`: the id on record makes a repeated reply harmless.

**Fairness.** A full disk is seen to in the end (`DiskClears`); the report loop
keeps coming round and so meets a disk that takes a write even if it fills again in
between (strong fairness of `RetrySave`); a resume that holds the lock runs to its
end. `TripIsRemembered` needs all three and nothing of the network or of people.

## SyncHalt: stop all sync

**State.** `flag` is the dashboard's fleet halt; `halt` the machine's, on disk;
`paused` the tray's Pause, in memory. `armed` says lanes A or B may run; `stop`
and `resume` are the sequencer's events; `adopted` says it holds a selection;
`latched` and `half` are the two records of folders without a confirmed
`.stignore`. `known`, `running` and `filtered` are Syncthing's own state, and
outlast the process. `thread` is where each thread is: the callers (tray and
reporter), the sequencer, and the re-pause. A REST call is two steps: the check
that decides it and the write that lands, however late.

**Actions and code.**

| actions | code |
|---------|------|
| `Sweep`, `Release`, `Unpaused`, `UnpauseFails` | `Sequencer._unpause_all`, `_set_paused` |
| `Verify`, `VerifyFails` | `_verify_startup_ignores` |
| `Adopt`, `Stands`, `Unpark`, `Turn`, `PassEnds` | `_startup_unpause`, `_run`, `_park_paused` |
| `Offer`, `SetIgnores`, `AcceptFails`, `Accepted`, `Reassert`, `ReassertFails`, `Unpause`, `Check` | `accept_folder` and one project's turn |
| `PressStop`, `HaltAll`, `Joined`, `LanesDown`, `PauseFolder` | `halt_all_sync`, `_stop_lanes`, `Sequencer.stop`, `_pause_lane_c_folders` |
| `HoldNext`, `Held` | `_reassert_halt_pause` and its thread |
| `PressClear`, `Gate`, `Start` | `release_halt`, `release_for_halt`, `_start_lanes`, `Sequencer.start` |
| `TogglePause` | the tray's Pause |
| `SetFlag`, `Report`, `TakeReply`, `Lift` | the fleet halt and `note_fleet_flag` |
| `Quit`, `Exit`, `Crash` | shutdown and sudden death; the next process starts in `start()` |

Left out: the drive, licence, sign-in and configuration gates in front of the
start; the *rotate* scheme, in which a turn pauses other projects; shared and
borrowed folders; the express upload; halt files that refuse a write (`LaneBreaker`
has the persisted latch and its retry); a folder list Syncthing will not give; a
selection that is not cached yet or not offered.

**Runs.**

| run | instance | shows | distinct states |
|-----|----------|-------|------|
| `halt_holds` | one project, two callers, two clicks, one flag change, one restart, one refused call, joins that time out | `HaltHolds`, `FilteredFirst`, `TypeOK` | 2 420 000 |
| `halt_reaches` | one project, two callers, one click, one order of the administrator, any halt left by the last process, joins that time out, fair | `FleetHaltReaches`, `LaneCComesBack` | 497 000 |

Both runs have two threads of clicks and replies against the sequencer and the
re-pause: two replies under way at once, from before and after the order, and a
click that races either. What the second leaves to the first is the restart and the
refused call; instead it starts in every state of the halt's file, which is how a
restart leaves it. With two callers a second folder is beyond TLC: safety is proved
for any number of folders, the two liveness properties are checked for one. Folders
are alike, and so are the two callers: hence the symmetry, used only where no
liveness is checked. The behaviours are finite (every bound is spent in the end)
except for the sequencer's own turns and the reports.

**Properties.** `HaltHolds`: when the threads that act on a halt are done, lanes A
and B are latched and every folder is paused, whatever the sequencer was in the
middle of. It names the exceptions the code really has, as bookkeeping: a pause
that Syncthing refused, an unpause that had asked before the halt engaged
(`excused`), a start that was past its gate (`late`). `FilteredFirst`: nothing runs
without a `.stignore`, except (`rushed`) what another thread's sweep released ahead
of the startup reading. `FleetHaltReaches`: a halt that stands is adopted and held,
though replies from before and after a change are both under way and a click
crosses them.
`LaneCComesBack`: after a halt, every folder runs again as long as the sequencer
does, also those latched for want of a filter and those a late hand paused.

**Fairness.** Threads run (the sequencer, the re-pause, a caller inside what it
began) and reports go on being made, by one thread or another. Nobody has to click,
no restart has to come, and Syncthing refuses only as often as `Failures` says.

## ClipDownload: a download and its lease

An editor picks clips on the YouTube search page. One worker thread in the
container downloads them, or the editor's own machine does under a lease.

**State.** `job` and `row` are the job's row and its clips'; `ledger` and `disk`
what the server's duplicate check knows; `away` the files that are still on an
editor's machine. `wk` is the worker thread, `run` each machine's download thread,
`call` where the server is inside that machine's request, `tab` where it is in a
browser tab's. Every helper of `db.py` commits on its own, so a route that calls
three is three steps. A lease is live, lapsed or none.

**Actions and code** (`ytdl/web/ytdlweb/`).

| actions | code |
|---------|------|
| `PressChecks`, `Marks`, `Clears`, `Starts` | `start_download`: refusals, `mark_pending`, the resets, the phase |
| `Cancel`, `Pin`, `Expires` | `cancel`, `mode_lock`, and the `expire_lease` that follows in a commit of its own |
| `Claim`, `Lapse` | `claim_download`; time |
| `Asks`, `Gone`, `Leave`, `NextClip`, `Fetched` | `_leaseholder_or_410`; the companion's `ytdl_executor.py` |
| `Manifest`, `Say`, `Moves`, `Counts`, `Requeues`, `EndsLease` | `download_manifest`, `clip_status`, `finish_download`, `_hand_back_to_the_server` |
| `Upload` | lane A brings the file to the server |
| `Picks`, `SetsUp`, `Credits`, `Waits` | `claim_next_job`, `reclaim_download`, `_reclaim_local_job`, `_await_local_claim` |
| `Lists`, `Turns`, `Takes`, `Lands`, `CountsLanded`, `CountsFailed`, `CountsBlocked` | the worker's download phase |
| `Raises`, `Restart` | a phase that raises; `reset_stale_jobs` |

Left out: search and AI phases before "ready", wording of failures (but for the one
that says the server's address is blocked), quality choices, deletion of jobs.

**Runs.**

| run | instance | shows | distinct states |
|-----|----------|-------|------|
| `clips_hold` | two clips, one machine that claims twice, one tab, one press, one answer lost, one restart of the container or phase that raises | `TypeOK`, `SettledUncrossed`, `CountersTrue`, `NoClipStranded`, `OneExecutor`, `BackForGood` | 3 160 000 |
| `clips_end` | one clip, a press and a retry, a claim, a stop, a restart of the container or a phase that raises, fair | `DownloadEnds` | 218 000 |

Two clips are what "the next clip" and "was it the last" need; two claims let a
machine come back after it was given up; `Streak` 2 is the shortest run of equal
failures that is not a single one. Cancels, pins and retries are in the second run;
the theorems have all of them at once, with any number of each.

**Properties.** `SettledUncrossed` and `NoClipStranded`: what a finished job may
leave, though two programs hold lists of clips read earlier. `CountersTrue`: the
page's counters are the rows, whatever was requeued, reclaimed or said twice.
`OneExecutor`: the clip in the worker's hands is on no list of the machine that holds
the job, and nobody else settles it or queues it again.
`BackForGood`: the hand-back is one way.

The excuses are in `hist`: `crossed` (the crossings listed above `Clean` in the
module), `dropped` (a phase raised with a clip in flight, and no restart has put it
back), `torn` (a restart queued a clip of a job that was not running, which no
worker comes for), `found` (a reclaim found a failed clip on the disk). `CountersTrue`
is for behaviours in which nothing died or raised (`NoMishap`): a container that dies
between a row and its count leaves the counter behind. The other properties hold
through such deaths.

**Fairness.** The worker's loop and request handlers go on; a companion that is up
works; a lease nobody beats lapses. Nobody has to press, claim or upload.

## CodeBoot: which code a container boots

`deploy/select_code_root.py` decides before every start whether the container
boots its image or an applied bundle; `D/dashboard_update.py` in the process it
starts applies bundles, rolls back, and proves or gives up on the boot.

**State.** `current`, `attempts`, `noAuto` are `current.json`,
`boot_attempts.json` and `no_auto_apply.json`; `disk` the trees; `db` the live
database's schema and `backups` those of its copies; `update` is
`update_state.json`. `proc` is where the selector or the process is, `worker` the
apply thread, `asked` a rollback request. `env` says whether the keys are set and
`/data` can be written. A file is replaced whole, so a write is one step, and
power may fail between any two.

**Actions and code.**

| actions | code |
|---------|------|
| `SelectsImage`, `Retires`, `Settles`, `Keeps`, `Reverts`, `Spends`, `Marks`, `Boots` | `select_code_root.py`: `main`, `_retire`, `revert_refusal`, `revert`, `check_tree`, `bump_boot_attempts` |
| `Migrates`, `Crashes`, `Wedges`, `ProvesHealthy`, `Restarts` | the lifespan's `db.migrate`, `start_boot_watchdog`, `clear_boot_attempts`, `finish_restart` |
| `GivesUp`, `StaysUp` | the one call of `exit_for_revert` in a process, by the lifespan's deadline or the watchdog: it leaves, or the process is `judged` and hangs on |
| `AdminApplies`, `PollerApplies` | the apply route; `release_feed.py`'s unattended apply and its refusals |
| `Verifies`, `FailsVerify`, `RemovesOld`, `Renames`, `NamesTree`, `FailsSwap`, `Finishes` | `apply` on its thread |
| `AsksRollback`, `Restores`, `NamesTarget`, `FinishesRollback`, `FailsRollback` | `rollback` |
| `Interrupted`, `ImageDeployed`, `Leaves`, `Returns` | power, a new image, keys and volume that go away and come back |

Left out: signatures and hashes (a bundle that fails them never reaches
`Verifies`), the content of the import check, log lines, the update page.

**Run.** `boot_heals`: a shipped version 1, a good bundle 2 that an image may
carry too, a bundle 3 that passes every check and never serves; two attempts, one
tree kept besides those in use, one admin request, one power loss, one spell of a
volume or keys away; fair. 364 000 distinct states. Two attempts tell "once
more" from "too often"; keeping one tree makes the pruning bite; three versions
give an applied tree, a tree to come from and the image.

**Properties.** `CurrentOpens`: the file never names code that cannot open the
database, though a tree may migrate it and fail after that. `WayBack`: the way back
is another tree that is there. `RevertIsEarned`: a tree is left only for its own
failures. `BannedStaysOut`: what was fled from does not come back by itself.
`Heals`: nothing loops for ever; in the end a boot is proved healthy, or hangs with
its one check behind it (`judged`), or there is no way out (`NoWayOut`). The excuses
of the others are in `hist`: `stale` (a count that
could not be cleared), `owed` (a note that could not be written), `crossed` (a
rollback beside an apply), `torn` (a swap cut short), `told` (an admin was told).

**Fairness.** The selector, the process, the apply thread and the request go on by
themselves, and a spell ends. Nobody has to deploy, apply or roll back.

## IngestBatch: a batch of dropped clips

Clips dropped on the b-roll page are a batch. A machine claims it, describes each
clip, uploads it and says so; the archive's `videos` rows are made at the claim
under a name that must be free.

**State.** `batch`, `item` and `rows` are the three tables; `nas` what has landed
under a name. `req` are the requests being served: each was checked when it came
and writes later, in one transaction that names the row alone. `ing` is each
machine's `BrollIngestor`: its checkpoint of every clip's stage, what it has
handed to its upload queue, the clip it is at, and the request it waits for.

**Actions and code** (`broll/web/app/ingest_batches.py` with its routes, and
`C/broll_ingest.py`).

| actions | code |
|---------|------|
| `Claims`, `ClaimCheck`, `ClaimItems`, `ClaimNames`, `ClaimMint` | `run` and `_reclaim`; `claim`: sweep and check, the clips, the names taken, one transaction |
| `Begin`, `Describe`, `PutDown`, `Hand`, `GiveUp` | `_crunch_item`, `_describe`, `_should_stop` between two stages, `_enqueue_uploads`, `_fail_item` |
| `Land`, `Pump`, `MaybeFinish` | the upload queue; `_pump_uploads`; `_maybe_finish` |
| `GivesUpWaiting`, `Beat`, `StopHere`, `Restart` | a call's timeout; `_heartbeat_loop`; `cancel` and the report's reply; a companion restart |
| `StatusWrite`, `ResultWrite`, `UploadedCheck`, `UploadedWrite`, `BeatWrite`, `ReleaseWrite` | `set_item_state`, `write_item_result`, `mark_uploaded`, `heartbeat`, `release` |
| `List`, `ListSweep`, `Cancel`, `CancelCheck`, `CancelFlag`, `CancelEnd`, `Retry`, `RetryWrite` | the page: `list_batches`, `cancel`, `retry_failed`, each with `expire_stale_leases` |
| `Lapse` | time |

A clip's stages before "indexed" are one, and so are its segments; what a
description says, sizes and progress figures are left out.

**Runs.**

| run | instance | shows | distinct states |
|-----|----------|-------|------|
| `ingest_hold` | one clip, two machines, two requests at a time, two claims, one click, one mishap | `TypeOK`, `DoneIsWhole`, `PublishedStands`, `NoGhosts` | 1 683 000 |
| `ingest_ends` | one machine that restarts once, one click, fair | `CancelEnds`, `HeldEnds` | 222 000 |

A mishap is a lost call, a caller that gives up waiting or a live machine's lease
that lapses. One clip is enough: clips meet only in the batch's verdict, which one
owed clip decides. Two machines and two requests are what crossing claims and late
writes need; two suffixes let a claim mint a second name.

**Properties.** `DoneIsWhole`: "done" is not said over a clip that is owed.
`PublishedStands`: what is in the archive stays, by its own row, under its own
word. `NoGhosts`: a cancelled batch leaves no invisible row that holds a name.
`CancelEnds`: a stop ends the batch, also when its machine is gone. `HeldEnds`: no
machine holds a batch for ever, through a restart in mid upload too. It has a
hypothesis, `Unhindered`: the gates that stop the worker while its heartbeat goes on
(the idle gate, an open Resolve, a pause, a missing model, drive or mount) are open
often enough, and no upload is paused for ever. Without that the code does hold the
batch for ever, and means to. Excuses: `hist.late` (a write whose checks would
refuse by now), `apart` (a machine's checkpoint and the ledger came apart over a
clip: the report of its failure was lost, a call given up on wrote over its second
failure, or a machine took its batch back after another had held it), `twice` (two
claims named one clip), `again` (a published clip set back), `wedged` (a stop or an
item's write that crossed a sweep), and `Parked` for the take-over described below.
`DoneIsWhole` excuses `late` and `apart` alone, clip by clip.

**Fairness.** Requests are served, and none waits for ever to be let in (strong, for
there are finitely many places); every tick of a machine pumps its uploads and
reports, whatever its gate says (`Pumps`); a silent lease lapses and somebody opens
the list, whose sweep is the only one that needs nobody's claim. Nobody has to
click.

## Known behaviours of the code

Seen while modelling, in the code and as behaviours of the models. Where one
contradicts a sentence of the repository, that is said.

**Job queue.**

- *A cancelled job may wait for ever.* `fail_job`, and the sweep inside a claim,
  choose the next state from a row read in autocommit; the UPDATE does not look at
  `cancel_requested_at` again. A cancel that commits in between leaves the row
  `queued` and cancelled: no machine may claim it and nothing ends it. If the
  budget is spent and the job can be pinned, it becomes `pinned` and cancelled: the
  executor takes it, sees the cancel at its first look and abandons it. The
  docstrings (`D/db.py` 12912, 12977) describe this row as a defect that was fixed.
- A pinned row waits while the pool has no engine: after every start of the
  container until somebody opens an episode. The comments say so.
- *One job, two open retries.* `retry_job`'s refusal is read in autocommit; two
  requests at once both pass it.
- The executor's closing UPDATE can be refused by a locked database; `_loop` logs
  it and goes on, and the row stays in hand with no worker until the next boot
  (`D/cards_exec.py` 288). `InHandIsWorked` is for `FlakyWrites = FALSE`.

**Breaker.**

- *A click may resume a trip it was not made for.* The standing request names no
  trip. If the editor resumes at the tray and the breaker trips again before the
  next report, the click for the first trip clears the second.
- The breaker remembers the last id it applied and no other, so with two clicks and
  two report handlers an old reply that lands after a newer one is applied again
  (`C/sync/lane_guard.py` 589).

**Halt.**

- *Clearing both does not start sync.* Stop, Pause, clear the stop (refused:
  paused), clear the Pause (sets an event on a sequencer whose thread has ended):
  nothing is set and nothing runs. The same without a Pause when `stop()` gives up
  joining a slow thread: `start()` is ignored while that thread lives; then it ends.
- *A folder may be released unread.* Pause pressed while a fresh sequencer is still
  reading `.stignore` files sweeps the selection at once, half-accepted folders
  included (`rushed`).
- `_start_lanes` reads its gates and starts later. A halt engaged in between leaves
  lanes A and B up until the next stop (`late`).
- A local STOP confirmed after a fleet halt has arrived overwrites it with a local
  one, which the editor can clear until the next report; and `release`, between
  `note_fleet_flag`'s two lock sections, may clear a local stop made there.

**Downloads.**

- *A clip left in flight in a job that says done.* A machine claims while the worker
  is at a clip, marks another and dies; the worker ends the job on its own list.
  RETRY's `mark_pending` leaves "downloading" rows alone, so the clip waits for a
  container restart; `C/ytdl_executor.py` 2310 says the server reclaims such a job
  and downloads what is missing.
- A machine whose lease has run out goes on fetching until its next report or beat is
  answered 410. The worker may have taken the job back by then, and both fetch the
  same clip; nothing in the code tells a machine earlier.
- `reclaim_download` is an UPDATE by id alone: a machine that has claimed since
  loses its lease to it. `end_lease` matches the editor and not the machine.
- A cancel that lands between `clear_cancel` and the start can leave a job that was
  cancelled running, with two tabs open.
- *A phase that raises leaves its clip in flight.* The job is failed, RETRY queues
  every clip but that one, and the retried job ends done over it; the next start of
  the container queues it (`NoClipStranded` excuses it as `dropped`; the proof of that
  property is what brought it up).
- DOWNLOAD pressed in two tabs at once: the second press may reset the counters, the
  pin and the lease of a run that has begun, or mark clips of a job that was cancelled
  in between.
- A failed clip that a reclaim finds on the disk counts as done and stays counted as
  failed. A worker that finds its address blocked fails a job a machine is at.
- A container that dies between two commits leaves a counter behind its row, or a
  job that was handed back without its pin.

**Boot.**

- *A bundle for another runtime is refused at every start and never reverted.* The
  image that boots instead proves healthy and clears the count of the tree that was
  refused. `select_code_root.py` 54 says such a bundle
  has to reach the same revert as one that crashes.
- `_retire` keeps a tree that cannot be retired because the image cannot open the
  database; `check_tree` then refuses it as not newer and boots that image.
- A rollback to the image is not refused for its schema. It runs outside the
  apply's lock: an apply under way may undo it, or prune the tree it names.
- *A wedged process is judged once.* The watchdog and the lifespan's deadline each
  call `exit_for_revert` once and end. If the boot was not counted or the revert was
  refused at that moment, the process hangs on, also when the reason goes away later
  (a rollback that restores the database and then fails to write `current.json`),
  until an admin or a restart moves it.
- A wedged tree whose boot could not be counted stays; a count left behind by a
  power loss between naming and unlinking reverts a tree that was never tried.
- On a read-only volume an apply stays "in progress" until a restart; if only the
  unlink fails, no restart is asked for. A retirement that could not be saved lets
  the image migrate past the tree that stays named. That one came out of a failed
  proof step and needs an image newer than two others; it is excused in
  `CurrentOpens` as a tree the next start retires.

**Ingest.**

- *A machine that takes its batch over with a clip in mid upload and hands nothing
  to its queue is stuck.* `_pump_uploads` returns without a queue, `_next_item` skips
  "uploading", and the heartbeat holds the lease for ever (`Parked`). `retry_failed`'s
  docstring names this dead end and takes care not to make it, and a comment in
  `_pump_uploads` (3078) counts it as cured.
- *A release says plain done over a clip that is owed* when the checkpoint of the
  machine and the ledger have come apart over it. A lost "failed" report does it, and
  so does a restart, a lapse, TRY AGAIN and a second claim by a machine that trusts
  its checkpoint. The proof of `DoneIsWhole` brought up two more. A status or result
  its caller has given up on lands after the same clip has failed again, and the
  clip is called "describing" in a batch that is done. And `_reclaim` keeps the
  checkpoint a restarted machine had: if another machine has held the batch between,
  it counts as finished what the other one has left half done.
- A published clip that owes its original and is set back to failed or pending is
  called cancelled by a later cancel; the comment on `ITEM_PUBLISHED` says never.
- A cancel that crosses a sweep leaves a batch queued and cancelled, which only
  another cancel ends. An item's state written with a "claimed" seen earlier marks
  an ended or handed-back batch running without a lease.
- A late beat after a lapse and TRY AGAIN revives the lease; a claim that began
  before a cancel revives the batch.
- Two claims that cross mint two sets of names, and one set stays, invisible.
- An upload posted after a cancel makes a clip live whose row is gone. A late status
  takes a clip backwards. A lost `/result` reply leaves the machine believing it
  has described the clip, and its second attempt ends in refusals.

## What is proved, and what is not

TLAPS 1.4.5, with Z3, Zenon and LS4. Proofs rest on the named assumption of each
module, which say no more than that constants have their types, budgets and caps are
positive, sets the model counts are finite, and markers such as `Nobody` are not
machines: `JobQueueAssumption`, `LimitsAssumption`, `BoundsAssumption`,
`InheritedAssumption`, `CallersAssumption`, `ClipDownloadAssumption`,
`CodeBootAssumption`, `IngestAssumption`. TLC evaluates each on the runs of its
module. PROJECT.json names the theorem for each property that has one. `EndedStays`,
`PinIsOneWay`, `LatchStands` and `NothingReleased` are proved and in no run: their
theorems cover every instance.

### JobQueueProofs

`TypeCorrect`, `HeldRowsAreLeased`, `BudgetIsKept`, `OneJobEach`, `CapIsKept`,
`HandIsWorked`, `OutcomesStand`, `PinnedStaysHere`, `StopsAreHeeded`,
`LiveLeasesProtect`: the properties `TypeOK`, `HoldIsLeased`, `BudgetKept`,
`OneJobPerMachine`, `WithinCap`, `InHandIsWorked`, `EndedStays`, `PinIsOneWay`,
`CancelledNeverStarts` and `LiveLeaseProtects`; and `KeepsItsPromise`, that the queue
implements `JobLifecycle`. For any jobs, machines, handlers, budgets and caps, and
for closing writes that may be refused; only `HandIsWorked` supposes that they are
not (`~FlakyWrites`), and is false otherwise.

The inductive invariant is `TypeOK /\ RowsOK /\ TxOK /\ OneJobPerMachine`. `RowsOK`
is `HoldIsLeased` and `BudgetKept` row by row, with what a finished row still
carries. It is `TxOK`, about handlers that are open, that makes the rest inductive:

- a machine has at most one call open (from `Calling`), and while it has an open
  claim with offers it holds nothing: `claim_job`'s UPDATE does not ask, so
  `OneJobPerMachine` is preserved only because no second call could have given the
  machine a job since the offers were read;
- while a failure report is open, a row that still names its machine is still held:
  `fail_job`'s UPDATE names the holder and not the state, and `finish_job` leaves
  the holder on the row, so `EndedStays` too rests on the one call at a time;
- a sweep that finds a row still lapsed, and a failure report whose machine still
  holds the row, have read the attempts it has now. Both write `attempts` from what
  they read, and the refinement, which counts grants, is where that matters.

The step proof is organised by what a step does to rows and not by which of its
twenty-odd actions it is: each action is shown once to be one of three shapes
(`QuietStep`: no machine gains or finishes anything; `FinishStep`; `GrantStep`: at
most one machine gains at most one row) and to open, close or leave alone one
handler; every property then follows from the shapes. For `WithinCap` a grant's
shape carries the count its UPDATE looked at, and a quiet step holds no row that
was not held (`NoMoreHeld`).

`KeepsItsPromise` maps a row to a phase of the abstract job (`PhaseOf`) and its
attempts, with the one in hand, to the tries granted (`GrantedOf`). A step of one
row is a step of `JobLifecycle` or leaves it as it was (`RowLives`). A claim that
first takes a lapsed row from one machine and gives it to the next is one step of
the row and two of the promise: the abstract `Grant` therefore also allows a job
that is out to be given again.

### LaneBreakerProofs

`TypeCorrect`, `LossIsBounded` (`WithinBudget`), `PassesAreNotBlind`
(`NoBlindPass`), `LatchIsAPersons` (`LatchStands`), for any scopes, listings,
limits, handlers and bounds, with or without a disk that refuses writes; and
`OneClickClearsOnce` (`OneClickOneResume`) for one click, any number of trips,
handlers, repeated replies and restarts. With two clicks the property is false (see
the known behaviours), so the hypothesis `Clicks = 1` is the claim's limit and not
the proof's.

`WithinBudget` speaks of what was lost; the code only has counters. The invariant is
the account that ties the two: the counter in memory covers the loss up to what the
pass has still to report and may still discount (`Covered`), all but `uncounted`,
and so does whatever the next process would read, the file or a payload still to be
written (`CoveredOnDisk`, over `Pending`), with a different allowance, because
credit in flight reaches the disk late. `Bounded` is the property, over `unjudged`,
with the pass in progress counted exactly; `PassNumbers` keeps the pass's own
figures in order; `SameLatch` and `Baselines` say that what a restart would read
agrees with memory where the triggers look.

`OneClickClearsOnce` needs to know where a click can still be (`OneInd`): once it
has reached a companion the dashboard's request is withdrawn, and once it has
cleared a trip either its id is the one on record or no reply and no handler can
bring it again.

### SyncHaltProofs

`TypeCorrect`, `OnlyFilteredRun` (`FilteredFirst`), `HaltStands` (`HaltHolds`) and
`NothingReleased`, an action property: while a halt stands no step makes a folder
run but the landing of an unpause that had asked before.

*Filters.* A folder without a `.stignore` must be in a record, or ahead of a
verification that is still to come; `Noticed` says where it can hide, and `Ready`
that whatever a thread is about to release is filtered or excused. Both need to
know which thread can be where (`Placed`) and that a turn's folder exists
(`InHand`).

*The halt.* `Booting`: a start has the process to itself. `HeldOff`: while the halt
stands, nobody has decided to release a folder since (`Spared`), a start past its
gate has been noted (`StartsLate`), and whatever is up, the lanes or a folder, has a
thread that is bound to take it down (`StopsComing`, `PausesComing`): one on its
way to the pausing, or one whose list covers all that runs unexcused. Each step is
shown to hand that obligation on, and `HaltHolds` is what remains when no thread
has anything left to do. The attempt found a fault in the model: a CASE in
`Onward` whose arms overlapped.

### ClipDownloadProofs

`TypeCorrect`, `OneDownloadAtATime` (`OneExecutor`), `StaysBack`
(`BackForGood`), for any clips, machines, tabs, bounds.

Types need that nobody has a clip in hand whose list is empty (`HandsFull`).
`StaysBack`: a job the server has had back is pinned to it (`Pinned`), and a pin
goes only with the run. `OneDownloadAtATime`: the worker takes a clip only while no
claim has been granted since it picked the job (`Unclaimed`), and a machine that
claims later is not told of a clip in flight: `OneExecutor` is itself inductive over
these.

### ClipDownloadSettledProofs

`NothingStranded` (`NoClipStranded`) and `DoneIsSettled` (`SettledUncrossed`), for the
same, crashes included. For every clip that is not finished the invariant says whose
it is: what is in flight in a job that is the server's is in the worker's hands or on
its reclaim's list (`Held`), and what waits is on the list the worker read (`Ahead`),
so the end of that list is the end of the clips (`Through`). Both rest on how the lease,
the phase and the worker fit: a press finds the job at rest (`Pressing`), no lease
outlives the run (`NoLease`), a job nobody claimed since the pick is the server's
(`Ours`), and a hand-back leaves nothing in flight (`Swept`).

The first attempt failed, for a good reason: the property as it stood was false for
a retry after a phase that raised, in an instance with more presses than the runs had.
`dropped`, `torn` and the crossing of two presses came out of it.

### ClipDownloadCountersProofs

`CountersAreTrue` (`CountersTrue`). The invariant is an account: a counter is the
number of its rows, less what has been written and not counted yet, plus what was
requeued and not taken off yet (`Account`). Only the worker and one request may be
between the two. That it is one request, the holder's, is `Sound`: a request whose
caller has lost the job can only end in a crossing. The account needs that no row is
settled twice, by the companion's list (`Listed`, with `Paired`: what the server is
asked is what the thread still waits for) or by the reclaim's (`Crediting`); that
the clips done before the run stay done (`OldDone`); and that a press has marked
every failed clip before it resets the counters (`MarksAll`).

### CodeBootProofs

`TypeCorrect`, `NamedTreeOpens` (`CurrentOpens`), `WayBackStands`,
`RevertsAreEarned`, `BansHold`, for any versions, images, attempts, trees kept.

While the selector runs or a process has just been started there is no apply and no
rollback (`Alone`), so what is booted is what is still named (`Booted`), and a
migration cannot pass by the named tree. `NamedTreeOpens` adds that a verified tree
opens the database until a backup is put back (`VerifiedOpens`), and has a
hypothesis of its own, `SchemasOnlyGrow`: a later release knows every migration
of the earlier ones, as `db.py`'s list, which is only appended to, has it. The way
back needs that the named tree is here as well (`NamedIsHere`). A revert is earned
because the count is of the named tree's own boots (`CountIsTrue`). A ban holds
because what is banned is on the poller's list (`ListIsKept`), and an unattended
apply under way is of a version that was not (`AutoIsClean`).

### IngestBatchProofs

`TypeCorrect`, `PublishedStays` (`PublishedStands`), `NothingHaunts` (`NoGhosts`),
`DoneMeansWhole` (`DoneIsWhole`), for any clips, machines, requests, names and bounds.

Types need what a machine that waits is waiting for: a request of its own about the
clip it is at (`Waiting`), since its next state is made of the answer. The archive
needs that a clip has no row but the one its item names (`Sole`), and that a
request whose checks would still pass names the row the clip has now (`Unmoved`):
a row changes hands only as a batch ends or is claimed, and an ended batch has no
lease (`Fresh`). `NothingHaunts` is stronger than the property was at first: the
proof showed that one of its excuses was not needed.

`DoneMeansWhole` relates two ledgers: a machine's checkpoint and the server's items.
`Checkpoint` says what the machine itself may be doing about the clip it is at
(`Desk`, `Posture`), and what the word it waits for can be (`Tells`). `Accord` says,
of a clip not excused, that its reports are on their way one at a time and the
machine waits for each (`Sure`), that what the holder takes for finished is settled
in the ledger or its failure is being reported (`Known`), that a report of failure
which will be refused is about a settled clip (`Firm`), and that all is settled once
the live holder has asked to release (`Closing`). The steps are grouped by what they
leave alone: requests (`KeepsWords`), machines (`KeepsDesks`), ledger (`KeepsBook`).
A settled clip is reopened only from "failed", and by the caller who still waits
(`Reopened`, `OnlyFailed`).

The property as it stood was false, in two ways the runs were too small to meet (see
the known behaviours); `apart` names them. Its excuse for two claims that name one
clip was not needed and is gone. Each part of the invariant was model-checked on
instances of one and two clips before it was proved.

### Only model-checked

- Liveness: `LapsedIsSwept`, `PinnedIsSettled`, `TripIsRemembered`,
  `FleetHaltReaches`, `LaneCComesBack`, `DownloadEnds`, `CancelEnds`, `HeldEnds` and
  `Heals`. Fairness and ENABLED are beyond this prover.

Every safety property that a run checks is stated by a theorem; where a theorem has
a hypothesis, the property is false without it, or (`SchemasOnlyGrow`) the code
gives it.

No module here has recursion, so the limits of the prover on induction over data
and on recursive operators do not touch these.

## What is not modelled

PROJECT.json lists every part with its reason. In short:

- *Parts with a protocol of their own*, smaller than the six that are modelled:
  file moves (an on-disk ledger replayed after a crash), the companion's upgrade and
  crash-loop revert (of `CodeBoot`'s shape), the companion's job runner (assumed, as
  `Calling`), the music ingest, which is written separately from the b-roll one.
- *State that belongs to another program*: DaVinci Resolve, the NAS appliance, the
  operating system's drives, Syncthing's own transfers.
- *Sequential code over single rows or files*: accounts, assignments, the release
  store, search and catalogues, proxies, indexers, pages and windows, installers
  and scripts an operator runs by hand.

Within what is modelled: job priorities, presets and allow-lists are constants or
free choices; the breaker counts files and leaves out bytes, reasons and the trash
folder; the halt leaves out the gates named in its section. Data that no property
tells apart is a model value throughout.

Some steps are coarser than the code, where nothing another thread can do in
between makes a difference to a property. The breaker: `Judge` is one step, though
`note_pass` lets the lock go around its probe; so is the way from the gate to
`begin_pass`; a run's remembered sizes are saved for every scope (the code keeps
512). The halt: `Gate` reads the gates of a start together. Downloads: a cancel
reads the phase and sets its flag together; `CountsBlocked` joins the commits of
`_give_back_bot_checked`. Boot: `FinishesRollback` joins its last three writes, and
the poller decides and starts an apply at once. Ingest: a 410 while staging drops the
batch at once, not at the next call.

Two behaviours of the download's companion are left out: it goes on to its next clip
after an error other than a 410, and a status it sends again after 15 seconds may
overlap the first one's handler. `CountersTrue` is for statuses that are repeated one
after the other.
