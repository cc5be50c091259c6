----------------------------- MODULE LaneBreaker -----------------------------
(***************************************************************************)
(* Lane B's circuit breaker.  Lane B mirrors the server's proxies onto an   *)
(* editor's machine with `rclone sync`, so a server that lists wrongly      *)
(* makes it delete.  The breaker (sync/lane_guard.py, class LaneBBreaker)   *)
(* probes a listing before a pass, counts what a pass trashed, trips, and   *)
(* keeps the lane off until a person says otherwise.  It lives in memory    *)
(* and in one small JSON file.                                              *)
(*                                                                          *)
(* Three parties act on it: the pass (sync/rclone_lane.py, serialised by    *)
(* _run_lock), the sequencer's marker probe (which does not take that lock),*)
(* and whoever resumes: the editor's tray, or an administrator whose click  *)
(* waits on the dashboard and rides a report's reply.                       *)
(***************************************************************************)
EXTENDS Integers

CONSTANTS
  Scopes,      \* what lane B lists: project subpaths and the root
  Root,        \* the root of the tree, remote_root itself
  Listings,    \* how many entries a listing can hold
  MinRemote,   \* min_remote_sample: a smaller listing is not compared
  MaxPass,     \* max_deletes_per_pass
  MaxCum,      \* max_deletes_cumulative
  PassCap,     \* rclone's --max-delete
  Handlers,    \* report requests the dashboard can be serving for one machine
  Clicks,      \* the administrator's requests, 1..Clicks (bound)
  MaxTrips,    \* trips in one behaviour (bound)
  MaxRough,    \* passes that end without being accounted (bound)
  FlakyDisk    \* whether the state file can refuse a write

ASSUME LimitsAssumption ==
  /\ {MinRemote, MaxPass, MaxCum, PassCap, Clicks, MaxTrips, MaxRough} \subseteq Nat
  /\ MaxPass > 0 /\ Root \in Scopes /\ Listings \subseteq Nat
  /\ FlakyDisk \in BOOLEAN

VARIABLES
  mem,      \* the latch in memory
  disk,     \* the JSON file
  unsaved,  \* {the payload whose write failed}, or {}
  credited, \* _in_flight_credited
  rootOk,   \* _remote_root_checked, in memory
  called,   \* a request the app found the breaker tripped for, 0 for none
  resuming, \* the request whose resume holds the breaker's lock, 0 for none
  pass,     \* the lane B run
  diskOk,   \* whether a write succeeds now
  request,  \* the dashboard's standing resume request, 0 for none
  shown,    \* "tripped" as the dashboard last heard it
  wire,     \* reports on their way: what each says of `tripped`
  answering, \* per report handler: {} idle, {c} about to answer with c, {0} with none
  replies,  \* requests on their way back in a reply
  \* Bookkeeping that no code keeps, for stating properties:
  lost,     \* files trashed and gone from the server since the last go-ahead
  uncounted, \* of those, trashed by runs that died or raised before it was on file
  unjudged, \* uncounted, and what such runs trashed since the last verdict
  amnesia,  \* the process restarted while a write was unsaved
  rough,    \* passes that ended without note_pass
  seen,     \* last listing accepted per scope since the last go-ahead
  trips,    \* trips so far
  asked,    \* which trip stood when each request was made
  used      \* which trips each request has cleared

breakerVars == <<mem, disk, unsaved, credited, rootOk, called, resuming>>
dashVars    == <<request, shown, wire, answering, replies, asked>>
ghosts      == <<lost, uncounted, unjudged, amnesia, rough, seen, trips, used>>
vars == <<breakerVars, pass, diskOk, dashVars, ghosts>>

Latch == [tripped : BOOLEAN, deletes : Nat, last : Nat,
          counts : [Scopes -> Nat], applied : Nat]
Fresh == [tripped |-> FALSE, deletes |-> 0, last |-> 0,
          counts |-> [s \in Scopes |-> 0], applied |-> 0]

\* A run: what rclone has trashed (done), how much of it left the server for
\* good (gone), and the cumulative figure note_pass holds locally (cum).  Two parts
\* are bookkeeping: how much the breaker has put on file since the last go-ahead
\* (kept), and that it went ahead on a listing its history says is wrong (bad).
Idle == [pc |-> "idle", done |-> 0, gone |-> 0, kept |-> 0, cum |-> 0, bad |-> FALSE]
Pass == [pc : {"idle", "run", "noted"}, done : Nat, gone : Nat, kept : Nat, cum : Nat, bad : BOOLEAN]

AtLeastZero(n) == IF n > 0 THEN n ELSE 0
Least(a, b) == IF a < b THEN a ELSE b

TypeOK ==
  /\ mem \in Latch /\ disk \in Latch
  /\ unsaved \subseteq Latch
  /\ rootOk \in BOOLEAN /\ credited \in Nat /\ called \in 0..Clicks /\ resuming \in 0..Clicks
  /\ pass \in Pass /\ diskOk \in BOOLEAN
  /\ request \in 0..Clicks /\ shown \in BOOLEAN
  /\ wire \subseteq BOOLEAN /\ answering \in [Handlers -> SUBSET (0..Clicks)] /\ replies \subseteq 1..Clicks
  /\ lost \in Nat /\ uncounted \in Nat /\ unjudged \in Nat /\ amnesia \in BOOLEAN /\ rough \in 0..MaxRough
  /\ seen \in [Scopes -> Nat] /\ trips \in 0..MaxTrips
  /\ asked \in [1..Clicks -> 0..MaxTrips] /\ used \in [1..Clicks -> SUBSET (0..MaxTrips)]

Init ==
  /\ mem = Fresh /\ disk = Fresh /\ unsaved = {} /\ credited = 0 /\ rootOk = FALSE /\ called = 0 /\ resuming = 0
  /\ pass = Idle /\ diskOk = TRUE
  /\ request = 0 /\ shown = FALSE /\ wire = {} /\ answering = [h \in Handlers |-> {}] /\ replies = {}
  /\ lost = 0 /\ uncounted = 0 /\ unjudged = 0 /\ amnesia = FALSE /\ rough = 0
  /\ seen = [s \in Scopes |-> 0] /\ trips = 0
  /\ asked = [c \in 1..Clicks |-> 0] /\ used = [c \in 1..Clicks |-> {}]

-----------------------------------------------------------------------------
(* The state file.  A failed write keeps its payload and is tried again.    *)

\* _write_state, with mem' already chosen.
Save(m) == IF diskOk
             THEN disk' = m /\ unsaved' = {}
             ELSE disk' = disk /\ unsaved' = {m}

\* The latch becomes m; the file is written if that changes anything.
Change(m) == /\ mem' = m
             /\ IF m = mem THEN UNCHANGED <<disk, unsaved>> ELSE Save(m)

\* Defective: the failure is forgotten and not the write made good.
RetryForgotten ==
  /\ resuming = 0 /\ unsaved # {} /\ diskOk /\ unsaved' = {}
  /\ UNCHANGED <<mem, disk, credited, rootOk, called, resuming, pass, diskOk, dashVars, ghosts>>

\* report(): the retry of a failed write, paced by the report loop.
RetrySave ==
  /\ resuming = 0 /\ unsaved # {} /\ diskOk
  /\ disk' \in unsaved /\ unsaved' = {}
  /\ UNCHANGED <<mem, credited, rootOk, called, resuming, pass, diskOk, dashVars, ghosts>>

DiskFills == FlakyDisk /\ diskOk /\ diskOk' = FALSE
             /\ UNCHANGED <<breakerVars, pass, dashVars, ghosts>>
DiskClears == ~diskOk /\ diskOk' = TRUE
              /\ UNCHANGED <<breakerVars, pass, dashVars, ghosts>>

-----------------------------------------------------------------------------
(* Trigger 1: the listing, before a pass.                                    *)

\* trip(): an edge.  m is the latch as the caller has already changed it.
Trip(m) ==
  IF m.tripped
    THEN trips' = trips /\ Change(m)
    ELSE /\ trips < MaxTrips /\ trips' = trips + 1
         /\ Change([m EXCEPT !.tripped = TRUE])

\* What check_remote makes of n entries where it remembers `before`.
LooksWrong(n, before) ==
  IF n = 0 THEN before > 0 ELSE before >= MinRemote /\ 2 * n < before

\* A pass whose listing is refused: it trips, and no byte moves.
RefusePass(s, n) ==
  /\ resuming = 0 /\ pass.pc = "idle" /\ ~mem.tripped
  /\ LooksWrong(n, mem.counts[s])
  /\ Trip(mem)
  /\ UNCHANGED <<credited, rootOk, called, resuming, pass, diskOk, dashVars,
                 lost, uncounted, unjudged, amnesia, rough, seen, used>>

\* Defective: the baseline is not written.
StartPassUnsaved(s, n) ==
  /\ resuming = 0 /\ pass.pc = "idle" /\ ~mem.tripped
  /\ ~LooksWrong(n, mem.counts[s])
  /\ mem' = [mem EXCEPT !.counts[s] = IF n = 0 THEN @ ELSE n]
  /\ seen' = [seen EXCEPT ![s] = IF n = 0 THEN @ ELSE n]
  /\ credited' = 0
  /\ pass' = [Idle EXCEPT !.pc = "run", !.bad = ~amnesia /\ LooksWrong(n, seen[s])]
  /\ UNCHANGED <<disk, unsaved, rootOk, called, resuming, diskOk, dashVars,
                 lost, uncounted, unjudged, amnesia, rough, trips, used>>

\* A pass whose listing is accepted: it becomes the baseline (an empty one
\* does not), begin_pass zeroes the running account, and rclone starts.
StartPass(s, n) ==
  /\ resuming = 0 /\ pass.pc = "idle" /\ ~mem.tripped
  /\ ~LooksWrong(n, mem.counts[s])
  /\ IF n = 0
       THEN UNCHANGED <<mem, disk, unsaved, seen>>
       ELSE /\ mem' = [mem EXCEPT !.counts[s] = n]
            /\ Save([mem EXCEPT !.counts[s] = n])
            /\ seen' = [seen EXCEPT ![s] = n]
  /\ credited' = 0
  /\ pass' = [Idle EXCEPT !.pc = "run", !.bad = ~amnesia /\ LooksWrong(n, seen[s])]
  /\ UNCHANGED <<rootOk, called, resuming, diskOk, dashVars, lost, uncounted, unjudged, amnesia, rough, trips, used>>

\* A listing that failed is no evidence either way; the pass goes on.
StartUnlisted ==
  /\ resuming = 0 /\ pass.pc = "idle" /\ ~mem.tripped
  /\ credited' = 0 /\ pass' = [Idle EXCEPT !.pc = "run"]
  /\ UNCHANGED <<mem, disk, unsaved, rootOk, called, resuming, diskOk, dashVars, ghosts>>

\* check_remote_root: the sequencer's probe of the root itself, which also
\* trips on a root without its marker directories.  Once it has passed it is
\* not asked again in this process.  It does not hold _run_lock, so a pass
\* may be running.
ProbeRoot(n, foreign) ==
  /\ resuming = 0 /\ ~rootOk
  /\ IF foreign \/ LooksWrong(n, mem.counts[Root])
       THEN Trip(mem) /\ UNCHANGED <<rootOk, seen>>
       ELSE /\ rootOk' = TRUE /\ trips' = trips
            /\ IF n = 0
                 THEN UNCHANGED <<mem, disk, unsaved, seen>>
                 ELSE /\ mem' = [mem EXCEPT !.counts[Root] = n]
                      /\ Save([mem EXCEPT !.counts[Root] = n])
                      /\ seen' = [seen EXCEPT ![Root] = n]
  /\ UNCHANGED <<credited, called, resuming, pass, diskOk, dashVars,
                 lost, uncounted, unjudged, amnesia, rough, used>>

-----------------------------------------------------------------------------
(* The pass: rclone trashes files, the lane credits them as it goes, and     *)
(* note_pass settles the account.                                            *)

Trash(real) ==
  /\ pass.pc = "run" /\ pass.done < PassCap
  /\ pass' = [pass EXCEPT !.done = @ + 1, !.gone = @ + (IF real THEN 1 ELSE 0)]
  /\ lost' = lost + (IF real THEN 1 ELSE 0)
  /\ UNCHANGED <<breakerVars, diskOk, dashVars, uncounted, unjudged, amnesia, rough, seen, trips, used>>

\* What crediting a running total of n adds: a total below what is already
\* credited is a new run's.
Uncounted(n) == IF n < credited THEN n ELSE n - credited

\* note_deletes_in_flight: persisted only every PERSIST_IN_FLIGHT_SECONDS.
CreditInFlight ==
  /\ resuming = 0 /\ pass.pc = "run" /\ Uncounted(pass.done) > 0
  /\ mem' = [mem EXCEPT !.deletes = @ + Uncounted(pass.done)]
  /\ credited' = pass.done
  /\ \/ Save(mem') /\ pass' = [pass EXCEPT !.kept = pass.done]
     \/ UNCHANGED <<disk, unsaved, pass>>
  /\ UNCHANGED <<rootOk, called, resuming, diskOk, dashVars, ghosts>>

\* note_pass, its first block: the part not credited in flight is added and
\* the account is written.  Nothing trashed, nothing to judge.
NotePass ==
  /\ resuming = 0 /\ pass.pc = "run"
  /\ mem' = [mem EXCEPT !.last = pass.done,
                        !.deletes = @ + AtLeastZero(pass.done - credited)]
  /\ credited' = 0
  /\ Save(mem')
  /\ pass' = IF pass.done = 0 THEN Idle
             ELSE [pass EXCEPT !.pc = "noted", !.cum = mem'.deletes]
  /\ UNCHANGED <<rootOk, called, resuming, diskOk, dashVars, ghosts>>

\* A run that ends without a verdict.  What it trashed and had not yet put on file
\* (or not since a go-ahead) may be missing from every counter.
Unfinished ==
  /\ uncounted' = uncounted + (IF pass.pc = "run" THEN AtLeastZero(pass.done - pass.kept) ELSE 0)
  /\ unjudged' = unjudged + pass.done

\* An exception out of the run: _account_pass is never reached.
RunRaises ==
  /\ pass.pc = "run" /\ rough < MaxRough
  /\ pass' = Idle
  /\ Unfinished /\ rough' = rough + 1
  /\ UNCHANGED <<breakerVars, diskOk, dashVars, lost, amnesia, seen, trips, used>>

\* Defective: the discount is not clamped.
DiscountedRaw(m, r) == [m EXCEPT !.last = @ - r, !.deletes = @ - r]

\* _discount_relocations: files still on the server come off both counters.
Discounted(m, r) == [m EXCEPT !.last = AtLeastZero(@ - r), !.deletes = AtLeastZero(@ - r)]

\* A pass that trashed this many is probed even when no limit is near.
Eager == IF MaxPass \div 2 > 2 THEN MaxPass \div 2 ELSE 2

\* Defective: the probe is credited with the server's own answer again.
FoundAgain(known) == 0..(pass.done - pass.gone)

\* What the probe can add to the server's own answer: files it finds beyond
\* those, so that none is discounted twice.
Found(known) == 0..(pass.done - pass.gone - known)

\* note_pass, the rest: the server's own answer is discounted, then, near a
\* limit, what the probe still finds on the server; then the two rules.
Verdict(known, found, limit) ==
  LET m1    == IF known > 0 THEN Discounted(mem, known) ELSE mem
      here1 == IF known > 0 THEN m1.last ELSE pass.done
      cum1  == IF known > 0 THEN m1.deletes ELSE pass.cum
      near  == here1 > limit \/ cum1 > MaxCum \/ pass.done >= Eager
      extra == IF near THEN Least(found, here1) ELSE 0
      m2    == IF extra > 0 THEN Discounted(m1, extra) ELSE m1
      here2 == IF extra > 0 THEN m2.last ELSE here1
      cum2  == IF extra > 0 THEN m2.deletes ELSE cum1
  IN IF here2 > limit \/ cum2 > MaxCum THEN Trip(m2) ELSE trips' = trips /\ Change(m2)

\* The fraction rule narrows the per-pass limit to anything from 1 up.
Judge ==
  /\ resuming = 0 /\ pass.pc = "noted"
  /\ \E known \in 0..(pass.done - pass.gone), limit \in 1..MaxPass :
       \E found \in Found(known) : Verdict(known, found, limit)
  /\ pass' = Idle
  /\ unjudged' = IF mem'.tripped THEN unjudged ELSE uncounted
  /\ UNCHANGED <<credited, rootOk, called, resuming, diskOk, dashVars,
                 lost, uncounted, amnesia, rough, seen, used>>

-----------------------------------------------------------------------------
(* The person's decision.                                                    *)

\* What resume() makes of the latch: the counters and every baseline the
\* triggers compare against go with it.
Cleared(m) == [m EXCEPT !.tripped = FALSE, !.deletes = 0, !.last = 0,
                        !.counts = [s \in Scopes |-> 0]]

\* The bookkeeping starts again at a go-ahead.
GoAhead == /\ lost' = 0 /\ uncounted' = 0 /\ unjudged' = 0 /\ amnesia' = FALSE
           /\ seen' = [s \in Scopes |-> 0] /\ pass' = [pass EXCEPT !.kept = 0]

\* The editor's tray.
TrayResume ==
  /\ resuming = 0 /\ mem.tripped
  /\ mem' = Cleared(mem) /\ Save(Cleared(mem)) /\ credited' = 0
  /\ GoAhead
  /\ UNCHANGED <<rootOk, called, resuming, diskOk, dashVars, rough, trips, used>>

\* _apply_resume_lane_b: a reply's request is dropped unless tripped now.
TakeReply(c) ==
  /\ called = 0 /\ resuming = 0 /\ c \in replies
  /\ replies' = replies \ {c}
  /\ called' = IF mem.tripped THEN c ELSE 0
  /\ UNCHANGED <<mem, disk, unsaved, credited, rootOk, resuming, pass, diskOk,
                 request, shown, wire, answering, asked, ghosts>>

\* Defective: an id already applied is applied again.
ResumeRecordAgain ==
  /\ called # 0 /\ resuming = 0 /\ called' = 0
  /\ mem' = [mem EXCEPT !.applied = called] /\ Save([mem EXCEPT !.applied = called])
  /\ resuming' = called
  /\ UNCHANGED <<credited, rootOk, pass, diskOk, dashVars, ghosts>>

\* resume(request_id), its first write: the id is on record before anything
\* is cleared.  An id already applied is refused.
ResumeRecord ==
  /\ called # 0 /\ resuming = 0 /\ called' = 0
  /\ IF mem.applied = called
       THEN UNCHANGED <<mem, disk, unsaved, resuming>>
       ELSE /\ mem' = [mem EXCEPT !.applied = called]
            /\ Save([mem EXCEPT !.applied = called])
            /\ resuming' = called
  /\ UNCHANGED <<credited, rootOk, pass, diskOk, dashVars, ghosts>>

\* resume(request_id), the rest, under the same lock.
ResumeClear ==
  /\ resuming # 0 /\ resuming' = 0
  /\ IF mem.tripped
       THEN /\ mem' = Cleared(mem) /\ Save(Cleared(mem)) /\ credited' = 0
            /\ used' = [used EXCEPT ![resuming] = @ \cup {trips}]
            /\ GoAhead
       ELSE UNCHANGED <<mem, disk, unsaved, pass, credited, used, lost, uncounted, unjudged, amnesia, seen>>
  /\ UNCHANGED <<rootOk, called, diskOk, dashVars, rough, trips>>

-----------------------------------------------------------------------------
(* The dashboard, and the reports between the two.                           *)

\* POST .../resume-lane-b, refused unless the last report said tripped.  A
\* request is named by its time stamp, so the names are used in order.
Click(c) ==
  /\ shown /\ asked[c] = 0 /\ \A b \in 1..(c - 1) : asked[b] # 0
  /\ request' = c
  /\ asked' = [asked EXCEPT ![c] = trips]
  /\ UNCHANGED <<breakerVars, pass, diskOk, shown, wire, answering, replies, ghosts>>

\* DELETE .../resume-lane-b.
Withdraw == /\ request # 0 /\ request' = 0
            /\ UNCHANGED <<breakerVars, pass, diskOk, shown, wire, answering, replies, asked, ghosts>>

\* A report, of the loop or off-cycle; two may be on the wire at once.
SendReport ==
  /\ resuming = 0
  /\ wire' = wire \cup {mem.tripped}
  /\ UNCHANGED <<breakerVars, pass, diskOk, request, shown, answering, replies, asked, ghosts>>

\* The report handler, up to its read of the request.  The report's own
\* commit is above it, so two handlers can read the same request.
HandleReport(h, t) ==
  /\ answering[h] = {} /\ t \in wire /\ wire' = wire \ {t}
  /\ shown' = t
  /\ answering' = [answering EXCEPT ![h] = IF request = 0 THEN {} ELSE {IF t THEN request ELSE 0}]
  /\ UNCHANGED <<breakerVars, pass, diskOk, request, replies, asked, ghosts>>

\* ... and from there on: whatever request stands is cleared, and a report
\* that said "tripped" carries the one that was read back.
AnswerReport(h) ==
  /\ answering[h] # {} /\ answering' = [answering EXCEPT ![h] = {}]
  /\ request' = 0
  /\ replies' = replies \cup (answering[h] \ {0})
  /\ UNCHANGED <<breakerVars, pass, diskOk, shown, wire, asked, ghosts>>

LoseReport(t) == /\ t \in wire /\ wire' = wire \ {t}
                 /\ UNCHANGED <<breakerVars, pass, diskOk, request, shown, answering, replies, asked, ghosts>>
LoseReply(c) == /\ c \in replies /\ replies' = replies \ {c}
                /\ UNCHANGED <<breakerVars, pass, diskOk, request, shown, wire, answering, asked, ghosts>>

\* Defective: the file's account is not read back.
ReadAfresh == [disk EXCEPT !.deletes = 0, !.last = 0]

\* What the next process starts from.
ReadBack == disk

\* The process dies at any point, inside resume() included, and starts again
\* from the file.  An answer to the process that died reaches nobody.
Restart ==
  /\ mem' = ReadBack /\ unsaved' = {} /\ credited' = 0 /\ rootOk' = FALSE /\ called' = 0 /\ resuming' = 0
  /\ replies' = {}
  /\ answering' = [h \in Handlers |-> IF answering[h] = {} THEN {} ELSE {0}]
  /\ pass' = Idle
  /\ Unfinished
  /\ IF pass.pc = "idle" THEN rough' = rough ELSE rough < MaxRough /\ rough' = rough + 1
  /\ amnesia' = (amnesia \/ unsaved # {})
  /\ UNCHANGED <<disk, diskOk, request, shown, wire, asked, lost, seen, trips, used>>

-----------------------------------------------------------------------------

Lane == \/ \E s \in Scopes, n \in Listings : RefusePass(s, n) \/ StartPass(s, n)
        \/ StartUnlisted \/ \E n \in Listings, foreign \in BOOLEAN : ProbeRoot(n, foreign)
        \/ \E real \in BOOLEAN : Trash(real)
        \/ CreditInFlight \/ NotePass \/ RunRaises \/ Judge
People == \/ TrayResume \/ ResumeRecord \/ ResumeClear \/ Withdraw
          \/ \E c \in 1..Clicks : TakeReply(c) \/ Click(c) \/ LoseReply(c)
Wires == \/ SendReport
         \/ \E h \in Handlers : AnswerReport(h) \/ \E t \in BOOLEAN : HandleReport(h, t)
         \/ \E t \in BOOLEAN : LoseReport(t)
Machine == RetrySave \/ DiskFills \/ DiskClears \/ Restart

Next == Lane \/ People \/ Wires \/ Machine

Spec == Init /\ [][Next]_vars

\* A disk that refuses writes is seen to in the end; the report loop keeps
\* coming round and so sooner or later meets a disk that takes one; a resume
\* that holds the lock runs to its end.
FairSpec == Spec /\ WF_vars(DiskClears) /\ SF_vars(RetrySave) /\ WF_vars(ResumeClear)

-----------------------------------------------------------------------------
(* Properties.                                                               *)

\* What may leave the server between two go-aheads: the cumulative limit, one
\* pass's cap, and what runs that died or raised trashed since the last verdict;
\* once a pass has been judged, only what such runs had not put on file when they
\* ended (a run's account is written at most every 20 s).  So a crash starts no
\* fresh budget and a run that raised hides nothing of the next.  It is void after
\* a restart over a file that refused the write (which the editor and the fleet
\* page are told of).  (note_pass, note_deletes_in_flight, begin_pass.)
WithinBudget ==
  ~amnesia => lost <= MaxCum + unjudged + (IF mem.tripped THEN PassCap ELSE pass.done)

\* A pass never runs over a listing that is empty where the last accepted one
\* was not, or less than half of it, whatever restarted in between, short of a
\* restart over a file that refused the write.
NoBlindPass == ~pass.bad

\* One click clears at most one trip, though replies are lost, repeated by a
\* second report, and the process may die inside resume().  (The docstring of
\* resume_after_trip: the breaker "applies any one id exactly once".)
OneClickOneResume == \A c \in 1..Clicks : \A t, u \in used[c] : t = u

\* The latch only opens at a person's decision: a restart keeps it unless its
\* write was still refused.
LatchStands ==
  [][mem.tripped /\ ~mem'.tripped =>
       TrayResume \/ ResumeClear \/ (Restart /\ unsaved # {})]_vars

\* A trip reaches the file in the end, or is cleared.
TripIsRemembered == mem.tripped ~> (disk.tripped \/ ~mem.tripped)

=============================================================================
