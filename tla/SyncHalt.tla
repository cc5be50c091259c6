------------------------------ MODULE SyncHalt ------------------------------
(***************************************************************************)
(* "Stop all sync" on one editor's machine, and the fleet halt that reaches *)
(* it in a report's reply.  A halt has to stop two unlike things: lanes A   *)
(* and B, which this process drives through its sequencer thread, and lane  *)
(* C, which is Syncthing, a service of its own whose folders are paused one *)
(* REST call at a time.  Everything here is a race between the threads that *)
(* pause those folders and the threads whose business it is to release      *)
(* them: the sequencer's turns and leak-recovery sweeps, the tray's Pause,  *)
(* a quit, a halt's own release, and the re-pause after a restart.          *)
(*                                                                          *)
(* A released folder must also carry its .stignore, or Syncthing offers     *)
(* every original to the fleet; the record of which folders do not is in    *)
(* memory only, and a restart rebuilds it by reading them all.              *)
(***************************************************************************)
EXTENDS Integers, FiniteSets

CONSTANTS
  Folders,   \* the selected projects, one Syncthing folder each
  Inherited, \* what the halt's file may say when the first process starts
  Callers,   \* threads that run tray clicks and report replies
  Presses,   \* tray clicks in one behaviour (bound)
  Orders,    \* times an administrator sets or lifts the fleet halt (bound)
  Restarts,  \* ends of the process, asked for or not (bound)
  Failures,  \* REST calls Syncthing refuses (bound)
  Slow       \* whether calls to Syncthing can outlast Sequencer.stop's join

ASSUME BoundsAssumption ==
  {Presses, Orders, Restarts, Failures} \subseteq Nat /\ Slow \in BOOLEAN

ASSUME InheritedAssumption == Inherited \subseteq {"off", "local", "fleet"}

Worker  == "sequencer"   \* the thread of Sequencer._run
Repause == "repause"     \* the thread of _reassert_halt_pause_soon
Threads == Callers \cup {Worker, Repause}

ASSUME CallersAssumption == {Worker, Repause} \cap Callers = {}

VARIABLES
  flag,      \* the dashboard's fleet halt, as get_fleet_halt reads it
  halt,      \* HaltState and its file: "off", "local" or "fleet"
  paused,    \* the tray's Pause; in memory
  armed,     \* lane A or lane B is not latched stopped
  stop,      \* the sequencer's _stop_event
  resume,    \* its _resume_event
  adopted,   \* it holds a selection (_last_selection)
  latched,   \* its _ignores_unconfirmed
  half,      \* SyncthingAdmin's own _ignores_unconfirmed
  known,     \* Syncthing: the folders it is configured with,
  running,   \*   those not paused,
  filtered,  \*   those whose .stignore is complete
  thread,    \* where each thread is
  errand,    \* what each caller is about
  left,      \* what is left of each bound
  excused,   \* folders a halt could not hold, and why not: see HaltHolds
  late,      \* a start had passed its gate when the halt engaged
  rushed     \* folders swept while their filter was still being read

halting   == <<halt, excused, late>>
lanes     == <<armed, stop, resume>>
filters   == <<latched, half>>
syncthing == <<known, running, filtered>>
vars == <<flag, halting, paused, lanes, adopted, filters, syncthing, thread,
          errand, left, rushed>>

Halted  == halt # "off"
Alive   == thread[Worker].at # "off"
Syncing == Alive /\ ~stop /\ resume

\* What a REST call is about to do when it was already decided to unpause.
\* The label names the write; the value is where its thread goes on.
After == [release |-> "sweeping", accept |-> "assert", turn |-> "check",
          retry |-> "turns"]
Unpausing == UNION {thread[t].cur : t \in {u \in Threads : thread[u].at \in DOMAIN After}}
Verifying == IF thread[Worker].at = "verify" THEN thread[Worker].todo ELSE {}

None == [at |-> "off", todo |-> {}, cur |-> {}, back |-> "off"]
At(l) == [None EXCEPT !.at = l]

\* Where a thread goes on: a loop with nothing left to do is over.
Onward(r) ==
  IF r.todo # {} THEN r ELSE
  CASE r.at = "verify"               -> [r EXCEPT !.at = "sweep"]
    [] r.at = "sweeping"             -> IF r.back = "turns" THEN [At("turns") EXCEPT !.todo = Folders]
                                        ELSE At(r.back)
    [] r.at \in {"pausing", "holding"} -> None
    [] OTHER                         -> r
Move(t, r)    == thread' = [thread EXCEPT ![t] = Onward(r)]
Goto(t, l)    == Move(t, [thread[t] EXCEPT !.at = l])
Loop(l, todo) == [At(l) EXCEPT !.todo = todo]
Take(t, l, f) == Move(t, [thread[t] EXCEPT !.at = l, !.cur = {f}, !.todo = @ \ {f}])
Drop(t, f)    == Move(t, [thread[t] EXCEPT !.todo = @ \ {f}])
Back(t, l)    == Move(t, [thread[t] EXCEPT !.at = l, !.cur = {}])
Spend(k)      == left[k] > 0 /\ left' = [left EXCEPT ![k] = @ - 1]

Labels ==
  {"off", "adopt", "verify", "sweep", "sweeping", "parked", "turns",
   "offer", "ignores", "accepted", "assert", "unpause", "check",
   "reply", "halting", "lifting", "joining", "down", "pausing",
   "holding", "pause", "gate", "start"} \cup DOMAIN After

TypeOK ==
  /\ {flag, paused, armed, stop, resume, adopted, late} \subseteq BOOLEAN
  /\ halt \in {"off", "local", "fleet"}
  /\ latched \cup half \cup known \cup excused \cup rushed \subseteq Folders
  /\ running \subseteq known /\ filtered \subseteq known
  /\ thread \in [Threads -> [at : Labels, todo : SUBSET Folders,
                             cur : SUBSET Folders, back : {"off", "turns", "gate", "down"}]]
  /\ errand \in [Callers -> {"none", "boot", "fleet", "go", "quit"}]
  /\ left \in [{"presses", "orders", "restarts", "failures"} -> Nat]

\* A machine as the last process left it: some folders half accepted (known,
\* paused, no .stignore), a halt in the file whose pausing may have been cut
\* short; the main thread is in start().
Init ==
  /\ flag = FALSE /\ halt \in Inherited /\ excused = {} /\ late = FALSE
  /\ paused = FALSE /\ armed = FALSE /\ stop = FALSE /\ resume = FALSE
  /\ adopted = FALSE /\ latched = {} /\ half = {} /\ rushed = {}
  /\ known \in SUBSET Folders /\ filtered \in SUBSET known /\ running \in SUBSET filtered
  /\ \E c \in Callers :
       /\ thread = [t \in Threads |-> IF t = c THEN At("gate") ELSE None]
       /\ errand = [d \in Callers |-> IF d = c THEN "boot" ELSE "none"]
  /\ left = [presses |-> Presses, orders |-> Orders,
             restarts |-> Restarts, failures |-> Failures]

-----------------------------------------------------------------------------
(* Lane C's folders, one REST call per step.                                 *)

\* _unpause_all: the halt is read once for the sweep, and the folders whose
\* filter is in doubt are left out.
StartSweep(t, selection, back) ==
  LET todo == (selection \cap known) \ (latched \cup half \cup running)
  IN IF Halted
       THEN Move(t, [Loop("sweeping", {}) EXCEPT !.back = back]) /\ UNCHANGED rushed
       ELSE /\ Move(t, [Loop("sweeping", todo) EXCEPT !.back = back])
            /\ rushed' = IF t = Worker THEN rushed ELSE rushed \cup (todo \cap Verifying)

\* The startup and a halt's release sweep the cached selection, pause() and
\* stop() the one adopted so far, which may be none.
Adopted == IF adopted THEN Folders ELSE {}

Sweep(t) ==
  /\ thread[t].at = "sweep"
  /\ StartSweep(t, IF thread[t].back = "off" THEN Adopted ELSE Folders, thread[t].back)
  /\ UNCHANGED <<flag, halting, paused, lanes, adopted, filters, syncthing, errand, left>>

\* The loop as it was before it asked: the sweep's own check is minutes old.
ReleaseUnasked(t, f) ==
  /\ thread[t].at = "sweeping" /\ f \in thread[t].todo
  /\ Take(t, "release", f)
  /\ UNCHANGED <<flag, halting, paused, lanes, adopted, filters, syncthing, errand, left, rushed>>

\* _set_paused(slug, False): it asks about the halt, and then writes.
Release(t, f) ==
  /\ thread[t].at = "sweeping" /\ f \in thread[t].todo
  /\ IF Halted THEN Drop(t, f) ELSE Take(t, "release", f)
  /\ UNCHANGED <<flag, halting, paused, lanes, adopted, filters, syncthing, errand, left, rushed>>

\* The write lands, however late.
Unpaused(t) ==
  /\ thread[t].at \in DOMAIN After
  /\ running' = running \cup (thread[t].cur \cap known)
  /\ IF thread[t].at \in {"release", "retry"} THEN Back(t, After[thread[t].at])
     ELSE Goto(t, After[thread[t].at])
  /\ UNCHANGED <<flag, halting, paused, lanes, adopted, filters, known, filtered, errand, left, rushed>>

\* ... or is refused; accept_folder then raises and its caller latches.
UnpauseFails(t) ==
  /\ thread[t].at \in DOMAIN After /\ Spend("failures")
  /\ Back(t, IF thread[t].at = "release" THEN "sweeping" ELSE "turns")
  /\ latched' = IF thread[t].at = "accept" THEN latched \cup thread[t].cur ELSE latched
  /\ UNCHANGED <<flag, halting, paused, lanes, adopted, half, syncthing, errand, rushed>>

\* The loop as it was before it latched: a stop leaves the rest unread.
VerifyStopped(t, f) ==
  /\ thread[t].at = "verify" /\ f \in thread[t].todo
  /\ IF t = Worker /\ stop
       THEN /\ Move(t, [thread[t] EXCEPT !.todo = {}])
            /\ latched' = latched
       ELSE /\ Drop(t, f)
            /\ latched' = latched \cup ({f} \cap (known \ filtered))
  /\ UNCHANGED <<flag, halting, paused, lanes, adopted, half, syncthing, errand, left, rushed>>

\* _verify_startup_ignores: one GET per folder.  Only the sequencer's own loop
\* honours the stop event, by latching what it never read.
Verify(t, f) ==
  /\ thread[t].at = "verify" /\ f \in thread[t].todo
  /\ IF t = Worker /\ stop
       THEN /\ Move(t, [thread[t] EXCEPT !.todo = {}])
            /\ latched' = latched \cup thread[t].todo
       ELSE /\ Drop(t, f)
            /\ latched' = latched \cup ({f} \cap (known \ filtered))
  /\ UNCHANGED <<flag, halting, paused, lanes, adopted, half, syncthing, errand, left, rushed>>

VerifyFails(t, f) ==
  /\ thread[t].at = "verify" /\ f \in thread[t].todo /\ Spend("failures")
  /\ ~(t = Worker /\ stop)
  /\ Drop(t, f) /\ latched' = latched \cup {f}
  /\ UNCHANGED <<flag, halting, paused, lanes, adopted, half, syncthing, errand, rushed>>

-----------------------------------------------------------------------------
(* The sequencer's thread.                                                   *)

\* _startup_unpause takes the cached selection for its own.
Adopt ==
  /\ thread[Worker].at = "adopt" /\ adopted' = TRUE
  /\ Move(Worker, [Loop("verify", Folders) EXCEPT !.back = "turns"])
  /\ UNCHANGED <<flag, halting, paused, lanes, filters, syncthing, errand, left, rushed>>

\* The tests at the head of _run's loop, of _park_paused's and of every turn.
Stands ==
  /\ thread[Worker].at \in {"turns", "parked"} /\ (stop \/ ~resume)
  /\ IF stop THEN Move(Worker, None) ELSE thread[Worker].at = "turns" /\ Move(Worker, At("parked"))
  /\ UNCHANGED <<flag, halting, paused, lanes, adopted, filters, syncthing, errand, left, rushed>>

\* Unparked, it recovers as at startup.
Unpark ==
  /\ thread[Worker].at = "parked" /\ ~stop /\ resume
  /\ Move(Worker, At("adopt"))
  /\ UNCHANGED <<flag, halting, paused, lanes, adopted, filters, syncthing, errand, left, rushed>>

\* A turn that skips what is latched, and never tries its filter again.
TurnSkipsLatched(f) ==
  /\ thread[Worker].at = "turns" /\ ~stop /\ resume /\ f \in thread[Worker].todo
  /\ IF f \in latched THEN Drop(Worker, f)
     ELSE Take(Worker, IF f \in known THEN "assert" ELSE "offer", f)
  /\ UNCHANGED <<flag, halting, paused, lanes, adopted, filters, syncthing, errand, left, rushed>>

\* One project of a pass.
Turn(f) ==
  /\ thread[Worker].at = "turns" /\ ~stop /\ resume /\ f \in thread[Worker].todo
  /\ Take(Worker, IF f \in known THEN "assert" ELSE "offer", f)
  /\ UNCHANGED <<flag, halting, paused, lanes, adopted, filters, syncthing, errand, left, rushed>>

\* Between two passes everything is swept.
PassEnds ==
  /\ thread[Worker].at = "turns" /\ ~stop /\ resume /\ thread[Worker].todo = {}
  /\ Move(Worker, [At("sweep") EXCEPT !.back = "turns"])
  /\ UNCHANGED <<flag, halting, paused, lanes, adopted, filters, syncthing, errand, left, rushed>>

\* The ignores sent before the folder they address exists.
OfferIgnoresFirst ==
  /\ thread[Worker].at = "offer"
  /\ filtered' = filtered \cup thread[Worker].cur
  /\ half' = half \cup thread[Worker].cur
  /\ Goto(Worker, "ignores")
  /\ UNCHANGED <<flag, halting, paused, lanes, adopted, latched, known, running, errand, left, rushed>>

\* accept_folder: the folder is created paused, then filtered, then released
\* if no halt came in between.
Offer ==
  /\ thread[Worker].at = "offer"
  /\ known' = known \cup thread[Worker].cur
  /\ half' = half \cup thread[Worker].cur
  /\ Goto(Worker, "ignores")
  /\ UNCHANGED <<flag, halting, paused, lanes, adopted, latched, running, filtered, errand, left, rushed>>

SetIgnores ==
  /\ thread[Worker].at = "ignores"
  /\ filtered' = filtered \cup thread[Worker].cur
  /\ half' = half \ thread[Worker].cur
  /\ Goto(Worker, "accepted")
  /\ UNCHANGED <<flag, halting, paused, lanes, adopted, latched, known, running, errand, left, rushed>>

\* Either write can time out, applied or not.
AcceptFails ==
  /\ thread[Worker].at \in {"offer", "ignores"} /\ Spend("failures")
  /\ latched' = latched \cup thread[Worker].cur
  /\ half' = half \cup thread[Worker].cur
  /\ \/ UNCHANGED syncthing
     \/ /\ thread[Worker].at = "offer"
        /\ known' = known \cup thread[Worker].cur /\ UNCHANGED <<running, filtered>>
     \/ /\ thread[Worker].at = "ignores"
        /\ filtered' = filtered \cup thread[Worker].cur /\ UNCHANGED <<known, running>>
  /\ Back(Worker, "turns")
  /\ UNCHANGED <<flag, halting, paused, lanes, adopted, errand, rushed>>

\* release_ok, asked after the two writes.
Accepted ==
  /\ thread[Worker].at = "accepted"
  /\ Goto(Worker, IF Halted THEN "assert" ELSE "accept")
  /\ UNCHANGED <<flag, halting, paused, lanes, adopted, filters, syncthing, errand, left, rushed>>

\* _reassert_folder_policy: read the filter, write it if it is short.
Reassert ==
  /\ thread[Worker].at = "assert"
  /\ filtered' = filtered \cup thread[Worker].cur
  /\ half' = half \ thread[Worker].cur /\ latched' = latched \ thread[Worker].cur
  /\ Goto(Worker, "unpause")
  /\ UNCHANGED <<flag, halting, paused, lanes, adopted, known, running, errand, left, rushed>>

ReassertFails ==
  /\ thread[Worker].at = "assert" /\ Spend("failures")
  /\ latched' = latched \cup thread[Worker].cur
  /\ Back(Worker, "turns")
  /\ UNCHANGED <<flag, halting, paused, lanes, adopted, half, syncthing, errand, rushed>>

\* The turn's own unpause.
Unpause ==
  /\ thread[Worker].at = "unpause"
  /\ IF stop \/ ~resume \/ Halted THEN Back(Worker, "turns") ELSE Goto(Worker, "turn")
  /\ UNCHANGED <<flag, halting, paused, lanes, adopted, filters, syncthing, errand, left, rushed>>

\* _verify_current_folder_unpaused, after the wait for the folder to sync.
Check ==
  /\ thread[Worker].at = "check"
  /\ IF Halted \/ thread[Worker].cur \subseteq running THEN Back(Worker, "turns")
     ELSE Goto(Worker, "retry")
  /\ UNCHANGED <<flag, halting, paused, lanes, adopted, filters, syncthing, errand, left, rushed>>

-----------------------------------------------------------------------------
(* Halting.                                                                  *)

\* HaltState.engage.  What the new halt cannot reach is noted as it lands:
\* unpauses past their check, and a start past its gate.
Engage(scope) ==
  /\ halt' = scope
  /\ excused' = IF Halted THEN excused ELSE Unpausing
  /\ late' = IF Halted THEN late ELSE \E c \in Callers : thread[c].at = "start"

\* The tray and the reporter come up once start() has been through the gate.
Idle(c) == thread[c].at = "off" /\ \A d \in Callers : errand[d] # "boot"

\* The tray's STOP, confirmed.  halt_all_sync engages the halt whatever stands,
\* and Sequencer.stop sets its event.
PressStop(c) ==
  /\ Idle(c) /\ Spend("presses")
  /\ Engage("local") /\ stop' = TRUE /\ Goto(c, "joining")
  /\ UNCHANGED <<flag, paused, armed, resume, adopted, filters, syncthing, errand, rushed>>

\* The same from a reply, whose caller has engaged the halt once already.
HaltAll(c) ==
  /\ thread[c].at = "halting" /\ Engage("fleet") /\ stop' = TRUE
  /\ Goto(c, "joining") /\ errand' = [errand EXCEPT ![c] = "none"]
  /\ UNCHANGED <<flag, paused, armed, resume, adopted, filters, syncthing, left, rushed>>

\* The application's shutdown stops the lanes the same way, halted or not.
Quit(c) ==
  /\ Idle(c) /\ Spend("restarts")
  /\ stop' = TRUE /\ Goto(c, "joining") /\ errand' = [errand EXCEPT ![c] = "quit"]
  /\ UNCHANGED <<flag, halting, paused, armed, resume, adopted, filters, syncthing, rushed>>

\* Sequencer.stop joins its thread and sweeps.  The join gives up on a thread
\* inside a slow call, never on one that has a single GET to finish (5 s of 10).
Joined(c) ==
  /\ thread[c].at = "joining" /\ Verifying = {} /\ (Slow \/ ~Alive)
  /\ StartSweep(c, Adopted, "down")
  /\ UNCHANGED <<flag, halting, paused, lanes, adopted, filters, syncthing, errand, left>>

\* The halt as it was: it paused the folders of its own adopted selection.
LanesDownAdopted(c) ==
  /\ thread[c].at = "down" /\ errand[c] # "quit" /\ armed' = FALSE
  /\ Move(c, IF adopted THEN Loop("pausing", known) ELSE None)
  /\ UNCHANGED <<flag, halting, paused, stop, resume, adopted, filters, syncthing, errand, left, rushed>>

\* The rest of _stop_lanes.  A halt then pauses what the sequencer has adopted;
\* _reassert_halt_pause goes over what else of the cached selection is running.
LanesDown(c) ==
  /\ thread[c].at = "down" /\ errand[c] # "quit" /\ armed' = FALSE
  /\ Move(c, IF adopted THEN Loop("pausing", known) ELSE Loop("holding", running))
  /\ UNCHANGED <<flag, halting, paused, stop, resume, adopted, filters, syncthing, errand, left, rushed>>

\* _pause_lane_c_folders asks nobody.  What it attempts is not attempted again.
PauseFolder(c, f) ==
  /\ thread[c].at = "pausing" /\ f \in thread[c].todo
  /\ Drop(c, f)
  /\ \/ running' = running \ {f} /\ UNCHANGED <<excused, left>>
     \/ Spend("failures") /\ excused' = excused \cup {f} /\ UNCHANGED running
  /\ UNCHANGED <<flag, halt, late, paused, lanes, adopted, filters, known, filtered, errand, rushed>>

\* _reassert_halt_pause reads the halt before each write.
HoldNext(t, f) ==
  /\ thread[t].at = "holding" /\ f \in thread[t].todo
  /\ IF Halted THEN Take(t, "pause", f) ELSE Move(t, None)
  /\ UNCHANGED <<flag, halting, paused, lanes, adopted, filters, syncthing, errand, left, rushed>>

Held(t) ==
  /\ thread[t].at = "pause" /\ Back(t, "holding")
  /\ \/ running' = running \ thread[t].cur /\ UNCHANGED <<excused, left>>
     \/ Spend("failures") /\ excused' = excused \cup thread[t].cur /\ UNCHANGED running
  /\ UNCHANGED <<flag, halt, late, paused, lanes, adopted, filters, known, filtered, errand, rushed>>

-----------------------------------------------------------------------------
(* Starting again.                                                           *)

\* The release as it was: straight to the sweep.
LetGoUnread(c) == Move(c, [At("sweep") EXCEPT !.back = "gate"])

\* release_for_halt: a sequencer that has adopted nothing verifies the cached
\* selection here, on this thread and whatever the stop event says.
LetGo(c) == Move(c, [Loop(IF adopted THEN "sweep" ELSE "verify",
                          IF adopted THEN {} ELSE Folders) EXCEPT !.back = "gate"])

\* The tray's row that clears a stop; an administrator's it cannot clear.
PressClear(c) ==
  /\ Idle(c) /\ halt = "local" /\ Spend("presses")
  /\ halt' = "off" /\ LetGo(c)
  /\ UNCHANGED <<flag, excused, late, paused, lanes, adopted, filters, syncthing, errand, rushed>>

\* The gate as it was: a halted machine refuses, and that is all.
GateRefuses(c) ==
  /\ thread[c].at = "gate"
  /\ Move(c, IF paused \/ Halted THEN None ELSE At("start"))
  /\ errand' = IF paused \/ Halted THEN [errand EXCEPT ![c] = "none"] ELSE errand
  /\ UNCHANGED <<flag, halting, paused, lanes, adopted, filters, syncthing, left, rushed>>

\* _start_lanes reads its gates once; a halted machine re-pauses instead.
Gate(c) ==
  /\ thread[c].at = "gate"
  /\ thread' = [thread EXCEPT
       ![c] = IF paused \/ Halted THEN None ELSE At("start"),
       ![Repause] = IF Halted /\ @ = None THEN Onward(Loop("holding", running)) ELSE @]
  /\ errand' = IF paused \/ Halted THEN [errand EXCEPT ![c] = "none"] ELSE errand
  /\ UNCHANGED <<flag, halting, paused, lanes, adopted, filters, syncthing, left, rushed>>

\* Sequencer.start, which ignores the call while its old thread lives, and
\* the watchdog of lane A, which is started either way.
Start(c) ==
  /\ thread[c].at = "start" /\ armed' = TRUE
  /\ IF Alive
       THEN Move(c, None) /\ UNCHANGED <<stop, resume>>
       ELSE /\ stop' = FALSE /\ resume' = TRUE
            /\ thread' = [thread EXCEPT ![c] = None, ![Worker] = At("adopt")]
  /\ errand' = [errand EXCEPT ![c] = "none"]
  /\ UNCHANGED <<flag, halting, paused, adopted, filters, syncthing, left, rushed>>

\* toggle_pause, whose two halves are the sequencer's pause() and resume().
TogglePause(c) ==
  /\ Idle(c) /\ Spend("presses")
  /\ paused' = ~paused /\ resume' = paused
  /\ IF paused THEN UNCHANGED thread ELSE Move(c, At("sweep"))
  /\ UNCHANGED <<flag, halting, armed, stop, adopted, filters, syncthing, errand, rushed>>

-----------------------------------------------------------------------------
(* The fleet's halt.                                                         *)

\* set_fleet_halt, or the expiry a reader of the flag applies.
SetFlag ==
  /\ Spend("orders") /\ flag' = ~flag
  /\ UNCHANGED <<halting, paused, lanes, adopted, filters, syncthing, thread, errand, rushed>>

\* A report's reply always carries the flag; two can be on their way at once.
Report(c) ==
  /\ Idle(c) /\ Goto(c, "reply")
  /\ errand' = [errand EXCEPT ![c] = IF flag THEN "fleet" ELSE "go"]
  /\ UNCHANGED <<flag, halting, paused, lanes, adopted, filters, syncthing, left, rushed>>

\* note_fleet_flag: only an edge is acted on.
TakeReply(c) ==
  /\ thread[c].at = "reply" /\ errand' = [errand EXCEPT ![c] = "none"]
  /\ CASE errand[c] = "fleet" /\ halt # "fleet" -> Engage("fleet") /\ Goto(c, "halting")
       [] errand[c] = "go" /\ halt = "fleet"    -> Goto(c, "lifting") /\ UNCHANGED halting
       [] OTHER                                 -> Goto(c, "off") /\ UNCHANGED halting
  /\ UNCHANGED <<flag, paused, lanes, adopted, filters, syncthing, left, rushed>>

\* release(force), which looks at the latch again, and at nothing else.
Lift(c) ==
  /\ thread[c].at = "lifting" /\ halt' = "off"
  /\ IF Halted THEN LetGo(c) ELSE Goto(c, "off")
  /\ UNCHANGED <<flag, excused, late, paused, lanes, adopted, filters, syncthing, errand, left, rushed>>

-----------------------------------------------------------------------------
\* The process is gone and another one is in start(), with what the disk and
\* Syncthing kept.
Relaunch ==
  /\ paused' = FALSE /\ armed' = FALSE /\ stop' = FALSE /\ resume' = FALSE
  /\ adopted' = FALSE /\ latched' = {} /\ half' = {} /\ excused' = {} /\ late' = FALSE
  /\ \E c \in Callers :
       /\ thread' = [t \in Threads |-> IF t = c THEN At("gate") ELSE None]
       /\ errand' = [d \in Callers |-> IF d = c THEN "boot" ELSE "none"]
  /\ UNCHANGED <<flag, halt, syncthing, rushed>>

Exit(c) ==
  /\ thread[c].at = "down" /\ errand[c] = "quit"
  /\ Relaunch /\ UNCHANGED left

Crash == Spend("restarts") /\ Relaunch

Folderwise(t) ==
  \/ Sweep(t) \/ Unpaused(t) \/ UnpauseFails(t)
  \/ \E f \in Folders : Release(t, f) \/ Verify(t, f) \/ VerifyFails(t, f)

Holding(t) == Held(t) \/ \E f \in Folders : HoldNext(t, f)

Sequence ==
  \/ Folderwise(Worker) \/ Adopt \/ Stands \/ Unpark \/ PassEnds
  \/ Offer \/ SetIgnores \/ AcceptFails \/ Accepted \/ Reassert \/ ReassertFails
  \/ Unpause \/ Check \/ \E f \in Folders : Turn(f)

Carry(c) ==
  \/ Folderwise(c) \/ Holding(c)
  \/ HaltAll(c) \/ Joined(c) \/ LanesDown(c) \/ Exit(c)
  \/ Gate(c) \/ Start(c) \/ TakeReply(c) \/ Lift(c)
  \/ \E f \in Folders : PauseFolder(c, f)

Press(c) == PressStop(c) \/ PressClear(c) \/ TogglePause(c) \/ Quit(c)

Next ==
  \/ SetFlag \/ Crash \/ Sequence \/ Holding(Repause)
  \/ \E c \in Callers : Press(c) \/ Report(c) \/ Carry(c)

Spec == Init /\ [][Next]_vars

\* Threads run, and reports go on being made.  Nobody has to click.
FairSpec ==
  /\ Spec
  /\ WF_vars(Sequence) /\ WF_vars(Holding(Repause))
  /\ WF_vars(\E c \in Callers : Report(c)) /\ \A c \in Callers : WF_vars(Carry(c))

-----------------------------------------------------------------------------
(* Properties.                                                               *)

Quiet == \A t \in Threads \ {Worker} : thread[t].at = "off"

\* A halt holds: once the threads that act on it are done, lanes A and B are
\* latched and every folder is paused, through restarts, quits, late replies
\* and whatever the sequencer was in the middle of.  Three things get past it,
\* and no others: a pause Syncthing refused and an unpause that had asked
\* before the halt engaged (excused), and a start that had (late).
HaltHolds ==
  Halted /\ Quiet => (late \/ ~armed) /\ running \subseteq excused

\* No folder runs without its .stignore: not one half accepted, not one whose
\* record a restart lost.  The exception (rushed) is a folder released by
\* another thread's sweep before the startup verification had got to it.
FilteredFirst == running \subseteq filtered \cup rushed

\* A fleet halt that stands is adopted by the machine and held, whatever its
\* editor presses and however its replies were delayed.
FleetHaltReaches ==
  <>[]flag => <>[](Halted /\ (late \/ ~armed) /\ running \subseteq excused)

\* After a halt, while the sequencer runs, every folder comes back, the ones
\* latched for want of a filter and the ones paused by a late hand included.
LaneCComesBack ==
  <>[](~Halted /\ Syncing) => <>[](Folders \subseteq running)
=============================================================================
