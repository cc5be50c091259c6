------------------------------- MODULE CodeBoot -------------------------------
(***************************************************************************)
(* Which code a dashboard container boots: deploy/select_code_root.py, run  *)
(* by run.sh before every start, and dashboard_update.py inside the process *)
(* it starts (apply, rollback, the boot watchdog), with the release feed's  *)
(* poller as the other one who may ask for an apply.                        *)
(*                                                                          *)
(* The two programs never run together; they meet in files under            *)
(* /data/code.  Each file is replaced whole, so a file is one variable and  *)
(* a write is one step; power may fail between two of them, and a volume    *)
(* that has gone read-only keeps the old contents.  A version is a number,  *)
(* None is "", the image's own code.                                        *)
(***************************************************************************)
EXTENDS Integers, FiniteSets

CONSTANTS
    Versions,     \* of bundles and images
    Shipped,      \* the image the container starts with
    Images,       \* images the NAS's owner may deploy over it
    Runtime,      \* version -> runtime_id it was built for, or carries
    Schema,       \* version -> highest migration of its db.py
    Unsaid,       \* bundles whose manifest does not name their schema
    Broken,       \* bundles that pass stage_verify and never serve
    MaxAttempts,  \* MAX_BOOT_ATTEMPTS
    Keep,         \* CODE_TREES_KEEP
    None,         \* "": no tree, the image
    Presses,      \* bounds: what an admin asks for,
    Mishaps,      \* power losses, restarts by hand and failed downloads,
    Spells        \* times the keys or the volume go away and come back

ASSUME CodeBootAssumption ==
    /\ Versions \subseteq Nat /\ IsFiniteSet(Versions) /\ None \notin Versions
    /\ Shipped \in Versions /\ Images \subseteq Versions
    /\ DOMAIN Runtime = Versions
    /\ Schema \in [Versions -> Nat]
    /\ Unsaid \subseteq Versions
    /\ Broken \subseteq Versions \ ({Shipped} \cup Images)
    /\ MaxAttempts \in Nat \ {0} /\ Keep \in Nat
    /\ {Presses, Mishaps, Spells} \subseteq Nat

VARIABLES
    image,     \* version of the image's own code
    env,       \* are the release keys set; can /data be written
    disk,      \* trees under /data/code with their manifest and record
    current,   \* current.json
    attempts,  \* boot_attempts.json
    noAuto,    \* versions in no_auto_apply.json
    db,        \* PRAGMA user_version of the live database
    backups,   \* schemas of the backups on the volume
    proc,      \* the container: the selector or the app process
    update,    \* update_state.json, as read_state heals it
    worker,    \* the apply thread
    asked,     \* the rollback request being served
    hist,      \* ghost: what the properties remember
    left       \* what is left of each bound

files == <<disk, current, attempts, noAuto, db, backups>>
vars == <<image, env, files, proc, update, worker, asked, hist, left>>

-----------------------------------------------------------------------------
Trees == Versions \cup {None}
Code(v) == IF v = None THEN image ELSE v
Opens(v) == Schema[Code(v)] >= db

Selecting == {"select", "retired", "reverted", "spent", "chosen"}
Answering == {"serving", "healthy"}
Hanging == {"wedged", "judged"}
Phases == Selecting \cup Answering \cup Hanging \cup {"starting"}

TypeOK ==
    /\ image \in Versions
    /\ env \in [keys : BOOLEAN, writable : BOOLEAN]
    /\ disk \subseteq Versions /\ noAuto \subseteq Versions
    /\ current \in [version : Trees, previous : Trees, revertedFrom : Trees, refusedFrom : Trees]
    /\ attempts \in [version : Trees, n : 0..MaxAttempts, file : BOOLEAN]
    /\ db \in Nat /\ backups \subseteq Nat
    /\ proc \in [phase : Phases, code : Trees, leaving : Trees, stopping : BOOLEAN]
    /\ update \in [busy : BOOLEAN, restart : BOOLEAN, version : Trees, failed : BOOLEAN]
    /\ attempts.n > 0 => attempts.version # None /\ attempts.file
    /\ worker \in [pc : {"none", "fetch", "verified", "removed", "renamed", "named"},
                   version : Trees, auto : BOOLEAN]
    /\ asked \in [pc : {"none", "checked", "written"}, target : Trees, restore : Nat \cup {-1},
                  from : Trees]
    /\ hist \in [fails : 0..MaxAttempts, stale : BOOLEAN, banned : SUBSET Versions,
                 owed : SUBSET Versions, crossed : SUBSET Versions, torn : SUBSET Versions,
                 told : BOOLEAN]
    /\ left \in [presses : 0..Presses, mishaps : 0..Mishaps, spells : 0..Spells]

NoFile == [version |-> None, n |-> 0, file |-> FALSE]
\* Mutant: the reset forgets the count.
ResetKeeps == [attempts EXCEPT !.version = None]
Reset == [NoFile EXCEPT !.file = TRUE]
Names(v, prev) == [version |-> v, previous |-> prev, revertedFrom |-> None, refusedFrom |-> None]
Rest == [pc |-> "none", version |-> None, auto |-> FALSE]
Unasked == [pc |-> "none", target |-> None, restore |-> -1, from |-> None]
At(p) == [phase |-> p, code |-> None, leaving |-> None, stopping |-> FALSE]

Init ==
    /\ image = Shipped
    /\ env = [keys |-> TRUE, writable |-> TRUE]
    /\ disk = {} /\ noAuto = {} /\ backups = {}
    /\ current = Names(None, None) /\ attempts = NoFile
    /\ db = Schema[Shipped]
    /\ proc = At("select")
    /\ update = [busy |-> FALSE, restart |-> FALSE, version |-> None, failed |-> FALSE]
    /\ worker = Rest /\ asked = Unasked
    /\ hist = [fails |-> 0, stale |-> FALSE, banned |-> {}, owed |-> {},
               crossed |-> {}, torn |-> {}, told |-> FALSE]
    /\ left = [presses |-> Presses, mishaps |-> Mishaps, spells |-> Spells]

-----------------------------------------------------------------------------
(* select_code_root.py                                                      *)

Saved(new, old) == IF env.writable THEN new ELSE old

Tried(v) == IF attempts.version = v THEN attempts.n ELSE 0

\* Mutant: the schema is not asked about.
RevertUnasked(v) == v \in disk /\ Schema[v] < 0
RevertRefused(v) ==
    /\ v = None \/ v \in disk \ Unsaid
    /\ ~Opens(v)

\* A version the image carries, or better.
CaughtUp(v) == v # None /\ v <= image

TreeRefusal(v) ==
    IF v \notin disk THEN "tree"
    ELSE IF ~env.keys THEN "environment"
    ELSE IF Runtime[v] # Runtime[image] \/ CaughtUp(v) THEN "tree"
    ELSE "none"

Booting(code) == [At("starting") EXCEPT !.code = code]

SelectsImage ==
    /\ proc.phase = "select" /\ current.version = None
    /\ proc' = Booting(None)
    /\ UNCHANGED <<image, env, files, update, worker, asked, hist, left>>

\* _retire rewrites current.json and then the counter.
Retires ==
    /\ proc.phase = "select" /\ CaughtUp(current.version) /\ ~RevertRefused(None)
    /\ current' = Saved(Names(None, None), current)
    /\ proc' = At("retired")
    /\ hist' = [hist EXCEPT !.fails = Saved(0, @)]
    /\ UNCHANGED <<image, env, disk, attempts, noAuto, db, backups, update, worker, asked, left>>

Settles ==
    /\ proc.phase = "retired"
    /\ attempts' = Saved(Reset, attempts)
    /\ proc' = Booting(None)
    /\ UNCHANGED <<image, env, disk, current, noAuto, db, backups, update, worker, asked, hist, left>>

\* current.json as it stands when the counter is looked at: a refusal to
\* retire is noted in it, one whose counter is back at zero taken out.
Noted ==
    LET v == current.version IN
    IF CaughtUp(v) THEN [current EXCEPT !.refusedFrom = v]
    ELSE IF Tried(v) = 0 THEN [current EXCEPT !.refusedFrom = None]
    ELSE current

Applied ==
    /\ proc.phase = "select" /\ current.version # None
    /\ CaughtUp(current.version) => RevertRefused(None)

Keeps ==
    /\ Applied
    /\ Tried(current.version) < MaxAttempts \/ RevertRefused(current.previous)
    /\ current' = Saved(IF Tried(current.version) < MaxAttempts THEN Noted
                        ELSE [Noted EXCEPT !.refusedFrom = current.version], current)
    /\ proc' = At("chosen")
    /\ UNCHANGED <<image, env, disk, attempts, noAuto, db, backups, update, worker, asked, hist, left>>

Reverted(from) == [Names(current.previous, None) EXCEPT !.revertedFrom = from]

\* revert rewrites current.json, the counter and no_auto_apply.json.
Reverts ==
    /\ Applied
    /\ Tried(current.version) >= MaxAttempts /\ ~RevertRefused(current.previous)
    /\ current' = Saved(Reverted(current.version), current)
    /\ proc' = [At("reverted") EXCEPT !.leaving = current.version]
    /\ hist' = IF env.writable
               THEN [hist EXCEPT !.fails = 0,
                                 !.banned = @ \cup {current.version},
                                 !.owed = @ \cup {current.version}]
               ELSE hist
    /\ UNCHANGED <<image, env, disk, attempts, noAuto, db, backups, update, worker, asked, left>>

Spends ==
    /\ proc.phase = "reverted"
    /\ attempts' = Saved(Reset, attempts)
    /\ proc' = [proc EXCEPT !.phase = "spent"]
    /\ UNCHANGED <<image, env, disk, current, noAuto, db, backups, update, worker, asked, hist, left>>

\* Mutant: the newest note replaces the others.
WithNoteOnly(v) == {v}

\* no_auto_apply.json is added to, never replaced.
WithNote(v) == noAuto \cup {v}

Marks ==
    /\ proc.phase = "spent"
    /\ noAuto' = Saved(WithNote(proc.leaving), noAuto)
    /\ hist' = [hist EXCEPT !.owed = Saved(@ \ {proc.leaving}, @)]
    /\ proc' = At("chosen")
    /\ UNCHANGED <<image, env, disk, current, attempts, db, backups, update, worker, asked, left>>

\* The count is only asked whether it is zero, or MaxAttempts: it stops there.
Counted(n) == IF n < MaxAttempts THEN n + 1 ELSE n
Bumped(v) == Saved([version |-> v, n |-> Counted(Tried(v)), file |-> TRUE], attempts)

\* Mutant: every refusal is counted.
CountsAll(why) == why # "image"

\* A refusal that is about the container is not counted against the tree.
Counts(why) == why \in {"none", "tree"}

\* What run.sh is told to boot.
Boots ==
    LET v == current.version
        why == IF v = None THEN "image" ELSE TreeRefusal(v) IN
    /\ proc.phase = "chosen"
    /\ attempts' = IF Counts(why) THEN Bumped(v) ELSE attempts
    /\ proc' = Booting(IF why = "none" THEN v ELSE None)
    /\ hist' = [hist EXCEPT !.fails = IF why \in {"none", "tree"} THEN Counted(@) ELSE @]
    /\ UNCHANGED <<image, env, disk, current, noAuto, db, backups, update, worker, asked, left>>

Selector == SelectsImage \/ Retires \/ Settles \/ Keeps \/ Reverts \/ Spends \/ Marks \/ Boots

-----------------------------------------------------------------------------
(* The process that was started, and how it ends                            *)

\* What read_state makes of a file whose writer is gone: a restart that was
\* asked for is done, anything else in hand has failed.
Healed ==
    IF update.busy
    THEN [update EXCEPT !.busy = FALSE, !.restart = FALSE, !.failed = ~update.restart]
    ELSE update

\* A process that ends in the middle of a swap leaves a tree torn, or a count
\* of boots that belongs to nothing.
Remembering ==
    [hist EXCEPT !.torn = IF worker.pc = "removed" THEN @ \cup {worker.version} ELSE @,
              !.stale = @ \/ worker.pc = "named" \/ asked.pc = "written"]

\* The process ends and run.sh, or the restart policy, starts the selector.
Ends ==
    /\ proc' = At("select")
    /\ worker' = Rest /\ asked' = Unasked /\ hist' = Remembering

Running == proc.phase \notin Selecting
Doomed == IF proc.code = None THEN ~Opens(None) ELSE proc.code \in Broken \/ ~Opens(proc.code)

\* db.migrate at the top of the lifespan raises on a newer database.
Migrates ==
    /\ proc.phase = "starting" /\ Opens(proc.code)
    /\ db' = Schema[Code(proc.code)]
    /\ proc' = [proc EXCEPT !.phase = "serving"]
    /\ UNCHANGED <<image, env, disk, current, attempts, noAuto, backups, update, worker, asked, hist, left>>

\* Code that cannot run on this database, or never comes to serve.
Crashes ==
    /\ proc.phase \in {"starting", "serving"} /\ Doomed
    /\ Ends /\ update' = Healed
    /\ UNCHANGED <<image, env, files, left>>

Wedges ==
    /\ proc.phase \in {"starting", "serving"} /\ proc.code \in Broken
    /\ proc' = [proc EXCEPT !.phase = "wedged"]
    /\ UNCHANGED <<image, env, files, update, worker, asked, hist, left>>

\* The boot watchdog, 45 s in, with proof that this process serves.
\* Whichever code it is: clear_boot_attempts does not ask whose count it clears.
ProvesHealthy ==
    /\ proc.phase = "serving" /\ ~Doomed
    /\ attempts' = Saved(NoFile, attempts)
    /\ hist' = [hist EXCEPT !.fails = IF proc.code = current.version THEN 0 ELSE @,
                            !.stale = IF env.writable THEN FALSE ELSE TRUE]
    /\ proc' = [proc EXCEPT !.phase = "healthy"]
    /\ UNCHANGED <<image, env, disk, current, noAuto, db, backups, update, worker, asked, left>>

RevertWouldBeRefused ==
    current.refusedFrom = proc.code \/ RevertRefused(current.previous)

\* exit_for_revert, which the lifespan's deadline or the watchdog calls once in a
\* process: only a tree that is being judged is left, and only if leaving helps.
LeavingHelps == proc.code # None /\ attempts.file /\ ~RevertWouldBeRefused

GivesUp ==
    /\ proc.phase = "wedged" /\ LeavingHelps
    /\ Ends /\ update' = Healed
    /\ UNCHANGED <<image, env, files, left>>

\* Otherwise the process stays up, and nobody asks again.
StaysUp ==
    /\ proc.phase = "wedged" /\ ~LeavingHelps
    /\ proc' = [proc EXCEPT !.phase = "judged"]
    /\ UNCHANGED <<image, env, files, update, worker, asked, hist, left>>

\* The shutdown a finished apply or rollback asked for: exit 75.
Restarts ==
    /\ proc.stopping
    /\ Ends
    /\ update' = Saved([update EXCEPT !.busy = FALSE, !.restart = FALSE, !.failed = FALSE], Healed)
    /\ UNCHANGED <<image, env, files, left>>

\* Power lost, at any step of either program, or the container restarted.
Interrupted ==
    /\ left.mishaps > 0
    /\ Ends /\ update' = Healed
    /\ left' = [left EXCEPT !.mishaps = @ - 1]
    /\ UNCHANGED <<image, env, files>>

\* The NAS's owner deploys a newer image.
ImageDeployed(i) ==
    /\ i > image
    /\ image' = i
    /\ Ends /\ update' = Healed
    /\ UNCHANGED <<env, files, left>>

Leaves(what) ==
    /\ left.spells > 0 /\ env[what]
    /\ env' = [env EXCEPT ![what] = FALSE]
    /\ left' = [left EXCEPT !.spells = @ - 1]
    /\ UNCHANGED <<image, files, proc, update, worker, asked, hist>>

Returns(what) ==
    /\ ~env[what]
    /\ env' = [env EXCEPT ![what] = TRUE]
    /\ UNCHANGED <<image, files, proc, update, worker, asked, hist, left>>

-----------------------------------------------------------------------------
(* apply, on its own thread                                                 *)

NewerThanImage(v) == v > image

Preflight(v) ==
    /\ ~update.busy
    /\ v # Code(proc.code) /\ NewerThanImage(v) /\ Runtime[v] = Runtime[image]
    /\ env.keys /\ env.writable

\* Mutant: a bundle that passed its apply is never held against it.
AutoApplyForgets(v) ==
    update.busy \/ v <= Code(proc.code) \/ (update.failed /\ update.version = v)

\* What the feed's poller asks before it starts one unattended.
AutoApplyRefused(v) ==
    \/ update.busy
    \/ v <= Code(proc.code)
    \/ update.failed /\ update.version = v
    \/ v \in noAuto
    \/ current.revertedFrom = v

StartsApply(v, auto) ==
    /\ proc.phase \in Answering \/ (proc.phase \in Hanging /\ ~auto)
    /\ ~proc.stopping /\ worker.pc = "none"
    /\ Preflight(v)
    /\ update' = [update EXCEPT !.busy = TRUE, !.version = v, !.failed = FALSE]
    /\ worker' = [pc |-> "fetch", version |-> v, auto |-> auto]
    /\ UNCHANGED <<image, env, disk, current, attempts, db, backups, proc, asked>>

AdminApplies(v) ==
    /\ left.presses > 0
    /\ StartsApply(v, FALSE)
    /\ noAuto' = noAuto \ {v}
    /\ hist' = [hist EXCEPT !.banned = @ \ {v}, !.owed = @ \ {v}]
    /\ left' = [left EXCEPT !.presses = @ - 1]

PollerApplies(v) ==
    /\ ~AutoApplyRefused(v)
    /\ StartsApply(v, TRUE)
    /\ hist' = [hist EXCEPT !.crossed = IF asked.pc = "none" THEN @ ELSE @ \cup {v}]
    /\ UNCHANGED <<noAuto, left>>

WorkerAt(pc) == worker.pc = pc /\ Running

\* The note of a failure is best effort: on a read-only volume the apply
\* stays "in progress" until the process ends.
FailedUpdate == Saved([update EXCEPT !.busy = FALSE, !.failed = TRUE], update)

\* Downloaded, unpacked, imported, copies of the databases migrated, backed up.
Verifies ==
    /\ WorkerAt("fetch") /\ env.writable
    /\ Schema[worker.version] >= db
    /\ backups' = backups \cup {db}
    /\ worker' = [worker EXCEPT !.pc = "verified"]
    /\ UNCHANGED <<image, env, disk, current, attempts, noAuto, db, proc, update, asked, hist, left>>

FailsVerify ==
    /\ WorkerAt("fetch")
    /\ \/ (Schema[worker.version] < db \/ ~env.writable) /\ UNCHANGED left
       \/ left.mishaps > 0 /\ left' = [left EXCEPT !.mishaps = @ - 1]
    /\ worker' = Rest /\ update' = FailedUpdate
    /\ UNCHANGED <<image, env, files, proc, asked, hist>>

RemovesOld ==
    /\ WorkerAt("verified") /\ env.writable
    /\ disk' = disk \ {worker.version}
    /\ worker' = [worker EXCEPT !.pc = "removed"]
    /\ UNCHANGED <<image, env, current, attempts, noAuto, db, backups, proc, update, asked, hist, left>>

Renames ==
    /\ WorkerAt("removed") /\ env.writable
    /\ disk' = disk \cup {worker.version}
    /\ worker' = [worker EXCEPT !.pc = "renamed"]
    /\ UNCHANGED <<image, env, current, attempts, noAuto, db, backups, proc, update, asked, hist, left>>

\* Mutant: what is named is the way back, whatever is applied over it.
CarryHeld(v) == IF current.version # None THEN current.version ELSE current.previous

CarryPrevious(v) ==
    IF current.version \notin {None, v} THEN current.version
    ELSE IF current.previous = v THEN None ELSE current.previous

NamesTree ==
    /\ WorkerAt("renamed") /\ env.writable
    /\ current' = Names(worker.version, CarryPrevious(worker.version))
    /\ worker' = [worker EXCEPT !.pc = "named"]
    /\ hist' = [hist EXCEPT !.fails = 0, !.told = @ /\ ~Opens(worker.version),
                            !.torn = @ \ {worker.version}]
    /\ UNCHANGED <<image, env, disk, attempts, noAuto, db, backups, proc, update, asked, left>>

\* A write of the swap refused by the volume.  The counter's unlink is one of
\* them: current.json names the tree then, and nobody asks for a restart.
FailsSwap ==
    /\ Running /\ worker.pc \in {"verified", "removed", "renamed", "named"} /\ ~env.writable
    /\ worker.pc = "named" => attempts.file
    /\ worker' = Rest /\ update' = FailedUpdate /\ hist' = Remembering
    /\ UNCHANGED <<image, env, files, proc, asked, left>>

\* prune_code_trees: what is named or running stays, then the newest.
Protected == disk \cap {current.version, current.previous, proc.code}
Kept ==
    {v \in disk : v \in Protected
        \/ Cardinality(Protected) + Cardinality({w \in disk \ Protected : w > v}) < Keep}

AsksRestart ==
    /\ update' = Saved([update EXCEPT !.busy = TRUE, !.restart = TRUE, !.failed = FALSE], update)
    /\ proc' = [proc EXCEPT !.stopping = TRUE]

Finishes ==
    /\ WorkerAt("named") /\ (env.writable \/ ~attempts.file)
    /\ attempts' = NoFile
    /\ disk' = Saved(Kept, disk)
    /\ hist' = [hist EXCEPT !.stale = FALSE]
    /\ worker' = Rest
    /\ AsksRestart
    /\ UNCHANGED <<image, env, current, noAuto, db, backups, asked, left>>

Apply == Verifies \/ FailsVerify \/ RemovesOld \/ Renames \/ NamesTree \/ FailsSwap \/ Finishes
-----------------------------------------------------------------------------
(* rollback, a request of its own                                           *)

\* schema_rollback_check: what cannot be told, the image's schema with it,
\* does not refuse.
SafeToRollBack(v) == v = None \/ v \in Unsaid \/ Opens(v)

\* restore is the schema of the backup to put back, or -1 for none.
AsksRollback(target, restore, acknowledged) ==
    /\ left.presses > 0
    /\ proc.phase \in Answering \cup Hanging /\ ~proc.stopping /\ asked.pc = "none"
    /\ ~update.busy /\ current.version # None
    /\ target \in disk \cup {current.previous} /\ target \in disk \cup {None}
    /\ SafeToRollBack(target) \/ restore # -1 \/ acknowledged
    /\ asked' = [pc |-> "checked", target |-> target, restore |-> restore, from |-> current.version]
    /\ left' = [left EXCEPT !.presses = @ - 1]
    /\ UNCHANGED <<image, env, files, proc, update, worker, hist>>

AskedAt(pc) == asked.pc = pc /\ Running

Restores ==
    /\ AskedAt("checked") /\ asked.restore # -1 /\ env.writable
    /\ db' = asked.restore
    /\ asked' = [asked EXCEPT !.restore = -1]
    /\ hist' = [hist EXCEPT !.told = TRUE]
    /\ UNCHANGED <<image, env, disk, current, attempts, noAuto, backups, proc, update, worker, left>>

NamesTarget ==
    /\ AskedAt("checked") /\ asked.restore = -1 /\ env.writable
    /\ current' = Names(asked.target, None)
    /\ asked' = [asked EXCEPT !.pc = "written"]
    /\ hist' = [hist EXCEPT !.fails = 0, !.told = ~Opens(asked.target) \/ (@ /\ worker.pc # "none"),
                            !.banned = @ \cup {asked.from}, !.owed = @ \cup {asked.from},
                            !.crossed = IF worker.pc = "none" THEN @ ELSE @ \cup {worker.version},
                            !.torn = @ \cup ({asked.target} \ (disk \cup {None}))]
    /\ UNCHANGED <<image, env, disk, attempts, noAuto, db, backups, proc, update, worker, left>>

FinishesRollback ==
    /\ AskedAt("written") /\ (env.writable \/ ~attempts.file)
    /\ attempts' = NoFile
    /\ noAuto' = Saved(WithNote(asked.from), noAuto)
    /\ hist' = [hist EXCEPT !.stale = FALSE, !.owed = Saved(@ \ {asked.from}, @)]
    /\ asked' = Unasked
    /\ AsksRestart
    /\ UNCHANGED <<image, env, disk, current, db, backups, worker, left>>

FailsRollback ==
    /\ Running /\ ~env.writable
    /\ asked.pc = "checked" \/ (asked.pc = "written" /\ attempts.file)
    /\ asked' = Unasked /\ hist' = Remembering
    /\ UNCHANGED <<image, env, files, proc, update, worker, left>>

Rollback == Restores \/ NamesTarget \/ FinishesRollback \/ FailsRollback

-----------------------------------------------------------------------------
Process == Migrates \/ Crashes \/ Wedges \/ ProvesHealthy \/ GivesUp \/ StaysUp \/ Restarts

Surroundings ==
    \/ Interrupted
    \/ \E i \in Images : ImageDeployed(i)
    \/ \E what \in {"keys", "writable"} : Leaves(what) \/ Returns(what)

Requests ==
    \/ \E v \in Versions : AdminApplies(v) \/ PollerApplies(v)
    \/ \E target \in Trees, restore \in backups \cup {-1}, acknowledged \in BOOLEAN :
          AsksRollback(target, restore, acknowledged)

Next == Selector \/ Process \/ Apply \/ Rollback \/ Requests \/ Surroundings

Spec == Init /\ [][Next]_vars

\* Everything but the requests, the mishaps and the spells goes on by itself:
\* run.sh's loop and the restart policy, the lifespan, the watchdog, the
\* worker thread, the request's own thread.  A spell ends.
FairSpec ==
    /\ Spec
    /\ WF_vars(Selector) /\ WF_vars(Process) /\ WF_vars(Apply) /\ WF_vars(Rollback)
    /\ WF_vars(\E what \in {"keys", "writable"} : Returns(what))
-----------------------------------------------------------------------------
(* Properties                                                               *)

\* A later release knows every migration of the ones before it.
SchemasOnlyGrow == \A v, w \in Versions : v <= w => Schema[v] <= Schema[w]

\* current.json never names code that cannot open the live database, however
\* applies, migrations, reverts, retirements and rollbacks follow one another;
\* except a tree the next start retires, a bundle that does not say its schema,
\* a tree that is not on the disk (the selector boots the image in its stead),
\* and a rollback of an admin who was told.
CurrentOpens ==
    \/ Opens(current.version)
    \/ CaughtUp(current.version) /\ Opens(None)
    \/ current.version \in Unsaid
    \/ current.version \notin disk \cup {None}
    \/ hist.told

\* The way back from an applied tree is another tree, whose files are there,
\* or the image; unless a swap of that very tree is under way or was cut short,
\* or a rollback named it when an apply that crossed it had taken it away.
WayBack ==
    \/ current.previous = None
    \/ /\ current.previous # current.version
       /\ \/ current.previous \in disk \cup hist.torn
          \/ worker.version = current.previous /\ worker.pc = "removed"

\* The selector leaves a tree only when MaxAttempts boots of it, since it was
\* named or last served, came to nothing or were refused for its own sake;
\* unless the count is one that could not be cleared.
RevertIsEarned ==
    [][proc.phase = "select" /\ proc'.phase = "reverted" /\ current' # current
         => hist.fails >= MaxAttempts \/ hist.stale]_vars

\* What was reverted, or rolled back by an admin, does not come back by itself:
\* only an admin's own apply brings it back; unless the note of it could not be
\* written, or the rollback crossed an apply already under way.
BannedStaysOut ==
    [][worker.pc = "renamed" /\ worker'.pc = "named" /\ worker.auto
         => worker.version \notin hist.banned \ (hist.owed \cup hist.crossed)]_vars

\* Nothing loops for ever: in the end some code serves, or the only way out is
\* onto code that cannot open the database, or a boot hangs whose one check found
\* that it was not counted or that its revert was refused.  (The check is not
\* repeated: when the reason goes away later, by a restore say, the process hangs
\* on until an admin or a restart moves it.)
NoWayOut ==
    LET v == current.version IN
    IF v = None THEN ~Opens(None)
    ELSE \/ (v \in Broken \/ ~Opens(v)) /\ RevertRefused(current.previous)
         \/ TreeRefusal(v) # "none" /\ ~Opens(None)

Heals == <>[](proc.phase \in {"healthy", "judged"} \/ NoWayOut)

=============================================================================
