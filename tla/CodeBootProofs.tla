--------------------------- MODULE CodeBootProofs ---------------------------
(***************************************************************************)
(* Proofs about CodeBoot, for every set of versions and images, every       *)
(* number of attempts and of trees kept.                                    *)
(*                                                                          *)
(* The argument rests on who runs together: while the selector runs, or a   *)
(* process has just been started, there is no apply and no rollback (Alone);*)
(* so what is booted is what current.json still names (Booted), and a       *)
(* migration cannot pass by the tree that is named.                         *)
(***************************************************************************)
EXTENDS CodeBoot, TLAPS

-----------------------------------------------------------------------------
(* The inductive invariant *)

\* No thread of a process outlives it, and none is there before it serves.
Alone ==
    proc.phase \in Selecting \cup {"starting"} => worker = Rest /\ asked = Unasked

\* The tree that has just been booted is the one that is named.
Booted == proc.phase = "starting" => proc.code \in {None, current.version}

\* A tree that was verified still opens the database, unless a backup was put
\* back under it.
VerifiedOpens ==
    worker.pc \in {"verified", "removed", "renamed"} => Schema[worker.version] >= db \/ hist.told

\* The worker is about a version from its start to its end.
WorkerNames ==
    /\ worker.pc # "none" => worker.version \in Versions
    /\ worker.pc = "renamed" => worker.version \in disk

\* The files of v are there, or a swap of v is under way or was cut short.
Here(v) == v \in disk \cup hist.torn \/ (worker.pc = "removed" /\ worker.version = v)

NamedIsHere == current.version = None \/ Here(current.version)

Opening == Alone /\ Booted /\ VerifiedOpens /\ CurrentOpens
Ways == NamedIsHere /\ WayBack

-----------------------------------------------------------------------------
(* The values of TypeOK, by name *)

Named == [version : Trees, previous : Trees, revertedFrom : Trees, refusedFrom : Trees]
Count == [version : Trees, n : 0..MaxAttempts, file : BOOLEAN]
Container == [phase : Phases, code : Trees, leaving : Trees, stopping : BOOLEAN]
Update == [busy : BOOLEAN, restart : BOOLEAN, version : Trees, failed : BOOLEAN]
Worker == [pc : {"none", "fetch", "verified", "removed", "renamed", "named"},
           version : Trees, auto : BOOLEAN]
Asked == [pc : {"none", "checked", "written"}, target : Trees, restore : Nat \cup {-1}, from : Trees]
Ghost == [fails : 0..MaxAttempts, stale : BOOLEAN, banned : SUBSET Versions,
          owed : SUBSET Versions, crossed : SUBSET Versions, torn : SUBSET Versions,
          told : BOOLEAN]
Bounds == [presses : 0..Presses, mishaps : 0..Mishaps, spells : 0..Spells]

\* A count belongs to a tree.
Belongs(a) == a.n > 0 => a.version # None /\ a.file

Typed ==
    /\ image \in Versions
    /\ env \in [keys : BOOLEAN, writable : BOOLEAN]
    /\ disk \subseteq Versions /\ noAuto \subseteq Versions
    /\ current \in Named /\ attempts \in Count /\ Belongs(attempts)
    /\ db \in Nat /\ backups \subseteq Nat
    /\ proc \in Container /\ update \in Update
    /\ worker \in Worker /\ asked \in Asked
    /\ hist \in Ghost /\ left \in Bounds

\* A revert and a rollback leave a tree, never the image.
Leaving ==
    /\ proc.phase \in {"reverted", "spent"} => proc.leaving \in Versions
    /\ asked.pc # "none" => asked.from \in Versions

Types == Typed /\ WorkerNames /\ Leaving

LEMMA TypeIs == TypeOK <=> Typed
BY DEF TypeOK, Named, Count, Container, Update, Worker, Asked, Ghost, Bounds, Belongs, Typed

LEMMA Resets ==
    /\ None \in Trees /\ Versions \subseteq Trees
    /\ NoFile \in Count
    /\ Reset \in Count
    /\ NoFile.n = 0 /\ Reset.n = 0
    /\ Rest \in Worker
    /\ Rest.pc = "none"
    /\ Unasked \in Asked
    /\ Unasked.pc = "none"
<1>1. None \in Trees /\ Versions \subseteq Trees BY DEF Trees
<1>2. 0 \in 0..MaxAttempts BY CodeBootAssumption
<1>3. /\ NoFile \in Count /\ NoFile.n = 0
      /\ Reset \in Count /\ Reset.n = 0
  BY <1>1, <1>2 DEF NoFile, Reset, Count
<1>4. /\ Rest \in Worker
      /\ Rest.pc = "none"
  BY <1>1 DEF Rest, Worker
<1>5. /\ Unasked \in Asked
      /\ Unasked.pc = "none"
  BY <1>1 DEF Unasked, Asked
<1> QED BY <1>1, <1>3, <1>4, <1>5

LEMMA NamesTyped ==
    ASSUME NEW v \in Trees, NEW p \in Trees
    PROVE  Names(v, p) \in Named
BY DEF Names, Trees, Named

LEMMA AtTyped ==
    ASSUME NEW p \in Phases
    PROVE  At(p) \in Container /\ At(p).phase = p /\ ~At(p).stopping
BY DEF At, Trees, Container

LEMMA BootingTyped ==
    ASSUME NEW v \in Trees
    PROVE  /\ Booting(v) \in Container
           /\ Booting(v).phase = "starting" /\ Booting(v).code = v
BY AtTyped DEF At, Booting, Phases, Container

LEMMA PhasesAre ==
    /\ "select" \in Phases /\ "retired" \in Phases /\ "reverted" \in Phases /\ "spent" \in Phases
    /\ "chosen" \in Phases /\ "starting" \in Phases /\ "serving" \in Phases
    /\ "healthy" \in Phases /\ Hanging \subseteq Phases
BY DEF Phases, Selecting, Answering, Hanging

LEMMA StartsTyped == Init => Types
<1> SUFFICES ASSUME Init PROVE Types OBVIOUS
<1> USE CodeBootAssumption
<1>1. image \in Versions /\ env \in [keys : BOOLEAN, writable : BOOLEAN] BY DEF Init
<1>2. disk \subseteq Versions /\ noAuto \subseteq Versions /\ backups \subseteq Nat /\ db \in Nat
  BY DEF Init
<1>3. current \in Named
  BY Resets, NamesTyped DEF Init
<1>4. /\ attempts \in Count
      /\ Belongs(attempts)
  BY Resets DEF Init, Belongs
<1>5. proc \in Container /\ proc.phase = "select"
  BY AtTyped, PhasesAre DEF Init
<1>6. update \in Update
  BY Resets DEF Init, Update
<1>7. hist \in Ghost
  BY DEF Init, Ghost
<1>8. left \in Bounds
  BY DEF Init, Bounds
<1> QED BY <1>1, <1>2, <1>3, <1>4, <1>5, <1>6, <1>7, <1>8, Resets DEF Init, Types, Typed, WorkerNames, Leaving

\* The ghost of an ended process.
LEMMA EndsTyped ==
    ASSUME Types, Ends
    PROVE  /\ proc' \in Container /\ proc'.phase = "select"
           /\ worker' = Rest /\ asked' = Unasked
           /\ hist' = Remembering
           /\ hist' \in Ghost
<1>2. worker.pc = "removed" => worker.version \in Versions BY DEF Types, WorkerNames, Leaving
<1>3. Remembering \in Ghost
  BY <1>2 DEF Types, Typed, Ghost, Remembering
<1> QED BY <1>3, PhasesAre, AtTyped, Resets DEF Ends


\* What is saved, or kept, is one or the other.
LEMMA SavedIs ==
    ASSUME NEW new, NEW old
    PROVE  Saved(new, old) \in {new, old}
BY DEF Saved

LEMMA CountedTyped ==
    ASSUME NEW n \in 0..MaxAttempts
    PROVE  Counted(n) \in 0..MaxAttempts
BY CodeBootAssumption DEF Counted

\* Enough about an action: what it writes is typed, and the worker has a version.
LEMMA SelectorTyped == ASSUME Types, Selector PROVE Types'
<1> USE Resets, AtTyped, BootingTyped, PhasesAre DEF Types, Typed
<1>1. CASE SelectsImage
  BY <1>1 DEF SelectsImage, files, WorkerNames, Leaving
<1>2. CASE Retires
  <2>1. Names(None, None) \in Named BY NamesTyped
  <2>2. hist' \in Ghost BY <1>2, CodeBootAssumption DEF Retires, Saved, Ghost
  <2>3. proc' \in Container BY <1>2 DEF Retires
  <2> QED BY <1>2, <2>1, <2>2, <2>3 DEF Retires, Saved, WorkerNames, Leaving
<1>3. CASE Settles
  BY <1>3 DEF Settles, Saved, WorkerNames, Leaving, Belongs
<1>4. CASE Keeps
  <2>1. current' \in Named BY <1>4 DEF Keeps, Saved, Noted, Named
  <2>2. proc' \in Container BY <1>4 DEF Keeps
  <2> QED BY <1>4, <2>1, <2>2 DEF Keeps, WorkerNames, Leaving
<1>5. CASE Reverts
  <2>1. current.version \in Versions BY <1>5 DEF Reverts, Applied, Trees, Named
  <2>2. Reverted(current.version) \in Named BY <2>1 DEF Reverted, Names, Named, Trees
  <2>3. current' \in Named BY <1>5, <2>2 DEF Reverts, Saved
  <2>4. At("reverted") \in Container OBVIOUS
  <2>5. proc' \in Container /\ proc'.leaving \in Versions
    BY <1>5, <2>1, <2>4 DEF Reverts, Container
  <2>6. hist' \in Ghost
    <3>1. CASE env.writable
      <4>1. hist' = [hist EXCEPT !.fails = 0, !.banned = @ \cup {current.version},
                                 !.owed = @ \cup {current.version}]
        BY <1>5, <3>1 DEF Reverts
      <4>2. /\ hist.banned \cup {current.version} \in SUBSET Versions
            /\ hist.owed \cup {current.version} \in SUBSET Versions
        BY <2>1 DEF Ghost
      <4>3. 0 \in 0..MaxAttempts BY CodeBootAssumption
      <4> QED BY <4>1, <4>2, <4>3 DEF Ghost
    <3>2. CASE ~env.writable BY <1>5, <3>2 DEF Reverts
    <3> QED BY <3>1, <3>2
  <2> QED BY <1>5, <2>3, <2>5, <2>6 DEF Reverts, WorkerNames, Leaving
<1>6. CASE Spends
  <2>1. proc' \in Container /\ proc'.leaving = proc.leaving /\ proc.leaving \in Versions
    BY <1>6 DEF Spends, Container, Leaving
  <2> QED BY <1>6, <2>1 DEF Spends, Saved, WorkerNames, Leaving, Belongs
<1>7. CASE Marks
  <2>1. hist' \in Ghost
    <3>1. hist.owed \ {proc.leaving} \subseteq Versions BY DEF Ghost
    <3>2. Saved(hist.owed \ {proc.leaving}, hist.owed) \in SUBSET Versions
      BY <3>1 DEF Saved, Ghost
    <3> QED BY <1>7, <3>2 DEF Marks, Ghost
  <2>2. proc' \in Container BY <1>7 DEF Marks
  <2>3. noAuto' \subseteq Versions
    <3>1. proc.leaving \in Versions BY <1>7 DEF Marks, Leaving
    <3> QED BY <1>7, <3>1 DEF Marks, Saved, WithNote
  <2> QED BY <1>7, <2>1, <2>2, <2>3 DEF Marks, WorkerNames, Leaving
<1>8. CASE Boots
  <2> DEFINE v == current.version
             why == IF v = None THEN "image" ELSE TreeRefusal(v)
  <2>1. v \in Trees BY DEF Named
  <2>2. Counts(why) => v # None BY DEF Counts
  <2>3. attempts' \in Count /\ Belongs(attempts')
    <3>1. CASE Counts(why)
      <4>1. attempts' = Bumped(v) BY <1>8, <3>1 DEF Boots
      <4>2. Tried(v) \in 0..MaxAttempts BY CodeBootAssumption DEF Tried, Count
      <4>3. Counted(Tried(v)) \in 0..MaxAttempts BY <4>2, CountedTyped
      <4> QED BY <2>1, <2>2, <3>1, <4>1, <4>3 DEF Bumped, Saved, Count, Belongs
    <3>2. CASE ~Counts(why) BY <1>8, <3>2 DEF Boots
    <3> QED BY <3>1, <3>2
  <2>4. hist' \in Ghost
    <3>1. hist.fails \in 0..MaxAttempts /\ Counted(hist.fails) \in 0..MaxAttempts
      BY CountedTyped DEF Ghost
    <3> QED BY <1>8, <3>1 DEF Boots, Ghost
  <2>5. proc' \in Container /\ proc'.phase = "starting"
    <3>1. (IF why = "none" THEN v ELSE None) \in Trees BY <2>1
    <3>2. proc' = Booting(IF why = "none" THEN v ELSE None) BY <1>8 DEF Boots
    <3> QED BY <3>1, <3>2
  <2> QED BY <1>8, <2>3, <2>4, <2>5 DEF Boots, WorkerNames, Leaving
<1> QED BY <1>1, <1>2, <1>3, <1>4, <1>5, <1>6, <1>7, <1>8 DEF Selector

LEMMA HealedTyped == ASSUME Types PROVE Healed \in Update
BY DEF Healed, Types, Typed, Update

\* What an action that ends the process leaves behind is typed.
LEMMA EndedTyped ==
    ASSUME Types, Ends, update' \in Update, UNCHANGED <<env, files>>, image' \in Versions,
           left' \in Bounds
    PROVE  Types'
BY EndsTyped, Resets DEF files, Types, Typed, WorkerNames, Leaving

LEMMA ProcessTyped == ASSUME Types, Process PROVE Types'
<1> USE Resets, PhasesAre DEF Types, Typed
<1>1. CASE Migrates
  <2>1. Schema[Code(proc.code)] \in Nat BY CodeBootAssumption DEF Code, Container, Trees
  <2>2. proc' \in Container /\ proc'.phase = "serving" BY <1>1 DEF Migrates, Container
  <2> QED BY <1>1, <2>1, <2>2 DEF Migrates, WorkerNames, Leaving
<1>2. CASE Crashes BY <1>2, HealedTyped, EndedTyped DEF Crashes
<1>3. CASE Wedges \/ StaysUp
  <2>1. proc' \in Container /\ proc'.phase \in Hanging
    BY <1>3 DEF Wedges, StaysUp, Hanging, Container
  <2> QED BY <1>3, <2>1 DEF Wedges, StaysUp, Hanging, files, WorkerNames, Leaving
<1>4. CASE ProvesHealthy
  <2>1. proc' \in Container /\ proc'.phase = "healthy" BY <1>4 DEF ProvesHealthy, Container
  <2>2. hist' \in Ghost
    <3>1. 0 \in 0..MaxAttempts BY CodeBootAssumption
    <3> QED BY <1>4, <3>1 DEF ProvesHealthy, Ghost
  <2> QED BY <1>4, <2>1, <2>2 DEF ProvesHealthy, Saved, WorkerNames, Leaving, Belongs
<1>5. CASE GivesUp BY <1>5, HealedTyped, EndedTyped DEF GivesUp
<1>6. CASE Restarts
  <2>1. update' \in Update BY <1>6, HealedTyped DEF Restarts, Saved, Update
  <2> QED BY <1>6, <2>1, EndedTyped DEF Restarts
<1> QED BY <1>1, <1>2, <1>3, <1>4, <1>5, <1>6 DEF Process

LEMMA SurroundingsTyped == ASSUME Types, Surroundings PROVE Types'
<1> USE Resets DEF Types, Typed
<1>1. CASE Interrupted
  <2>1. left' \in Bounds BY <1>1, CodeBootAssumption DEF Interrupted, Bounds
  <2> QED BY <1>1, <2>1, HealedTyped, EndedTyped DEF Interrupted
<1>2. ASSUME NEW i \in Images, ImageDeployed(i) PROVE Types'
  <2>1. i \in Versions BY CodeBootAssumption
  <2> QED BY <1>2, <2>1, HealedTyped, EndedTyped DEF ImageDeployed
<1>3. ASSUME NEW what \in {"keys", "writable"}, Leaves(what) PROVE Types'
  <2>1. left' \in Bounds BY <1>3, CodeBootAssumption DEF Leaves, Bounds
  <2> QED BY <1>3, <2>1 DEF Leaves, files, WorkerNames, Leaving
<1>4. ASSUME NEW what \in {"keys", "writable"}, Returns(what) PROVE Types'
  BY <1>4 DEF Returns, files, WorkerNames, Leaving
<1> QED BY <1>1, <1>2, <1>3, <1>4 DEF Surroundings

\* A worker at work has a version, and only the selector's phases have code
\* that is left.
LEMMA ApplyTyped == ASSUME Types, Apply PROVE Types'
<1> USE Resets, PhasesAre DEF Types, Typed
<1>0. FailedUpdate \in Update BY DEF FailedUpdate, Saved, Update
<1>1. CASE Verifies
  <2>1. worker' \in Worker /\ worker'.version = worker.version /\ worker'.pc = "verified"
    BY <1>1 DEF Verifies, Worker
  <2> QED BY <1>1, <2>1 DEF Verifies, WorkerAt, WorkerNames, Leaving
<1>2. CASE FailsVerify
  <2>1. left' \in Bounds BY <1>2, CodeBootAssumption DEF FailsVerify, Bounds
  <2> QED BY <1>0, <1>2, <2>1 DEF FailsVerify, files, WorkerNames, Leaving
<1>3. CASE RemovesOld
  <2>1. worker' \in Worker /\ worker'.version = worker.version /\ worker'.pc = "removed"
    BY <1>3 DEF RemovesOld, Worker
  <2> QED BY <1>3, <2>1 DEF RemovesOld, WorkerAt, WorkerNames, Leaving
<1>4. CASE Renames
  <2>1. worker' \in Worker /\ worker'.version = worker.version /\ worker'.pc = "renamed"
    BY <1>4 DEF Renames, Worker
  <2> QED BY <1>4, <2>1 DEF Renames, WorkerAt, WorkerNames, Leaving
<1>5. CASE NamesTree
  <2>1. worker' \in Worker /\ worker'.version = worker.version /\ worker'.pc = "named"
    BY <1>5 DEF NamesTree, Worker
  <2>2. worker.version \in Versions BY <1>5 DEF NamesTree, WorkerAt, WorkerNames
  <2>3. CarryPrevious(worker.version) \in Trees BY DEF CarryPrevious, Named
  <2>4. current' \in Named BY <1>5, <2>2, <2>3, NamesTyped DEF NamesTree
  <2>5. hist' \in Ghost
    <3>1. 0 \in 0..MaxAttempts BY CodeBootAssumption
    <3>2. (hist.told /\ ~Opens(worker.version)) \in BOOLEAN BY DEF Ghost
    <3>3. hist.torn \ {worker.version} \in SUBSET Versions BY DEF Ghost
    <3> QED BY <1>5, <3>1, <3>2, <3>3 DEF NamesTree, Ghost
  <2> QED BY <1>5, <2>1, <2>2, <2>4, <2>5 DEF NamesTree, WorkerNames, Leaving
<1>6. CASE FailsSwap
  <2>1. Remembering \in Ghost BY DEF Remembering, Ghost, WorkerNames
  <2> QED BY <1>0, <1>6, <2>1 DEF FailsSwap, files, WorkerNames, Leaving
<1>7. CASE Finishes
  <2>1. hist' \in Ghost BY <1>7 DEF Finishes, Ghost
  <2>2. proc' \in Container /\ proc'.phase = proc.phase /\ proc'.leaving = proc.leaving
    BY <1>7 DEF Finishes, AsksRestart, Container
  <2>3. update' \in Update BY <1>7 DEF Finishes, AsksRestart, Saved, Update
  <2>4. disk' \subseteq Versions BY <1>7 DEF Finishes, Saved, Kept
  <2> QED BY <1>7, <2>1, <2>2, <2>3, <2>4 DEF Finishes, WorkerNames, Leaving, Belongs
<1> QED BY <1>1, <1>2, <1>3, <1>4, <1>5, <1>6, <1>7 DEF Apply

LEMMA RollbackTyped == ASSUME Types, Rollback PROVE Types'
<1> USE Resets DEF Types, Typed
<1>1. CASE Restores
  <2>1. asked.restore \in Nat BY <1>1 DEF Restores, Asked
  <2>2. asked' \in Asked /\ asked'.from = asked.from /\ asked.pc # "none"
    BY <1>1 DEF Restores, AskedAt, Asked
  <2>3. hist' \in Ghost BY <1>1 DEF Restores, Ghost
  <2> QED BY <1>1, <2>1, <2>2, <2>3 DEF Restores, WorkerNames, Leaving
<1>2. CASE NamesTarget
  <2>1. current' \in Named BY <1>2, NamesTyped DEF NamesTarget, Asked
  <2>2. asked' \in Asked BY <1>2 DEF NamesTarget, Asked
  <2>3. hist' \in Ghost
    <3>1. /\ hist.banned \cup {asked.from} \in SUBSET Versions
          /\ hist.owed \cup {asked.from} \in SUBSET Versions
      BY <1>2 DEF NamesTarget, AskedAt, Leaving, Ghost
    <3>2. (IF worker.pc = "none" THEN hist.crossed ELSE hist.crossed \cup {worker.version})
            \in SUBSET Versions
      BY DEF WorkerNames, Ghost
    <3>3. hist.torn \cup ({asked.target} \ (disk \cup {None})) \in SUBSET Versions
      BY DEF Asked, Trees, Ghost
    <3>4. 0 \in 0..MaxAttempts BY CodeBootAssumption
    <3>5. (~Opens(asked.target) \/ (hist.told /\ worker.pc # "none")) \in BOOLEAN OBVIOUS
    <3> QED BY <1>2, <3>1, <3>2, <3>3, <3>4, <3>5 DEF NamesTarget, Ghost
  <2>4. asked'.from = asked.from /\ asked.pc # "none" BY <1>2 DEF NamesTarget, AskedAt, Asked
  <2> QED BY <1>2, <2>1, <2>2, <2>3, <2>4 DEF NamesTarget, WorkerNames, Leaving
<1>3. CASE FinishesRollback
  <2>1. hist' \in Ghost
    <3>1. hist.owed \ {asked.from} \subseteq Versions BY DEF Ghost
    <3>2. Saved(hist.owed \ {asked.from}, hist.owed) \in SUBSET Versions
      BY <3>1 DEF Saved, Ghost
    <3> QED BY <1>3, <3>2 DEF FinishesRollback, Ghost
  <2>2. proc' \in Container /\ proc'.phase = proc.phase /\ proc'.leaving = proc.leaving
    BY <1>3 DEF FinishesRollback, AsksRestart, Container
  <2>3. update' \in Update BY <1>3 DEF FinishesRollback, AsksRestart, Saved, Update
  <2>4. noAuto' \subseteq Versions
    BY <1>3 DEF FinishesRollback, AskedAt, Leaving, Saved, WithNote
  <2> QED BY <1>3, <2>1, <2>2, <2>3, <2>4 DEF FinishesRollback, WorkerNames, Leaving, Belongs
<1>4. CASE FailsRollback
  <2>1. Remembering \in Ghost BY DEF Remembering, Ghost, WorkerNames
  <2> QED BY <1>4, <2>1 DEF FailsRollback, files, WorkerNames, Leaving
<1> QED BY <1>1, <1>2, <1>3, <1>4 DEF Rollback

LEMMA RequestsTyped == ASSUME Types, Requests PROVE Types'
<1> USE Resets DEF Types, Typed
<1>1. ASSUME NEW v \in Versions, NEW auto \in BOOLEAN, StartsApply(v, auto)
      PROVE  update' \in Update /\ worker' \in Worker /\ worker'.version = v /\ worker'.pc = "fetch"
  BY <1>1 DEF StartsApply, Update, Worker
<1>2. ASSUME NEW v \in Versions, AdminApplies(v) PROVE Types'
  <2>1. StartsApply(v, FALSE) BY <1>2 DEF AdminApplies
  <2>2. left' \in Bounds BY <1>2, CodeBootAssumption DEF AdminApplies, Bounds
  <2>3. hist' \in Ghost BY <1>2 DEF AdminApplies, Ghost
  <2>4. noAuto' \subseteq Versions BY <1>2 DEF AdminApplies
  <2>5. /\ update' \in Update /\ worker' \in Worker
        /\ worker'.version = v /\ worker'.pc = "fetch"
    BY <1>1, <2>1
  <2> QED BY <2>1, <2>2, <2>3, <2>4, <2>5 DEF StartsApply, WorkerNames, Leaving
<1>3. ASSUME NEW v \in Versions, PollerApplies(v) PROVE Types'
  <2>1. StartsApply(v, TRUE) BY <1>3 DEF PollerApplies
  <2>2. hist' \in Ghost BY <1>3 DEF PollerApplies, Ghost
  <2>3. /\ update' \in Update /\ worker' \in Worker
        /\ worker'.version = v /\ worker'.pc = "fetch"
    BY <1>1, <2>1
  <2> QED BY <1>3, <2>1, <2>2, <2>3 DEF PollerApplies, StartsApply, WorkerNames, Leaving
<1>4. ASSUME NEW target \in Trees, NEW restore \in backups \cup {-1}, NEW ack \in BOOLEAN,
             AsksRollback(target, restore, ack)
      PROVE  Types'
  <2>1. left' \in Bounds BY <1>4, CodeBootAssumption DEF AsksRollback, Bounds
  <2>2. restore \in Nat \cup {-1} OBVIOUS
  <2>3. asked' \in Asked /\ asked'.from \in Versions
    BY <1>4, <2>2 DEF AsksRollback, Asked, Named, Trees
  <2> QED BY <1>4, <2>1, <2>3 DEF AsksRollback, files, WorkerNames, Leaving
<1> QED BY <1>2, <1>3, <1>4 DEF Requests

LEMMA StepTyped == Types /\ [Next]_vars => Types'
<1> SUFFICES ASSUME Types, [Next]_vars PROVE Types' OBVIOUS
<1>1. CASE UNCHANGED vars
  BY <1>1 DEF vars, files, Types, Typed, WorkerNames, Leaving
<1> QED BY <1>1, SelectorTyped, ProcessTyped, ApplyTyped, RollbackTyped, RequestsTyped,
           SurroundingsTyped DEF Next

LEMMA Typing == Spec => []Types
BY StartsTyped, StepTyped, PTL DEF Spec

\* Whatever sequence of boots, applies, reverts and rollbacks, every file and
\* every ghost stays what it is declared to be.
THEOREM TypeCorrect == Spec => []TypeOK
<1>1. Types => TypeOK BY TypeIs DEF Types
<1> QED BY <1>1, Typing, PTL
-----------------------------------------------------------------------------
(* What is named opens the database *)

\* Code of a tree, or of the image, has a schema.
LEMMA SchemaTyped ==
    ASSUME Types, NEW v \in Trees
    PROVE  Schema[Code(v)] \in Nat /\ db \in Nat
BY CodeBootAssumption DEF Types, Typed, Code, Trees

\* What the end of a process leaves of it all: the files, and nobody at work.
LEMMA EndsOpens ==
    ASSUME Types, Opening, Ends, UNCHANGED <<env, files>>,
           image' = image \/ (SchemasOnlyGrow /\ image' \in Images /\ image' > image)
    PROVE  Opening'
<1>1. worker' = Rest /\ asked' = Unasked /\ proc'.phase = "select" /\ hist' = Remembering
  BY EndsTyped
<1>2. hist'.told = hist.told BY <1>1 DEF Remembering, Types, Typed, Ghost
<1>3. Alone' /\ Booted' /\ VerifiedOpens'
  BY <1>1, Resets DEF Alone, Booted, VerifiedOpens
<1>4. CurrentOpens'
  <2>1. image \in Versions /\ image' \in Versions /\ image \in Nat /\ image' \in Nat
        /\ image <= image'
    <3>1. image \in Versions BY DEF Types, Typed
    <3>2. Versions \subseteq Nat /\ Images \subseteq Versions BY CodeBootAssumption
    <3>3. CASE image' = image BY <3>1, <3>2, <3>3
    <3>4. CASE image' \in Images /\ image' > image BY <3>1, <3>2, <3>4
    <3> QED BY <3>3, <3>4
  <2>2. Schema[image] <= Schema[image'] /\ Schema[image] \in Nat /\ Schema[image'] \in Nat
    BY <2>1, CodeBootAssumption DEF SchemasOnlyGrow
  <2>3. current.version \in Trees /\ db \in Nat BY DEF Types, Typed, Named
  <2>4. current' = current /\ disk' = disk /\ db' = db BY DEF files
  <2>5. CaughtUp(current.version) => CaughtUp(current.version)'
    <3>1. ASSUME CaughtUp(current.version) PROVE CaughtUp(current.version)'
      <4>1. current.version # None /\ current.version <= image BY <3>1 DEF CaughtUp
      <4>2. current.version \in Nat BY <2>3, <4>1, CodeBootAssumption DEF Trees
      <4>3. current.version <= image' BY <2>1, <4>1, <4>2
      <4> QED BY <2>4, <4>1, <4>3 DEF CaughtUp
    <3> QED BY <3>1
  <2>6. Opens(None) => Opens(None)' BY <2>2, <2>3, <2>4 DEF Opens, Code
  <2>7. Opens(current.version) => Opens(current.version)'
    BY <2>4, <2>6 DEF Opens, Code
  <2> QED BY <1>2, <2>4, <2>5, <2>6, <2>7 DEF Opening, CurrentOpens
<1> QED BY <1>3, <1>4 DEF Opening

\* A revert and a retirement only go where the database is opened.
LEMMA SelectorOpens == ASSUME Types, Opening, Selector PROVE Opening'
<1> USE Resets, BootingTyped, PhasesAre
<1>0. /\ proc.phase \in Selecting /\ worker = Rest /\ asked = Unasked
      /\ UNCHANGED <<image, disk, db, worker, asked>>
  BY DEF Selector, SelectsImage, Retires, Settles, Keeps, Applied, Reverts, Spends, Marks, Boots,
         files, Opening, Alone, Selecting
<1>1. Alone' /\ VerifiedOpens' BY <1>0, Resets DEF Alone, VerifiedOpens
<1>2. hist'.told = hist.told
  <2>1. hist \in Ghost BY DEF Types, Typed
  <2>2. CASE SelectsImage \/ Settles \/ Keeps \/ Spends
    BY <2>2 DEF SelectsImage, Settles, Keeps, Spends
  <2>3. CASE Retires \/ Marks \/ Boots BY <2>1, <2>3 DEF Retires, Marks, Boots, Ghost
  <2>4. CASE Reverts BY <2>1, <2>4 DEF Reverts, Ghost
  <2> QED BY <2>2, <2>3, <2>4 DEF Selector
<1>3. Booted'
  <2>1. CASE SelectsImage BY <2>1 DEF SelectsImage, Booted
  <2>2. CASE Settles BY <2>2 DEF Settles, Booted
  <2>3. CASE Boots
    <3> DEFINE why == IF current.version = None THEN "image" ELSE TreeRefusal(current.version)
               code == IF why = "none" THEN current.version ELSE None
    <3>1. code \in Trees BY DEF Types, Typed, Named
    <3>2. proc' = Booting(code) /\ current' = current BY <2>3 DEF Boots
    <3> QED BY <3>1, <3>2 DEF Booted
  <2>4. CASE Retires \/ Keeps \/ Reverts \/ Spends \/ Marks
    BY <2>4, AtTyped DEF Retires, Keeps, Reverts, Spends, Marks, Booted, Types, Typed, Container
  <2> QED BY <2>1, <2>2, <2>3, <2>4 DEF Selector
<1>4. CurrentOpens'
  <2>1. CASE current'.version = current.version
    BY <1>0, <1>2, <2>1 DEF Opening, CurrentOpens, Opens, Code, CaughtUp
  <2>2. CASE Retires
    <3>1. CASE current' = current BY <2>1, <3>1
    <3>2. CASE current' = Names(None, None)
      <4>1. current'.version = None BY <3>2 DEF Names
      <4>2. Opens(None) BY <2>2 DEF Retires, RevertRefused
      <4> QED BY <1>0, <4>1, <4>2 DEF CurrentOpens, Opens, Code
    <3> QED BY <2>2, <3>1, <3>2 DEF Retires, Saved
  <2>3. CASE Reverts
    <3>1. CASE current' = current BY <2>1, <3>1
    <3>2. CASE current' = Reverted(current.version)
      <4>1. current'.version = current.previous BY <3>2 DEF Reverted, Names
      <4>2. Opens(current.previous) \/ current.previous \notin (disk \ Unsaid) \cup {None}
        BY <2>3 DEF Reverts, RevertRefused
      <4> QED BY <1>0, <4>1, <4>2 DEF CurrentOpens, Opens, Code
    <3> QED BY <2>3, <3>1, <3>2 DEF Reverts, Saved
  <2>4. CASE Keeps
    BY <2>1, <2>4 DEF Keeps, Saved, Noted, Types, Typed, Named
  <2>5. CASE SelectsImage \/ Settles \/ Spends \/ Marks \/ Boots
    BY <2>1, <2>5 DEF SelectsImage, Settles, Spends, Marks, Boots, files
  <2> QED BY <2>2, <2>3, <2>4, <2>5 DEF Selector
<1> QED BY <1>1, <1>3, <1>4 DEF Opening

\* A migration takes the database to what the code that runs knows: the tree
\* that is named, or the image, which a later tree outgrows.
LEMMA MigratesOpens == ASSUME SchemasOnlyGrow, Types, Opening, Migrates PROVE Opening'
<1>1. /\ worker = Rest /\ asked = Unasked /\ UNCHANGED <<image, disk, current, worker, asked, hist>>
      /\ proc.code \in {None, current.version} /\ proc'.phase = "serving"
      /\ Opens(proc.code) /\ db' = Schema[Code(proc.code)]
  BY DEF Migrates, Opening, Alone, Booted, Types, Typed, Container
<1>2. Alone' /\ Booted' /\ VerifiedOpens'
  BY <1>1, Resets DEF Alone, Booted, VerifiedOpens, Selecting
<1>3. CurrentOpens'
  <2>1. current.version \in Trees BY DEF Types, Typed, Named
  <2>2. CASE proc.code = current.version
    <3>1. Schema[Code(current.version)] \in Nat BY <2>1, SchemaTyped
    <3>2. Opens(current.version)' BY <1>1, <2>2, <3>1 DEF Opens, Code
    <3> QED BY <3>2 DEF CurrentOpens
  <2>3. CASE proc.code = None /\ current.version # None
    <3>1. current.version \in Nat /\ image \in Nat /\ image \in Versions
          /\ current.version \in Versions
      BY <2>1, <2>3, CodeBootAssumption DEF Trees, Types, Typed
    <3>2. Schema[image] \in Nat /\ Schema[current.version] \in Nat BY <3>1, CodeBootAssumption
    <3>3. db' = Schema[image] BY <1>1, <2>3 DEF Code
    <3>4. CASE current.version <= image
      <4>1. CaughtUp(current.version)' BY <1>1, <2>3, <3>4 DEF CaughtUp
      <4>2. Opens(None)' BY <1>1, <3>2, <3>3 DEF Opens, Code
      <4> QED BY <1>1, <4>1, <4>2 DEF CurrentOpens
    <3>5. CASE image <= current.version
      <4>1. Schema[image] <= Schema[current.version] BY <3>1, <3>5 DEF SchemasOnlyGrow
      <4>2. Opens(current.version)' BY <1>1, <2>3, <3>2, <3>3, <4>1 DEF Opens, Code
      <4> QED BY <4>2 DEF CurrentOpens
    <3> QED BY <3>1, <3>4, <3>5
  <2> QED BY <1>1, <2>2, <2>3
<1> QED BY <1>2, <1>3 DEF Opening

LEMMA ProcessOpens == ASSUME SchemasOnlyGrow, Types, Opening, Process PROVE Opening'
<1>1. CASE Migrates BY <1>1, MigratesOpens
<1>2. CASE Crashes \/ GivesUp \/ Restarts
  BY <1>2, EndsOpens DEF Crashes, GivesUp, Restarts
<1>3. CASE Wedges \/ StaysUp
  <2>1. proc'.phase \in Hanging BY <1>3 DEF Wedges, StaysUp, Hanging, Types, Typed, Container
  <2> QED BY <1>3, <2>1 DEF Wedges, StaysUp, Hanging, files, Opening, Alone, Booted, VerifiedOpens, CurrentOpens,
             Selecting, Opens, Code, CaughtUp
<1>4. CASE ProvesHealthy
  <2>1. proc'.phase = "healthy" BY <1>4 DEF ProvesHealthy, Types, Typed, Container
  <2>2. hist'.told = hist.told BY <1>4 DEF ProvesHealthy, Types, Typed, Ghost
  <2> QED BY <1>4, <2>1, <2>2 DEF ProvesHealthy, Opening, Alone, Booted, VerifiedOpens,
             CurrentOpens, Selecting, Opens, Code, CaughtUp
<1> QED BY <1>1, <1>2, <1>3, <1>4 DEF Process

\* While a worker or a request is at work, nobody selects or migrates.
LEMMA AtWork ==
    ASSUME Types, Opening, worker.pc # "none" \/ asked.pc # "none"
    PROVE  proc.phase \notin Selecting \cup {"starting"}
BY Resets DEF Opening, Alone

LEMMA ApplyOpens == ASSUME Types, Opening, Apply PROVE Opening'
<1>1. worker.pc # "none" /\ image' = image /\ db' = db
  BY DEF Apply, Verifies, FailsVerify, RemovesOld, Renames, NamesTree, FailsSwap, Finishes, WorkerAt,
         files
<1>2. proc.phase \notin Selecting \cup {"starting"} /\ proc'.phase = proc.phase
  <2>1. proc'.phase = proc.phase
    BY DEF Apply, Verifies, FailsVerify, RemovesOld, Renames, NamesTree, FailsSwap, Finishes,
           AsksRestart, Types, Typed, Container
  <2> QED BY <1>1, <2>1, AtWork
<1>3. Alone' /\ Booted' BY <1>2 DEF Alone, Booted
<1>4. worker.version \in Versions BY <1>1 DEF Types, WorkerNames
<1>5. Opens(worker.version) <=> Schema[worker.version] >= db
  BY <1>4, CodeBootAssumption DEF Opens, Code
<1>6. CASE Verifies
  <2>1. worker'.version = worker.version BY <1>6 DEF Verifies, Types, Typed, Worker
  <2> QED BY <1>1, <1>3, <1>6, <2>1 DEF Verifies, Opening, VerifiedOpens, CurrentOpens, Opens, Code,
             CaughtUp
<1>7. CASE FailsVerify
  BY <1>3, <1>7, Resets DEF FailsVerify, files, Opening, VerifiedOpens, CurrentOpens, Opens, Code,
     CaughtUp
<1>8. CASE RemovesOld
  <2>1. worker'.version = worker.version BY <1>8 DEF RemovesOld, Types, Typed, Worker
  <2> QED BY <1>3, <1>8, <2>1 DEF RemovesOld, WorkerAt, Opening, VerifiedOpens, CurrentOpens, Opens,
             Code, CaughtUp
<1>9. CASE Renames
  <2>1. worker'.version = worker.version BY <1>9 DEF Renames, Types, Typed, Worker
  <2>2. Opens(worker.version) \/ hist.told
    BY <1>5, <1>9 DEF Renames, WorkerAt, Opening, VerifiedOpens
  <2> QED BY <1>3, <1>9, <2>1, <2>2 DEF Renames, WorkerAt, Opening, VerifiedOpens, CurrentOpens,
             Opens, Code, CaughtUp
<1>10. CASE NamesTree
  <2>1. worker'.pc = "named" BY <1>10 DEF NamesTree, Types, Typed, Worker
  <2>2. Opens(worker.version) \/ hist.told
    BY <1>5, <1>10 DEF NamesTree, WorkerAt, Opening, VerifiedOpens
  <2>3. current'.version = worker.version BY <1>10 DEF NamesTree, Names
  <2>4. hist'.told = (hist.told /\ ~Opens(worker.version))
    BY <1>10 DEF NamesTree, Types, Typed, Ghost
  <2>5. Opens(current.version)' <=> Schema[worker.version] >= db'
    BY <1>4, <2>3, CodeBootAssumption DEF Opens, Code
  <2>6. Opens(current.version)' \/ hist'.told BY <1>1, <1>5, <2>2, <2>4, <2>5
  <2> QED BY <1>3, <2>1, <2>5, <2>6 DEF Opening, VerifiedOpens, CurrentOpens
<1>11. CASE FailsSwap
  <2>1. hist'.told = hist.told BY <1>11 DEF FailsSwap, Remembering, Types, Typed, Ghost
  <2> QED BY <1>3, <1>11, <2>1, Resets DEF FailsSwap, files, Opening, VerifiedOpens, CurrentOpens,
             Opens, Code, CaughtUp
<1>12. CASE Finishes
  <2>1. hist'.told = hist.told BY <1>12 DEF Finishes, Types, Typed, Ghost
  <2>2. disk' \subseteq disk BY <1>12 DEF Finishes, Saved, Kept
  <2> QED BY <1>3, <1>12, <2>1, <2>2, Resets DEF Finishes, Opening, VerifiedOpens, CurrentOpens,
             Opens, Code, CaughtUp
<1> QED BY <1>6, <1>7, <1>8, <1>9, <1>10, <1>11, <1>12 DEF Apply

LEMMA RollbackOpens == ASSUME Types, Opening, Rollback PROVE Opening'
<1>1. asked.pc # "none" /\ UNCHANGED <<image, disk, worker>>
  BY DEF Rollback, Restores, NamesTarget, FinishesRollback, FailsRollback, AskedAt, files
<1>2. proc.phase \notin Selecting \cup {"starting"} /\ proc'.phase = proc.phase
  <2>1. proc'.phase = proc.phase
    BY DEF Rollback, Restores, NamesTarget, FinishesRollback, FailsRollback,
           AsksRestart, Types, Typed, Container
  <2> QED BY <1>1, <2>1, AtWork
<1>3. Alone' /\ Booted' BY <1>2 DEF Alone, Booted
<1>4. CASE Restores
  <2>1. hist'.told BY <1>4 DEF Restores, Types, Typed, Ghost
  <2> QED BY <1>3, <2>1 DEF Opening, VerifiedOpens, CurrentOpens
<1>5. CASE NamesTarget
  <2>1. hist'.told = (~Opens(asked.target) \/ (hist.told /\ worker.pc # "none"))
    BY <1>5 DEF NamesTarget, Types, Typed, Ghost
  <2>2. current'.version = asked.target /\ db' = db BY <1>5 DEF NamesTarget, Names
  <2>3. CurrentOpens' BY <1>1, <2>1, <2>2 DEF CurrentOpens, Opens, Code
  <2>4. VerifiedOpens' BY <1>1, <2>1, <2>2 DEF Opening, VerifiedOpens
  <2> QED BY <1>3, <2>3, <2>4 DEF Opening
<1>6. CASE FinishesRollback
  <2>1. hist'.told = hist.told BY <1>6 DEF FinishesRollback, Types, Typed, Ghost
  <2> QED BY <1>1, <1>3, <1>6, <2>1 DEF FinishesRollback, Opening, VerifiedOpens, CurrentOpens, Opens,
             Code, CaughtUp
<1>7. CASE FailsRollback
  <2>1. hist'.told = hist.told BY <1>7 DEF FailsRollback, Remembering, Types, Typed, Ghost
  <2> QED BY <1>1, <1>3, <1>7, <2>1 DEF FailsRollback, files, Opening, VerifiedOpens, CurrentOpens,
             Opens, Code, CaughtUp
<1> QED BY <1>4, <1>5, <1>6, <1>7 DEF Rollback

LEMMA RequestsOpens == ASSUME Types, Opening, Requests PROVE Opening'
<1>0. ASSUME UNCHANGED <<image, disk, current, db, proc>>, hist'.told = hist.told,
             proc.phase \notin Selecting \cup {"starting"},
             worker'.pc = "fetch" \/ worker' = worker
      PROVE  Opening'
  BY <1>0 DEF Opening, Alone, Booted, VerifiedOpens, CurrentOpens, Opens, Code, CaughtUp
<1>1. (Answering \cup Hanging) \cap (Selecting \cup {"starting"}) = {}
  BY DEF Selecting, Answering, Hanging
<1>2. ASSUME NEW v \in Versions, AdminApplies(v) PROVE Opening'
  <2>1. hist'.told = hist.told BY <1>2 DEF AdminApplies, Types, Typed, Ghost
  <2> QED BY <1>0, <1>1, <1>2, <2>1 DEF AdminApplies, StartsApply
<1>3. ASSUME NEW v \in Versions, PollerApplies(v) PROVE Opening'
  <2>1. hist'.told = hist.told BY <1>3 DEF PollerApplies, Types, Typed, Ghost
  <2> QED BY <1>0, <1>1, <1>3, <2>1 DEF PollerApplies, StartsApply
<1>4. ASSUME NEW target \in Trees, NEW restore \in backups \cup {-1}, NEW ack \in BOOLEAN,
             AsksRollback(target, restore, ack)
      PROVE  Opening'
  BY <1>0, <1>1, <1>4 DEF AsksRollback, files
<1> QED BY <1>2, <1>3, <1>4 DEF Requests

LEMMA SurroundingsOpens == ASSUME SchemasOnlyGrow, Types, Opening, Surroundings PROVE Opening'
<1>1. CASE Interrupted BY <1>1, EndsOpens DEF Interrupted
<1>2. ASSUME NEW i \in Images, ImageDeployed(i) PROVE Opening'
  BY <1>2, EndsOpens DEF ImageDeployed
<1>3. ASSUME NEW what \in {"keys", "writable"}, Leaves(what) \/ Returns(what) PROVE Opening'
  BY <1>3 DEF Leaves, Returns, files, Opening, Alone, Booted, VerifiedOpens, CurrentOpens, Opens,
     Code, CaughtUp
<1> QED BY <1>1, <1>2, <1>3 DEF Surroundings

LEMMA StepOpens == ASSUME SchemasOnlyGrow, Types, Opening, [Next]_vars PROVE Opening'
<1>1. CASE UNCHANGED vars
  BY <1>1 DEF vars, files, Opening, Alone, Booted, VerifiedOpens, CurrentOpens, Opens, Code, CaughtUp
<1> QED BY <1>1, SelectorOpens, ProcessOpens, ApplyOpens, RollbackOpens, RequestsOpens,
           SurroundingsOpens DEF Next

LEMMA StartsOpen == Init => Opening
BY AtTyped, PhasesAre, Resets, CodeBootAssumption
   DEF Init, Opening, Alone, Booted, VerifiedOpens, CurrentOpens, Opens, Code, Names

\* current.json never names code that cannot open the live database, if a
\* later release knows every migration of the ones before it.
THEOREM NamedTreeOpens ==
    ASSUME SchemasOnlyGrow
    PROVE  Spec => []CurrentOpens
<1>1. Types /\ Opening /\ [Next]_vars => Opening' BY StepOpens
<1>2. Opening => CurrentOpens BY DEF Opening
<1> QED BY <1>1, <1>2, StartsOpen, Typing, PTL DEF Spec

-----------------------------------------------------------------------------
(* The way back *)

\* An end of the process, at whatever point of a swap, keeps what is here.
LEMMA HereKept ==
    ASSUME Types, disk' = disk, hist' = Remembering, NEW v, Here(v)
    PROVE  v \in disk' \cup hist'.torn
BY DEF Here, Remembering, Types, Typed, Ghost

LEMMA SameNames ==
    ASSUME Ways, UNCHANGED current,
           \A v \in {current.version, current.previous} : Here(v) /\ v # None => Here(v)'
    PROVE  Ways'
BY DEF Ways, NamedIsHere, WayBack, Here

LEMMA SameWays ==
    ASSUME Ways, UNCHANGED <<current, disk, worker>>, hist'.torn = hist.torn
    PROVE  Ways'
BY DEF Ways, NamedIsHere, WayBack, Here

LEMMA EndsWays ==
    ASSUME Types, Ways, UNCHANGED <<current, disk>>, hist' = Remembering
    PROVE  Ways'
<1>1. \A v \in {current.version, current.previous} : Here(v) /\ v # None => Here(v)'
  BY HereKept DEF Here, Remembering, Types, Typed, Ghost
<1> QED BY <1>1, SameNames

LEMMA SelectorWays == ASSUME Types, Ways, Selector PROVE Ways'
<1>1. disk' = disk /\ worker' = worker
  BY DEF Selector, SelectsImage, Retires, Settles, Keeps, Reverts, Spends, Marks, Boots, files
<1>2. hist'.torn = hist.torn
  <2>1. hist \in Ghost BY DEF Types, Typed
  <2>2. CASE SelectsImage \/ Settles \/ Keeps \/ Spends
    BY <2>2 DEF SelectsImage, Settles, Keeps, Spends
  <2>3. CASE Retires \/ Marks \/ Boots BY <2>1, <2>3 DEF Retires, Marks, Boots, Ghost
  <2>4. CASE Reverts BY <2>1, <2>4 DEF Reverts, Ghost
  <2> QED BY <2>2, <2>3, <2>4 DEF Selector
<1>3. /\ current'.version \in {None, current.version, current.previous}
      /\ current'.previous = None
            \/ (current'.version = current.version /\ current'.previous = current.previous)
      /\ current'.version = current.previous => current'.previous = None \/ current' = current
  <2>1. CASE current' = current BY <2>1
  <2>2. CASE Retires BY <2>1, <2>2 DEF Retires, Saved, Names
  <2>3. CASE Reverts BY <2>1, <2>3 DEF Reverts, Reverted, Saved, Names
  <2>4. CASE Keeps
    <3>1. current'.version = current.version /\ current'.previous = current.previous
      BY <2>4 DEF Keeps, Saved, Noted, Types, Typed, Named
    <3> QED BY <3>1 DEF Ways, WayBack
  <2>5. CASE SelectsImage \/ Settles \/ Spends \/ Marks \/ Boots
    BY <2>1, <2>5 DEF SelectsImage, Settles, Spends, Marks, Boots, files
  <2> QED BY <2>2, <2>3, <2>4, <2>5 DEF Selector
<1> QED BY <1>1, <1>2, <1>3 DEF Ways, NamedIsHere, WayBack, Here

LEMMA ApplyWays == ASSUME Types, Ways, Apply PROVE Ways'
<1>1. hist \in Ghost /\ worker \in Worker BY DEF Types, Typed
<1>2. CASE Verifies
  BY <1>1, <1>2 DEF Verifies, WorkerAt, Worker, Ways, NamedIsHere, WayBack, Here
<1>3. CASE FailsVerify
  BY <1>3, Resets DEF FailsVerify, WorkerAt, files, Ways, NamedIsHere, WayBack, Here
<1>4. CASE RemovesOld
  BY <1>1, <1>4 DEF RemovesOld, WorkerAt, Worker, Ways, NamedIsHere, WayBack, Here
<1>5. CASE Renames
  BY <1>1, <1>5 DEF Renames, WorkerAt, Worker, Ways, NamedIsHere, WayBack, Here
<1>6. CASE NamesTree
  <2> DEFINE v == worker.version
  <2>1. worker.pc = "renamed" /\ worker'.pc = "named" /\ v \in disk /\ disk' = disk /\ v \in Versions
    BY <1>1, <1>6 DEF NamesTree, WorkerAt, Worker, Types, WorkerNames
  <2>2. hist'.torn = hist.torn \ {v} BY <1>1, <1>6 DEF NamesTree, Ghost
  <2>3. current'.version = v /\ current'.previous = CarryPrevious(v)
    BY <1>6 DEF NamesTree, Names
  <2>4. CarryPrevious(v) \in {None, current.version, current.previous} /\ CarryPrevious(v) # v
    <3>1. v # None BY <2>1, CodeBootAssumption
    <3> QED BY <3>1 DEF CarryPrevious
  <2>5. CarryPrevious(v) # None => CarryPrevious(v) \in disk' \cup hist'.torn
    BY <2>1, <2>2, <2>4 DEF Ways, NamedIsHere, WayBack, Here
  <2> QED BY <2>1, <2>3, <2>4, <2>5 DEF Ways, NamedIsHere, WayBack, Here
<1>7. CASE FailsSwap BY <1>7, EndsWays DEF FailsSwap, files
<1>8. CASE Finishes
  <2>1. hist'.torn = hist.torn BY <1>1, <1>8 DEF Finishes, Ghost
  <2>2. disk \cap {current.version, current.previous} \subseteq disk'
    BY <1>8 DEF Finishes, Saved, Kept, Protected
  <2> QED BY <1>8, <2>1, <2>2, SameNames DEF Finishes, WorkerAt, Here
<1> QED BY <1>2, <1>3, <1>4, <1>5, <1>6, <1>7, <1>8 DEF Apply

LEMMA RollbackWays == ASSUME Types, Ways, Rollback PROVE Ways'
<1>1. hist \in Ghost BY DEF Types, Typed
<1>2. CASE Restores BY <1>1, <1>2, SameWays DEF Restores, Ghost
<1>3. CASE NamesTarget
  <2>1. current'.version = asked.target /\ current'.previous = None
    BY <1>3 DEF NamesTarget, Names
  <2>2. hist'.torn = hist.torn \cup ({asked.target} \ (disk \cup {None}))
    BY <1>1, <1>3 DEF NamesTarget, Ghost
  <2> QED BY <1>3, <2>1, <2>2 DEF NamesTarget, Ways, NamedIsHere, WayBack, Here
<1>4. CASE FinishesRollback BY <1>1, <1>4, SameWays DEF FinishesRollback, Ghost
<1>5. CASE FailsRollback BY <1>5, EndsWays DEF FailsRollback, files
<1> QED BY <1>2, <1>3, <1>4, <1>5 DEF Rollback

LEMMA StepWays == Types /\ Ways /\ [Next]_vars => Ways'
<1> SUFFICES ASSUME Types, Ways, [Next]_vars PROVE Ways' OBVIOUS
<1>1. hist \in Ghost BY DEF Types, Typed
<1>2. CASE UNCHANGED vars BY <1>2, SameWays DEF vars, files
<1>3. CASE Process
  <2>1. CASE Crashes \/ GivesUp \/ Restarts
    BY <2>1, EndsWays DEF Crashes, GivesUp, Restarts, Ends, files
  <2>2. CASE Migrates \/ Wedges \/ StaysUp
    BY <2>2, SameWays DEF Migrates, Wedges, StaysUp, files
  <2>3. CASE ProvesHealthy BY <1>1, <2>3, SameWays DEF ProvesHealthy, Ghost
  <2> QED BY <1>3, <2>1, <2>2, <2>3 DEF Process
<1>4. CASE Requests
  <2>1. ASSUME NEW v \in Versions, AdminApplies(v) \/ PollerApplies(v) PROVE Ways'
    <3>1. hist'.torn = hist.torn BY <1>1, <2>1 DEF AdminApplies, PollerApplies, Ghost
    <3>2. worker.pc = "none" /\ UNCHANGED <<current, disk>>
      BY <2>1 DEF AdminApplies, PollerApplies, StartsApply
    <3> QED BY <3>1, <3>2, SameNames DEF Here
  <2>2. ASSUME NEW target \in Trees, NEW restore \in backups \cup {-1}, NEW ack \in BOOLEAN,
               AsksRollback(target, restore, ack)
        PROVE  Ways'
    BY <2>2, SameWays DEF AsksRollback, files
  <2> QED BY <1>4, <2>1, <2>2 DEF Requests
<1>5. CASE Surroundings
  BY <1>5, EndsWays, SameWays
     DEF Surroundings, Interrupted, ImageDeployed, Leaves, Returns, Ends, files
<1> QED BY <1>2, <1>3, <1>4, <1>5, SelectorWays, ApplyWays, RollbackWays DEF Next

\* The way back from an applied tree is another one, and is there.
THEOREM WayBackStands == Spec => []WayBack
<1>1. Init => Ways BY DEF Init, Ways, NamedIsHere, WayBack, Names
<1>2. Ways => WayBack BY DEF Ways
<1> QED BY <1>1, <1>2, StepWays, Typing, PTL DEF Spec

-----------------------------------------------------------------------------
(* Reverts are earned *)

\* The count of the tree that is named is of boots that came to nothing, or it
\* is about to be cleared, or it is one that was left behind.
CountIsTrue ==
    attempts.version = current.version /\ current.version # None =>
        \/ attempts.n <= hist.fails
        \/ hist.stale
        \/ worker.pc = "named" \/ asked.pc = "written"

Earning == Alone /\ WayBack /\ CountIsTrue

\* What the count is about is as it was.
LEMMA SameCount ==
    ASSUME Types, CountIsTrue, UNCHANGED attempts, current'.version = current.version,
           hist'.fails = hist.fails,
           (hist.stale \/ worker.pc = "named" \/ asked.pc = "written") =>
               (hist'.stale \/ worker'.pc = "named" \/ asked'.pc = "written")
    PROVE  CountIsTrue'
BY DEF CountIsTrue

LEMMA EndsCount ==
    ASSUME Types, CountIsTrue, UNCHANGED <<attempts, current>>, hist' = Remembering
    PROVE  CountIsTrue'
<1>1. /\ hist'.fails = hist.fails
      /\ hist'.stale = (hist.stale \/ worker.pc = "named" \/ asked.pc = "written")
  BY DEF Remembering, Types, Typed, Ghost
<1> QED BY <1>1, SameCount

LEMMA CountedGrows ==
    ASSUME NEW m \in 0..MaxAttempts, NEW n \in 0..MaxAttempts, m <= n
    PROVE  Counted(m) <= Counted(n) /\ Counted(0) <= Counted(n)
BY CodeBootAssumption DEF Counted

LEMMA SelectorCount == ASSUME Types, Alone, WayBack, CountIsTrue, Selector PROVE CountIsTrue'
<1>1. hist \in Ghost /\ worker.pc = "none" /\ asked.pc = "none" /\ UNCHANGED <<worker, asked>>
  BY Resets DEF Selector, SelectsImage, Retires, Settles, Keeps, Applied, Reverts, Spends, Marks,
     Boots, Alone, Selecting, Types, Typed
<1>2. CASE SelectsImage BY <1>2, SameCount DEF SelectsImage, files
<1>3. CASE Retires
  <2>1. CASE env.writable BY <1>3, <2>1 DEF Retires, Saved, Names, CountIsTrue
  <2>2. CASE ~env.writable
    <3>1. hist'.fails = hist.fails /\ hist'.stale = hist.stale /\ current' = current
      BY <1>1, <1>3, <2>2 DEF Retires, Saved, Ghost
    <3> QED BY <1>1, <1>3, <3>1, SameCount DEF Retires
  <2> QED BY <2>1, <2>2
<1>4. CASE Settles BY <1>4, Resets DEF Settles, Saved, Reset, NoFile, CountIsTrue
<1>5. CASE Keeps
  <2>1. current'.version = current.version
    BY <1>5 DEF Keeps, Saved, Noted, Types, Typed, Named
  <2> QED BY <1>1, <1>5, <2>1, SameCount DEF Keeps
<1>6. CASE Reverts
  <2>1. attempts.version = current.version /\ attempts' = attempts
    BY <1>6, CodeBootAssumption DEF Reverts, Tried
  <2>2. CASE env.writable
    <3>1. current'.version = current.previous BY <1>6, <2>2 DEF Reverts, Saved, Reverted, Names
    <3> QED BY <2>1, <3>1 DEF WayBack, CountIsTrue
  <2>3. CASE ~env.writable
    BY <1>1, <1>6, <2>1, <2>3, SameCount DEF Reverts, Saved
  <2> QED BY <2>2, <2>3
<1>7. CASE Spends BY <1>7, Resets DEF Spends, Saved, Reset, NoFile, CountIsTrue
<1>8. CASE Marks
  <2>1. hist'.fails = hist.fails /\ hist'.stale = hist.stale BY <1>1, <1>8 DEF Marks, Ghost
  <2> QED BY <1>1, <1>8, <2>1, SameCount DEF Marks
<1>9. CASE Boots
  <2> DEFINE v == current.version
             why == IF v = None THEN "image" ELSE TreeRefusal(v)
  <2>1. current' = current /\ hist'.stale = hist.stale
    BY <1>1, <1>9 DEF Boots, Ghost
  <2>2. CASE Counts(why)
    <3>1. hist'.fails = Counted(hist.fails) BY <1>1, <1>9, <2>2 DEF Boots, Counts, Ghost
    <3>2. hist.fails \in 0..MaxAttempts /\ attempts.n \in 0..MaxAttempts /\ 0 \in 0..MaxAttempts
      BY CodeBootAssumption DEF Types, Typed, Ghost, Count
    <3>3. hist.fails <= Counted(hist.fails) BY <3>2 DEF Counted
    <3>4. Counted(0) <= Counted(hist.fails) BY <3>2, CountedGrows
    <3>5. attempts.n <= hist.fails => Counted(attempts.n) <= Counted(hist.fails)
      BY <3>2, CountedGrows
    <3>6. attempts' = Saved([version |-> v, n |-> Counted(Tried(v)), file |-> TRUE], attempts)
      BY <1>9, <2>2 DEF Boots, Bumped
    <3>7. Counted(hist.fails) \in Nat BY <3>2, CountedTyped, CodeBootAssumption
    <3>8. CASE env.writable
      <4>1. attempts'.n = Counted(Tried(v)) BY <3>6, <3>8 DEF Saved
      <4> QED BY <1>1, <2>1, <3>1, <3>4, <3>5, <4>1 DEF CountIsTrue, Tried
    <3>9. CASE ~env.writable
      <4>1. attempts' = attempts BY <3>6, <3>9 DEF Saved
      <4>2. attempts.n <= hist.fails => attempts.n <= Counted(hist.fails)
        BY <3>2, <3>3, <3>7, CodeBootAssumption
      <4> QED BY <1>1, <2>1, <3>1, <4>1, <4>2 DEF CountIsTrue
    <3> QED BY <3>8, <3>9
  <2>3. CASE ~Counts(why)
    <3>1. hist'.fails = hist.fails BY <1>1, <1>9, <2>3 DEF Boots, Counts, Ghost
    <3> QED BY <1>1, <1>9, <2>1, <2>3, <3>1, SameCount DEF Boots
  <2> QED BY <2>2, <2>3
<1> QED BY <1>2, <1>3, <1>4, <1>5, <1>6, <1>7, <1>8, <1>9 DEF Selector

LEMMA ApplyCount == ASSUME Types, CountIsTrue, Apply PROVE CountIsTrue'
<1>1. hist \in Ghost /\ worker \in Worker BY DEF Types, Typed
<1>2. CASE Verifies \/ RemovesOld \/ Renames
  BY <1>1, <1>2, SameCount DEF Verifies, RemovesOld, Renames, WorkerAt, Worker
<1>3. CASE FailsVerify BY <1>3, SameCount DEF FailsVerify, WorkerAt, files
<1>4. CASE NamesTree BY <1>1, <1>4 DEF NamesTree, Worker, CountIsTrue
<1>5. CASE FailsSwap BY <1>5, EndsCount DEF FailsSwap, files
<1>6. CASE Finishes BY <1>6 DEF Finishes, NoFile, CountIsTrue
<1> QED BY <1>2, <1>3, <1>4, <1>5, <1>6 DEF Apply

LEMMA RollbackCount == ASSUME Types, CountIsTrue, Rollback PROVE CountIsTrue'
<1>1. hist \in Ghost /\ asked \in Asked BY DEF Types, Typed
<1>2. CASE Restores
  <2>1. hist'.fails = hist.fails /\ hist'.stale = hist.stale BY <1>1, <1>2 DEF Restores, Ghost
  <2> QED BY <1>2, <2>1, SameCount DEF Restores, AskedAt
<1>3. CASE NamesTarget BY <1>1, <1>3 DEF NamesTarget, Asked, CountIsTrue
<1>4. CASE FinishesRollback BY <1>4 DEF FinishesRollback, NoFile, CountIsTrue
<1>5. CASE FailsRollback BY <1>5, EndsCount DEF FailsRollback, files
<1> QED BY <1>2, <1>3, <1>4, <1>5 DEF Rollback

LEMMA StepCount == ASSUME Types, Alone, WayBack, CountIsTrue, [Next]_vars PROVE CountIsTrue'
<1>1. hist \in Ghost BY DEF Types, Typed
<1>2. CASE UNCHANGED vars BY <1>2, SameCount DEF vars, files
<1>3. CASE Process
  <2>1. CASE Crashes \/ GivesUp \/ Restarts
    BY <2>1, EndsCount DEF Crashes, GivesUp, Restarts, Ends, files
  <2>2. CASE Migrates \/ Wedges \/ StaysUp
    BY <2>2, SameCount DEF Migrates, Wedges, StaysUp, files
  <2>3. CASE ProvesHealthy
    <3>1. CASE env.writable BY <2>3, <3>1 DEF ProvesHealthy, Saved, NoFile, CountIsTrue
    <3>2. CASE ~env.writable BY <1>1, <2>3, <3>2 DEF ProvesHealthy, Ghost, CountIsTrue
    <3> QED BY <3>1, <3>2
  <2> QED BY <1>3, <2>1, <2>2, <2>3 DEF Process
<1>4. CASE Requests
  <2>1. ASSUME NEW v \in Versions, AdminApplies(v) \/ PollerApplies(v) PROVE CountIsTrue'
    <3>1. hist'.fails = hist.fails /\ hist'.stale = hist.stale
      BY <1>1, <2>1 DEF AdminApplies, PollerApplies, Ghost
    <3>2. worker.pc = "none" /\ UNCHANGED <<attempts, current, asked>>
      BY <2>1 DEF AdminApplies, PollerApplies, StartsApply
    <3> QED BY <3>1, <3>2, SameCount
  <2>2. ASSUME NEW target \in Trees, NEW restore \in backups \cup {-1}, NEW ack \in BOOLEAN,
               AsksRollback(target, restore, ack)
        PROVE  CountIsTrue'
    BY <2>2, SameCount DEF AsksRollback, files
  <2> QED BY <1>4, <2>1, <2>2 DEF Requests
<1>5. CASE Surroundings
  BY <1>5, EndsCount, SameCount
     DEF Surroundings, Interrupted, ImageDeployed, Leaves, Returns, Ends, files
<1> QED BY <1>2, <1>3, <1>4, <1>5, SelectorCount, ApplyCount, RollbackCount DEF Next

LEMMA StepAlone == Types /\ Alone /\ [Next]_vars => Alone'
<1> SUFFICES ASSUME Types, Alone, [Next]_vars PROVE Alone' OBVIOUS
<1>1. CASE UNCHANGED vars BY <1>1 DEF vars, Alone
<1>2. CASE Selector
  BY <1>2 DEF Selector, SelectsImage, Retires, Settles, Keeps, Applied, Reverts, Spends, Marks,
     Boots, Alone, Selecting
<1>3. CASE Process
  <2>1. CASE Crashes \/ GivesUp \/ Restarts
    BY <2>1, Resets DEF Crashes, GivesUp, Restarts, Ends, Alone
  <2>2. CASE Migrates \/ Wedges \/ StaysUp \/ ProvesHealthy
    <3>1. proc'.phase \in {"serving", "wedged", "judged", "healthy"}
      BY <2>2 DEF Migrates, Wedges, StaysUp, ProvesHealthy, Types, Typed, Container
    <3> QED BY <3>1 DEF Alone, Selecting
  <2> QED BY <1>3, <2>1, <2>2 DEF Process
<1>4. CASE Apply \/ Rollback
  <2>1. worker.pc # "none" \/ asked.pc # "none"
    BY <1>4 DEF Apply, Verifies, FailsVerify, RemovesOld, Renames, NamesTree, FailsSwap, Finishes,
       WorkerAt, Rollback, Restores, NamesTarget, FinishesRollback, FailsRollback, AskedAt
  <2>2. proc'.phase = proc.phase
    BY <1>4 DEF Apply, Verifies, FailsVerify, RemovesOld, Renames, NamesTree, FailsSwap, Finishes,
       Rollback, Restores, NamesTarget, FinishesRollback, FailsRollback, AsksRestart, files,
       Types, Typed, Container
  <2> QED BY <2>1, <2>2, Resets DEF Alone
<1>5. CASE Requests
  <2>1. proc.phase \in Answering \cup Hanging /\ proc' = proc
    BY <1>5 DEF Requests, AdminApplies, PollerApplies, StartsApply, AsksRollback
  <2> QED BY <2>1 DEF Alone, Selecting, Answering, Hanging
<1>6. CASE Surroundings
  BY <1>6, Resets DEF Surroundings, Interrupted, ImageDeployed, Leaves, Returns, Ends, Alone
<1> QED BY <1>1, <1>2, <1>3, <1>4, <1>5, <1>6 DEF Next

LEMMA StartsAlone == Init => Alone
BY Resets DEF Init, Alone

\* The selector leaves a tree only when MaxAttempts boots of it came to
\* nothing, or the count is one that could not be cleared.
THEOREM RevertsAreEarned == Spec => RevertIsEarned
<1>1. Init => CountIsTrue BY DEF Init, CountIsTrue, NoFile, Names
<1>2. Types /\ Alone /\ WayBack /\ CountIsTrue /\ [Next]_vars => CountIsTrue' BY StepCount
<1>3. ASSUME Types, Alone, CountIsTrue, [Next]_vars,
             proc.phase = "select", proc'.phase = "reverted", current' # current
      PROVE  hist.fails >= MaxAttempts \/ hist.stale
  <2>1. Reverts
    BY <1>3, AtTyped, PhasesAre
       DEF vars, Next, Selector, SelectsImage, Retires, Settles, Keeps, Reverts, Spends, Marks, Boots,
           Process, Migrates, Crashes, Wedges, ProvesHealthy, GivesUp, StaysUp, Restarts, Ends,
           Apply, Verifies, FailsVerify, RemovesOld, Renames, NamesTree, FailsSwap, Finishes,
           Rollback, Restores, NamesTarget, FinishesRollback, FailsRollback, AskedAt, WorkerAt,
           Running, Selecting, Requests, AdminApplies, PollerApplies, StartsApply, AsksRollback,
           Surroundings, Interrupted, ImageDeployed, Leaves, Returns, files, Booting
  <2>2. attempts.version = current.version /\ attempts.n >= MaxAttempts /\ current.version # None
    BY <2>1, CodeBootAssumption DEF Reverts, Applied, Tried
  <2>3. worker.pc = "none" /\ asked.pc = "none" BY <1>3, Resets DEF Alone, Selecting
  <2>4. hist.fails \in Nat /\ attempts.n \in Nat /\ MaxAttempts \in Nat
    BY <1>3, CodeBootAssumption DEF Types, Typed, Ghost, Count
  <2> QED BY <1>3, <2>2, <2>3, <2>4 DEF CountIsTrue
<1>4. Types /\ Alone /\ CountIsTrue /\ [Next]_vars
        => [proc.phase = "select" /\ proc'.phase = "reverted" /\ current' # current
              => hist.fails >= MaxAttempts \/ hist.stale]_vars
  BY <1>3
<1> QED BY <1>1, <1>2, <1>4, StartsAlone, StepAlone, Typing, WayBackStands, PTL
        DEF Spec, RevertIsEarned

-----------------------------------------------------------------------------
(* What is banned stays out *)

\* What was reverted or rolled back is on the poller's list.
ListIsKept == hist.banned \ hist.owed \subseteq noAuto

\* An unattended apply that has not named its tree yet.
InFlight == worker.auto /\ worker.pc \in {"fetch", "verified", "removed", "renamed"}

\* It is of a version that is not banned, and a rollback that overtakes it has
\* been remembered.
AutoIsClean ==
    InFlight =>
        /\ worker.version \notin hist.banned \ (hist.owed \cup hist.crossed)
        /\ asked.pc = "written" => worker.version \in hist.crossed

Banning == ListIsKept /\ AutoIsClean

LEMMA SameBans ==
    ASSUME Banning, UNCHANGED noAuto, hist'.banned = hist.banned,
           hist'.owed = hist.owed, hist'.crossed = hist.crossed,
           InFlight' => InFlight /\ worker'.version = worker.version,
           asked'.pc = "written" => asked.pc = "written"
    PROVE  Banning'
BY DEF Banning, ListIsKept, AutoIsClean

LEMMA EndsBans ==
    ASSUME Types, Banning, UNCHANGED noAuto, hist' = Remembering,
           worker' \in {worker, Rest}, asked' \in {asked, Unasked}
    PROVE  Banning'
<1>1. hist'.banned = hist.banned /\ hist'.owed = hist.owed /\ hist'.crossed = hist.crossed
  BY DEF Remembering, Types, Typed, Ghost
<1> QED BY <1>1, Resets, SameBans DEF InFlight

\* The selector bans a tree when nobody is at work, and owes the note of it.
LEMMA SelectorBans == ASSUME Types, Alone, Banning, Selector PROVE Banning'
<1>1. hist \in Ghost /\ worker.pc = "none" /\ UNCHANGED <<worker, asked>> /\ ~InFlight /\ ~InFlight'
  BY Resets DEF Selector, SelectsImage, Retires, Settles, Keeps, Applied, Reverts, Spends, Marks,
     Boots, Alone, Selecting, Types, Typed, InFlight
<1>2. CASE SelectsImage \/ Settles \/ Keeps \/ Spends
  BY <1>1, <1>2, SameBans DEF SelectsImage, Settles, Keeps, Spends, files
<1>3. CASE Retires \/ Boots
  <2>1. hist'.banned = hist.banned /\ hist'.owed = hist.owed /\ hist'.crossed = hist.crossed
    BY <1>1, <1>3 DEF Retires, Boots, Ghost
  <2> QED BY <1>1, <1>3, <2>1, SameBans DEF Retires, Boots
<1>4. CASE Reverts
  <2>1. CASE env.writable
    <3>1. /\ hist'.banned = hist.banned \cup {current.version}
          /\ hist'.owed = hist.owed \cup {current.version}
      BY <1>1, <1>4, <2>1 DEF Reverts, Ghost
    <3> QED BY <1>1, <1>4, <3>1 DEF Reverts, Banning, ListIsKept, AutoIsClean
  <2>2. CASE ~env.writable BY <1>1, <1>4, <2>2, SameBans DEF Reverts
  <2> QED BY <2>1, <2>2
<1>5. CASE Marks
  <2>1. /\ hist'.banned = hist.banned
        /\ hist'.owed = Saved(hist.owed \ {proc.leaving}, hist.owed)
        /\ noAuto' = Saved(noAuto \cup {proc.leaving}, noAuto)
    BY <1>1, <1>5 DEF Marks, WithNote, Ghost
  <2> QED BY <1>1, <2>1 DEF Saved, Banning, ListIsKept, AutoIsClean
<1> QED BY <1>2, <1>3, <1>4, <1>5 DEF Selector

LEMMA ApplyBans == ASSUME Types, Banning, Apply PROVE Banning'
<1>1. hist \in Ghost /\ worker \in Worker BY DEF Types, Typed
<1>2. CASE Verifies \/ RemovesOld \/ Renames
  BY <1>1, <1>2, SameBans DEF Verifies, RemovesOld, Renames, WorkerAt, Worker, InFlight
<1>3. CASE FailsVerify BY <1>3, Resets, SameBans DEF FailsVerify, files, InFlight
<1>4. CASE NamesTree
  <2>1. hist'.banned = hist.banned /\ hist'.owed = hist.owed /\ hist'.crossed = hist.crossed
    BY <1>1, <1>4 DEF NamesTree, Ghost
  <2>2. ~InFlight' BY <1>1, <1>4 DEF NamesTree, Worker, InFlight
  <2> QED BY <1>4, <2>1, <2>2, SameBans DEF NamesTree
<1>5. CASE FailsSwap BY <1>5, EndsBans DEF FailsSwap, files
<1>6. CASE Finishes
  <2>1. hist'.banned = hist.banned /\ hist'.owed = hist.owed /\ hist'.crossed = hist.crossed
    BY <1>1, <1>6 DEF Finishes, Ghost
  <2> QED BY <1>6, <2>1, Resets, SameBans DEF Finishes, InFlight
<1> QED BY <1>2, <1>3, <1>4, <1>5, <1>6 DEF Apply

\* A rollback bans the tree it leaves; an apply under way is crossed by it.
LEMMA RollbackBans == ASSUME Types, Banning, Rollback PROVE Banning'
<1>1. hist \in Ghost /\ asked \in Asked BY DEF Types, Typed
<1>2. CASE Restores
  <2>1. hist'.banned = hist.banned /\ hist'.owed = hist.owed /\ hist'.crossed = hist.crossed
    BY <1>1, <1>2 DEF Restores, Ghost
  <2>2. asked'.pc = asked.pc BY <1>1, <1>2 DEF Restores, Asked
  <2> QED BY <1>2, <2>1, <2>2, SameBans DEF Restores, InFlight
<1>3. CASE NamesTarget
  <2>1. /\ hist'.banned = hist.banned \cup {asked.from} /\ hist'.owed = hist.owed \cup {asked.from}
        /\ hist'.crossed = IF worker.pc = "none" THEN hist.crossed
                           ELSE hist.crossed \cup {worker.version}
    BY <1>1, <1>3 DEF NamesTarget, Ghost
  <2>2. UNCHANGED <<noAuto, worker>> BY <1>3 DEF NamesTarget
  <2> QED BY <2>1, <2>2 DEF Banning, ListIsKept, AutoIsClean, InFlight
<1>4. CASE FinishesRollback
  <2>1. /\ hist'.banned = hist.banned /\ hist'.crossed = hist.crossed
        /\ hist'.owed = Saved(hist.owed \ {asked.from}, hist.owed)
        /\ noAuto' = Saved(noAuto \cup {asked.from}, noAuto)
    BY <1>1, <1>4 DEF FinishesRollback, WithNote, Ghost
  <2>2. asked.pc = "written" /\ asked'.pc = "none" /\ worker' = worker
    BY <1>4, Resets DEF FinishesRollback, AskedAt
  <2> QED BY <2>1, <2>2 DEF Saved, Banning, ListIsKept, AutoIsClean, InFlight
<1>5. CASE FailsRollback BY <1>5, EndsBans DEF FailsRollback, files
<1> QED BY <1>2, <1>3, <1>4, <1>5 DEF Rollback

\* The poller asks before it starts one; an admin takes the ban away.
LEMMA RequestsBans == ASSUME Types, Banning, Requests PROVE Banning'
<1>1. hist \in Ghost BY DEF Types, Typed
<1>2. ASSUME NEW v \in Versions, AdminApplies(v) PROVE Banning'
  <2>1. ~worker'.auto BY <1>2 DEF AdminApplies, StartsApply
  <2>2. /\ hist'.banned = hist.banned \ {v} /\ hist'.owed = hist.owed \ {v}
        /\ noAuto' = noAuto \ {v}
    BY <1>1, <1>2 DEF AdminApplies, Ghost
  <2> QED BY <2>1, <2>2 DEF Banning, ListIsKept, AutoIsClean, InFlight
<1>3. ASSUME NEW v \in Versions, PollerApplies(v) PROVE Banning'
  <2>1. /\ hist'.banned = hist.banned /\ hist'.owed = hist.owed
        /\ hist'.crossed = IF asked.pc = "none" THEN hist.crossed ELSE hist.crossed \cup {v}
    BY <1>1, <1>3 DEF PollerApplies, Ghost
  <2>2. v \notin noAuto /\ noAuto' = noAuto /\ asked' = asked /\ worker'.version = v
    BY <1>3 DEF PollerApplies, AutoApplyRefused, StartsApply
  <2> QED BY <2>1, <2>2 DEF Banning, ListIsKept, AutoIsClean
<1>4. ASSUME NEW target \in Trees, NEW restore \in backups \cup {-1}, NEW ack \in BOOLEAN,
             AsksRollback(target, restore, ack)
      PROVE  Banning'
  BY <1>4, SameBans DEF AsksRollback, files, InFlight
<1> QED BY <1>2, <1>3, <1>4 DEF Requests

LEMMA StepBans == Types /\ Alone /\ Banning /\ [Next]_vars => Banning'
<1> SUFFICES ASSUME Types, Alone, Banning, [Next]_vars PROVE Banning' OBVIOUS
<1>1. hist \in Ghost BY DEF Types, Typed
<1>2. CASE UNCHANGED vars BY <1>2, SameBans DEF vars, files, InFlight
<1>3. CASE Process
  <2>1. CASE Crashes \/ GivesUp \/ Restarts
    BY <2>1, EndsBans DEF Crashes, GivesUp, Restarts, Ends, files
  <2>2. CASE Migrates \/ Wedges \/ StaysUp
    BY <2>2, SameBans DEF Migrates, Wedges, StaysUp, files, InFlight
  <2>3. CASE ProvesHealthy
    <3>1. hist'.banned = hist.banned /\ hist'.owed = hist.owed /\ hist'.crossed = hist.crossed
      BY <1>1, <2>3 DEF ProvesHealthy, Ghost
    <3> QED BY <2>3, <3>1, SameBans DEF ProvesHealthy, InFlight
  <2> QED BY <1>3, <2>1, <2>2, <2>3 DEF Process
<1>4. CASE Surroundings
  <2>1. CASE Interrupted \/ \E i \in Images : ImageDeployed(i)
    BY <2>1, EndsBans DEF Interrupted, ImageDeployed, Ends, files
  <2>2. CASE \E what \in {"keys", "writable"} : Leaves(what) \/ Returns(what)
    BY <2>2, SameBans DEF Leaves, Returns, files, InFlight
  <2> QED BY <1>4, <2>1, <2>2 DEF Surroundings
<1> QED BY <1>2, <1>3, <1>4, SelectorBans, ApplyBans, RollbackBans, RequestsBans DEF Next

\* What was reverted or rolled back does not come back unattended.
THEOREM BansHold == Spec => BannedStaysOut
<1>1. Init => Banning
  BY Resets DEF Init, Banning, ListIsKept, AutoIsClean, InFlight
<1>2. Types /\ Banning /\ [Next]_vars
        => [worker.pc = "renamed" /\ worker'.pc = "named" /\ worker.auto
              => worker.version \notin hist.banned \ (hist.owed \cup hist.crossed)]_vars
  BY DEF Banning, AutoIsClean, InFlight
<1> QED BY <1>1, <1>2, StartsAlone, StepAlone, StepBans, Typing, PTL DEF Spec, BannedStaysOut

=============================================================================
