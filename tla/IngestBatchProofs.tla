-------------------------- MODULE IngestBatchProofs --------------------------
(***************************************************************************)
(* Proofs about IngestBatch, for every set of clips, machines, requests and *)
(* suffixes and every bound.                                                *)
(*                                                                          *)
(* Types need what a machine that waits is waiting for (Waiting).  That the *)
(* archive keeps what is published needs that a clip has no row but the one *)
(* its item names (Sole), and that a request whose checks still hold names  *)
(* the row the clip has now (Unmoved): the row changes only as a batch ends *)
(* or is claimed, and an ended batch has no lease (Fresh).                  *)
(*                                                                          *)
(* That "done" is the truth needs what the holder's checkpoint says of its  *)
(* clips (Checkpoint), and that it agrees with the ledger on each clip they *)
(* have not come apart over (Sure): what the holder takes for finished is   *)
(* settled, or its failure is the one thing it is reporting now.            *)
(***************************************************************************)
EXTENDS IngestBatch, TLAPS, WellFoundedInduction

-----------------------------------------------------------------------------
(* Names *)

\* A set of suffixes has a first one.
LEMMA HasLeast ==
    ASSUME NEW S \in SUBSET Nat, S # {}
    PROVE  \E k \in S : \A l \in S : k <= l
<1> DEFINE R == OpToRel(<, Nat)
<1>1. IsWellFoundedOn(R, Nat) BY NatLessThanWellFounded
<1>2. \A x, y \in Nat : y < x => <<y, x>> \in R BY DEF OpToRel
<1> HIDE DEF R
<1>3. PICK x \in S : \A y \in S : ~ (<<y, x>> \in R) BY <1>1, WFMin
<1>4. ASSUME NEW l \in S PROVE x <= l
  <2>1. x \in Nat /\ l \in Nat OBVIOUS
  <2>2. ~ (l < x) BY <1>2, <1>3, <2>1, Zenon
  <2> QED BY <2>1, <2>2
<1> QED BY <1>4

\* claim_name gives a clip a name of its own that nobody had.
LEMMA NamedIs ==
    ASSUME NEW i \in Items, NEW taken, \E k \in Suffixes : <<i, k>> \notin taken
    PROVE  /\ Named(i, taken) \in Slots /\ Named(i, taken)[1] = i
           /\ Named(i, taken) \notin taken
<1> DEFINE S == {k \in Suffixes : <<i, k>> \notin taken}
           P(k) == /\ <<i, k>> \notin taken
                   /\ \A l \in Suffixes : l < k => <<i, l>> \in taken
<1>1. S \in SUBSET Nat /\ S # {} BY IngestAssumption
<1>2. PICK k \in S : \A l \in S : k <= l BY <1>1, HasLeast
<1>3. \A l \in Suffixes : l < k => l \notin S BY <1>1, <1>2, IngestAssumption
<1>4. k \in Suffixes /\ P(k) BY <1>2, <1>3
<1>5. (CHOOSE j \in Suffixes : P(j)) \in Suffixes /\ P(CHOOSE j \in Suffixes : P(j))
  BY <1>4, Zenon
<1>6. Named(i, taken) = <<i, CHOOSE j \in Suffixes : P(j)>> BY DEF Named
<1> HIDE DEF P, S
<1>7. PICK j \in Suffixes : Named(i, taken) = <<i, j>> /\ P(j) BY <1>5, <1>6
<1> QED BY <1>7 DEF Slots, P

-----------------------------------------------------------------------------
(* Types *)

ItemOps == {"status", "result", "uploaded", "publish"}
Ask(ops, args) ==
    [op : ops, who : Machines, i : Items, arg : args, was : ItemStates,
     row : Slots \cup {Nobody}, fresh : BOOLEAN, tries : Nat]
ItemAsks == Ask({"status"}, {"describing", "uploading", "failed"})
            \cup Ask({"result", "uploaded", "publish"}, BOOLEAN)
Marks == [op : {"cancel"}, who : {Nobody}, step : {"flag", "end"}, end : BOOLEAN]

\* What a request carries.
Asked(r) ==
    /\ r.op \in Ops
    /\ r.op \in {"claim", "beat", "release"} => r.who \in Machines
    /\ r.op = "list" => r.step = "sweep"
    /\ r.op = "cancel" => r.step = "sweep" \/ r \in Marks
    /\ r.op = "claim" =>
          /\ r.step \in {"sweep", "items", "names", "mint"}
          /\ r.step \in {"names", "mint"} => r.mint \subseteq Items
          /\ r.step = "mint" => r.taken \subseteq Slots
    /\ r.op \in {"list", "claim", "cancel"} /\ r.step = "sweep" =>
          r.stale \in BOOLEAN /\ r.stopped \in BOOLEAN
    /\ r.op = "release" => r.arg \in {"done", "failed", "cancelled"}
    /\ r.op \in ItemOps => r \in ItemAsks

AllAsked == req = [t \in Requests |-> req[t]] /\ \A t \in Requests : Asked(req[t])

\* A machine waits for a request of its own, about the clip it is at.
Awaits(rec, m, r) ==
    /\ r.op \in {"claim", "release"} \cup ItemOps /\ r.who = m
    /\ r.op = "release" => r.arg # "cancelled"
    /\ r.op \in ItemOps => rec.doing = r.i
Busy(rec) == rec.step # "idle" => rec.doing \in Items
Waiting == \A m \in Machines :
    /\ ing[m].at # Nobody => Awaits(ing[m], m, req[ing[m].at])
    /\ Busy(ing[m])

Batches == [state : BatchStates, machine : Machines \cup {Nobody},
            lease : {"none", "live", "lapsed"}, cancel : BOOLEAN]
ItemRows == [state : ItemStates, row : Slots \cup {Nobody}, tries : Nat]
Videos == [status : {"absent", "ingesting", "indexed"}, described : BOOLEAN]
Ghosts == [late : SUBSET Items, twice : BOOLEAN, apart : SUBSET Items,
           again : SUBSET Items, wedged : BOOLEAN]
Bounds == [runs : 0..Runs, clicks : 0..Clicks, mishaps : 0..Mishaps, restarts : 0..Restarts]

Owned == \A i \in Items : item[i].row # Nobody =>
            item[i].row[1] = i /\ rows[item[i].row].status # "absent"

Books == batch \in Batches /\ item \in [Items -> ItemRows] /\ rows \in [Slots -> Videos] /\ Owned
Rest  == nas \in [Slots -> {"nothing", "proxies", "all"}] /\ left \in Bounds
Floor == ing \in [Machines -> Local] /\ AllAsked /\ Waiting

Ind == Books /\ Rest /\ Floor /\ hist \in Ghosts

LEMMA StatesAre ==
    /\ ItemStates = {"pending", "describing", "indexed", "uploading", "proxies_live", "live",
                     "failed", "cancelled"}
    /\ BatchStates = {"queued", "claimed", "running", "done", "done_with_errors", "cancelled",
                      "failed"}
<1>1. DOMAIN Progress = 1..6 BY DEF Progress
<1>2. {Progress[k] : k \in DOMAIN Progress} =
        {"pending", "describing", "indexed", "uploading", "proxies_live", "live"}
  <2>1. /\ Progress[1] = "pending" /\ Progress[2] = "describing" /\ Progress[3] = "indexed"
        /\ Progress[4] = "uploading" /\ Progress[5] = "proxies_live" /\ Progress[6] = "live"
    BY DEF Progress
  <2>2. \A k \in 1..6 : k = 1 \/ k = 2 \/ k = 3 \/ k = 4 \/ k = 5 \/ k = 6 OBVIOUS
  <2>3. 1 \in 1..6 /\ 2 \in 1..6 /\ 3 \in 1..6 /\ 4 \in 1..6 /\ 5 \in 1..6 /\ 6 \in 1..6 OBVIOUS
  <2> QED BY <1>1, <2>1, <2>2, <2>3
<1> QED BY <1>2 DEF ItemStates, BatchStates, BatchTerminal

LEMMA NobodyIs ==
    Nobody \notin Items /\ Nobody \notin Machines /\ Nobody \notin Requests /\ Nobody \notin Slots
BY IngestAssumption DEF Slots

LEMMA TypesGiveTypeOK == Ind => TypeOK
<1> SUFFICES ASSUME Ind PROVE TypeOK OBVIOUS
<1>1. \A t \in Requests : req[t].op \in Ops BY DEF Ind, Floor, AllAsked, Asked
<1>2. \A m \in Machines : ing[m].at # Nobody => req[ing[m].at].op # "none"
  BY DEF Ind, Floor, Waiting, Awaits, ItemOps
<1> QED
  BY <1>1, <1>2 DEF Ind, Books, Rest, Floor, Owned, Batches, ItemRows, Videos, Ghosts, Bounds,
    TypeOK

\* A machine at rest, and one that has forgotten its batch.
LEMMA ForgotIs ==
    ASSUME NEW m \in Machines, ing[m] \in Local
    PROVE  /\ Forgot(m) \in Local /\ Forgot(m).at = Nobody /\ Forgot(m).doing = Nobody
           /\ Forgot(m).step = "idle" /\ ~Forgot(m).has
<1> DEFINE stage == [i \in Items |-> "pending"]
           tries == [i \in Items |-> 0]
           row == [i \in Items |-> Nobody]
           Clear(rec, a, b, c) ==
             [rec EXCEPT !.has = FALSE, !.unclaimed = FALSE, !.queue = FALSE,
                         !.up = {}, !.staged = {}, !.told = {}, !.refused = {}, !.doing = Nobody,
                         !.step = "idle", !.at = Nobody, !.stage = a, !.tries = b, !.row = c]
<1>1. /\ stage \in [Items -> ItemStates] /\ tries \in [Items -> Nat]
      /\ row \in [Items -> Slots \cup {Nobody}]
  BY StatesAre
<1>2. Forgot(m) = Clear(ing[m], stage, tries, row) BY DEF Forgot
<1> HIDE DEF stage, tries, row
<1>3. /\ Clear(ing[m], stage, tries, row) \in Local
      /\ Clear(ing[m], stage, tries, row).at = Nobody
      /\ Clear(ing[m], stage, tries, row).doing = Nobody
      /\ Clear(ing[m], stage, tries, row).step = "idle"
      /\ ~Clear(ing[m], stage, tries, row).has
  BY <1>1 DEF Local
<1> QED BY <1>2, <1>3

LEMMA DoneIs ==
    ASSUME NEW rec \in Local
    PROVE  /\ Done(rec) \in Local /\ Done(rec).at = Nobody /\ Done(rec).step = "idle"
           /\ \A s \in {"idle", "describe", "hand", "fail"} :
                 /\ Then(rec, s) \in Local /\ Then(rec, s).at = Nobody
                 /\ Then(rec, s).doing = rec.doing
BY DEF Done, Then, Local

\* After the answer a machine waits for nothing.
LEMMA AfterIs ==
    ASSUME Ind, NEW m \in Machines, NEW rec \in Local, NEW r, NEW answer \in {"ok", "no", "lost"},
           r.op \in {"claim", "release"} \cup ItemOps,
           r.op \in ItemOps => r \in ItemAsks /\ rec.doing = r.i,
           NEW q \in After(m, rec, r, answer)
    PROVE  q \in Local /\ q.at = Nobody /\ Busy(q)
<1>1. CASE r.op = "status"
  <2>1. q \in {Then(rec, "describe"), Done(rec)} BY <1>1 DEF After
  <2>2. rec.doing \in Items BY <1>1 DEF ItemOps, ItemAsks, Ask
  <2> QED BY <2>1, <2>2, DoneIs DEF Busy
<1>2. CASE r.op = "result"
  <2>1. q \in {Then(rec, "hand"), [Then(rec, "fail") EXCEPT !.told = IF answer = "no" THEN @ \ {r.i} ELSE @]}
    BY <1>2 DEF After
  <2>2. rec.doing \in Items BY <1>2 DEF ItemOps, ItemAsks, Ask
  <2>3. q = Then(rec, "hand") => q \in Local /\ q.at = Nobody /\ Busy(q) BY <2>2, DoneIs DEF Busy
  <2>4. ASSUME q = [Then(rec, "fail") EXCEPT !.told = IF answer = "no" THEN @ \ {r.i} ELSE @]
        PROVE  q \in Local /\ q.at = Nobody /\ Busy(q)
    <3> DEFINE T == IF answer = "no" THEN rec.told \ {r.i} ELSE rec.told
    <3>1. q = [rec EXCEPT !.at = Nobody, !.step = "fail", !.told = T]
      BY <2>4 DEF Then, Local
    <3>2. T \in SUBSET Items BY DEF Local
    <3> HIDE DEF T
    <3>3. q \in Local /\ q.at = Nobody /\ q.doing = rec.doing BY <3>1, <3>2 DEF Local
    <3> QED BY <2>2, <3>3 DEF Busy
  <2> QED BY <2>1, <2>3, <2>4
<1>3. CASE r.op \in {"uploaded", "publish"}
  <2>1. q \in {Then(rec, "fail"), [Done(rec) EXCEPT !.refused = @ \cup {r.i}], Done(rec),
               [Done(rec) EXCEPT !.stage[r.i] = "live"], [Done(rec) EXCEPT !.staged = @ \cup {r.i}]}
    BY <1>3 DEF After
  <2>2. rec.doing \in Items /\ r.i \in Items BY <1>3 DEF ItemOps, ItemAsks, Ask
  <2>3. q \in {Then(rec, "fail"), Done(rec)} => q \in Local /\ q.at = Nobody /\ Busy(q)
    BY <2>2, DoneIs DEF Busy
  <2>4. ASSUME q = [Done(rec) EXCEPT !.refused = @ \cup {r.i}]
        PROVE  q \in Local /\ q.at = Nobody /\ Busy(q)
    <3>1. q = [rec EXCEPT !.at = Nobody, !.doing = Nobody, !.step = "idle", !.refused = rec.refused \cup {r.i}]
      BY <2>4 DEF Done, Local
    <3> QED BY <2>2, <3>1 DEF Local, Busy
  <2>5. ASSUME q = [Done(rec) EXCEPT !.stage[r.i] = "live"]
        PROVE  q \in Local /\ q.at = Nobody /\ Busy(q)
    <3>1. q = [rec EXCEPT !.at = Nobody, !.doing = Nobody, !.step = "idle",
                   !.stage = [rec.stage EXCEPT ![r.i] = "live"]]
      BY <2>5 DEF Done, Local
    <3>2. [rec.stage EXCEPT ![r.i] = "live"] \in [Items -> ItemStates] BY <2>2, StatesAre DEF Local
    <3> QED BY <2>2, <3>1, <3>2 DEF Local, Busy
  <2>6. ASSUME q = [Done(rec) EXCEPT !.staged = @ \cup {r.i}]
        PROVE  q \in Local /\ q.at = Nobody /\ Busy(q)
    <3> DEFINE S == rec.staged \cup {r.i}
    <3>1. q = [rec EXCEPT !.at = Nobody, !.doing = Nobody, !.step = "idle", !.staged = S]
      BY <2>6 DEF Done, Local
    <3>2. S \in SUBSET Items BY <2>2 DEF Local
    <3> HIDE DEF S
    <3>3. q \in Local BY <3>1, <3>2 DEF Local
    <3>4. q.at = Nobody /\ q.step = "idle" BY <3>1 DEF Local
    <3> QED BY <3>3, <3>4 DEF Busy
  <2> QED BY <2>1, <2>3, <2>4, <2>5, <2>6
<1>4. CASE r.op = "release"
  <2>1. q = Forgot(m) BY <1>4 DEF After
  <2>2. ing[m] \in Local BY DEF Ind, Floor
  <2> QED BY <2>1, <2>2, ForgotIs DEF Busy
<1>5. CASE r.op = "claim"
  <2>1. q = Done(rec) BY <1>5 DEF After
  <2> QED BY <2>1, DoneIs DEF Busy
<1> QED BY <1>1, <1>2, <1>3, <1>4, <1>5 DEF ItemOps

\* A step that serves or posts one request: each machine waits for nothing, for
\* the request it already waited for, or for the new one, which is its own.
LEMMA FloorKept ==
    ASSUME Floor, NEW t \in Requests, NEW r, Becomes(t, r), Asked(r),
           ing' \in [Machines -> Local],
           \A m \in Machines :
              /\ Busy(ing'[m])
              /\ \/ ing'[m].at = Nobody
                 \/ ing[m].at # t /\ ing'[m] = ing[m]
                 \/ ing'[m].at = t /\ Awaits(ing'[m], m, r)
    PROVE  Floor'
<1>1. /\ req' = [x \in Requests |-> req'[x]] /\ req'[t] = r
      /\ \A x \in Requests : x # t => req'[x] = req[x]
  BY DEF Floor, AllAsked, Becomes
<1>2. AllAsked'
  <2>1. \A x \in Requests : Asked(req'[x]) BY <1>1 DEF Floor, AllAsked
  <2> QED BY <1>1, <2>1 DEF AllAsked
<1>3. ASSUME NEW m \in Machines, ing'[m].at # Nobody
      PROVE  Awaits(ing'[m], m, req'[ing'[m].at])
  <2>1. CASE ing'[m].at = t /\ Awaits(ing'[m], m, r) BY <1>1, <2>1
  <2>2. CASE ing[m].at # t /\ ing'[m] = ing[m]
    <3>1. ing[m].at \in Requests BY <1>3, <2>2 DEF Floor, Local
    <3>2. Awaits(ing[m], m, req[ing[m].at]) BY <1>3, <2>2 DEF Floor, Waiting
    <3> QED BY <1>1, <2>2, <3>1, <3>2
  <2> QED BY <1>3, <2>1, <2>2
<1>4. Waiting' BY <1>3 DEF Waiting
<1> QED BY <1>2, <1>4 DEF Floor

\* One machine moves on by itself.
LEMMA FloorMoves ==
    ASSUME Floor, NEW m \in Machines, NEW rec \in Local, rec.at = Nobody, Busy(rec),
           ing' = [ing EXCEPT ![m] = rec], UNCHANGED req
    PROVE  Floor'
<1>1. /\ ing' \in [Machines -> Local] /\ ing'[m] = rec
      /\ \A n \in Machines : n # m => ing'[n] = ing[n]
  BY DEF Floor
<1>2. Waiting'
  <2> SUFFICES ASSUME NEW n \in Machines
               PROVE  /\ ing'[n].at # Nobody => Awaits(ing'[n], n, req'[ing'[n].at])
                      /\ Busy(ing'[n])
    BY DEF Waiting
  <2>1. CASE n = m BY <1>1, <2>1
  <2>2. CASE n # m BY <1>1, <2>2 DEF Floor, Waiting
  <2> QED BY <2>1, <2>2
<1>3. AllAsked' BY DEF Floor, AllAsked
<1> QED BY <1>1, <1>2, <1>3 DEF Floor

LEMMA FloorStays == Floor /\ UNCHANGED <<req, ing>> => Floor'
<1> SUFFICES ASSUME Floor, UNCHANGED <<req, ing>> PROVE Floor' OBVIOUS
<1>1. AllAsked' BY DEF Floor, AllAsked
<1>2. Waiting' BY DEF Floor, Waiting
<1> QED BY <1>1, <1>2 DEF Floor

\* Nobody waits for a free request, and one machine at most for any other.
LEMMA OneWaits ==
    ASSUME Floor, NEW t \in Requests, NEW m \in Machines, ing[m].at = t
    PROVE  Awaits(ing[m], m, req[t]) /\ req[t].who = m /\ req[t] # Free
<1>1. t # Nobody BY NobodyIs
<1>2. Awaits(ing[m], m, req[t]) BY <1>1 DEF Floor, Waiting
<1> QED BY <1>2 DEF Awaits, Free, ItemOps

LEMMA FreeIsAsked == Asked(Free)
BY DEF Asked, Free, Ops, ItemOps

\* A request is posted by m, which is left at rec and may wait for it.
LEMMA Posted ==
    ASSUME Floor, NEW t \in Requests, NEW m \in Machines, NEW r, NEW rec \in Local,
           req[t] = Free, Becomes(t, r), Asked(r), Busy(rec),
           rec.at = Nobody \/ (rec.at = t /\ Awaits(rec, m, r)),
           ing' = [ing EXCEPT ![m] = rec]
    PROVE  Floor'
<1>1. /\ ing' \in [Machines -> Local] /\ ing'[m] = rec
      /\ \A n \in Machines : n # m => ing'[n] = ing[n]
  BY DEF Floor
<1>2. \A n \in Machines : ing[n].at # t BY OneWaits
<1>3. \A n \in Machines : Busy(ing[n]) BY DEF Floor, Waiting
<1> QED BY <1>1, <1>2, <1>3, FloorKept

\* A request that no machine waits for is posted or goes on; nobody moves.
LEMMA Unawaited ==
    ASSUME Floor, NEW t \in Requests, NEW r, Becomes(t, r), Asked(r), UNCHANGED ing,
           \A m \in Machines : ing[m].at = t => Awaits(ing[m], m, r)
    PROVE  Floor'
<1>1. \A n \in Machines : Busy(ing[n]) BY DEF Floor, Waiting
<1>2. ing' \in [Machines -> Local] BY DEF Floor
<1> QED BY <1>1, <1>2, FloorKept

\* A request is over, and the machine that waits for it, if it still does, moves on.
LEMMA Served ==
    ASSUME Floor, NEW t \in Requests, Ends(t),
           \/ UNCHANGED ing /\ \A m \in Machines : ing[m].at # t
           \/ \E m \in Machines, rec \in Local :
                 /\ ing[m].at = t /\ rec.at = Nobody /\ Busy(rec)
                 /\ ing' = [ing EXCEPT ![m] = rec]
    PROVE  Floor'
<1>1. Becomes(t, Free) BY DEF Ends
<1>2. \A n \in Machines : Busy(ing[n]) BY DEF Floor, Waiting
<1>3. ASSUME UNCHANGED ing, \A m \in Machines : ing[m].at # t PROVE Floor'
  <2>1. ing' \in [Machines -> Local] BY <1>3 DEF Floor
  <2> QED BY <1>1, <1>2, <1>3, <2>1, FloorKept, FreeIsAsked
<1>4. ASSUME NEW m \in Machines, NEW rec \in Local, ing[m].at = t, rec.at = Nobody, Busy(rec),
             ing' = [ing EXCEPT ![m] = rec]
      PROVE  Floor'
  <2>1. /\ ing' \in [Machines -> Local] /\ ing'[m] = rec
        /\ \A n \in Machines : n # m => ing'[n] = ing[n]
    BY <1>4 DEF Floor
  <2>2. \A n \in Machines : n # m => ing[n].at # t BY <1>4, OneWaits
  <2> QED BY <1>1, <1>2, <1>4, <2>1, <2>2, FloorKept, FreeIsAsked
<1> QED BY <1>3, <1>4

-----------------------------------------------------------------------------
(* The calls of a machine *)

Args(op) == CASE op = "status" -> {"describing", "uploading", "failed"}
              [] op \in {"result", "uploaded"} -> BOOLEAN
              [] OTHER -> {"done", "failed", "cancelled"}

\* What m may call, and how it is left if it calls about clip i.
Callable(m, rec, op, i, arg) ==
    /\ op \in {"status", "result", "uploaded", "release"} /\ arg \in Args(op)
    /\ op = "release" => arg # "cancelled"
    /\ op # "release" => i \in Items /\ rec.doing = i
    /\ rec \in Local /\ Busy(rec) /\ m \in Machines

LEMMA RequestIs ==
    ASSUME Ind, NEW m, NEW rec, NEW op, NEW i, NEW arg, Callable(m, rec, op, i, arg)
    PROVE  /\ Asked(Request(op, m, i, arg, rec))
           /\ Awaits(rec, m, Request(op, m, i, arg, rec))
           /\ Request(op, m, i, arg, rec).op = op
           /\ Request(op, m, i, arg, rec).who = m
           /\ op # "release" => /\ Request(op, m, i, arg, rec) \in ItemAsks
                                /\ Request(op, m, i, arg, rec).i = i
                                /\ Request(op, m, i, arg, rec).row = item[i].row
<1> DEFINE r == Request(op, m, i, arg, rec)
<1>1. CASE op = "release"
  <2>1. r = [op |-> op, who |-> m, arg |-> arg] BY <1>1 DEF Request
  <2>2. arg \in {"done", "failed", "cancelled"} /\ arg # "cancelled" /\ m \in Machines
    BY <1>1 DEF Callable, Args
  <2> HIDE DEF r
  <2>3. Asked(r) /\ Awaits(rec, m, r) /\ r.op = op /\ r.who = m
    BY <1>1, <2>1, <2>2 DEF Asked, Awaits, Ops, ItemOps
  <2> QED BY <1>1, <2>3 DEF r
<1>2. CASE op # "release"
  <2>1. r = [op |-> op, who |-> m, i |-> i, arg |-> arg, was |-> item[i].state,
             row |-> item[i].row, fresh |-> batch.state = "claimed", tries |-> rec.tries[i]]
    BY <1>2 DEF Request
  <2>2. i \in Items /\ m \in Machines /\ rec.doing = i /\ rec \in Local BY <1>2 DEF Callable
  <2>3. item[i] \in ItemRows BY <2>2 DEF Ind, Books
  <2>4. item[i].state \in ItemStates /\ item[i].row \in Slots \cup {Nobody} /\ rec.tries[i] \in Nat
    BY <2>2, <2>3 DEF ItemRows, Local
  <2>5. \/ op = "status" /\ arg \in {"describing", "uploading", "failed"}
        \/ op \in {"result", "uploaded"} /\ arg \in BOOLEAN
    BY <1>2 DEF Callable, Args
  <2>6. r \in ItemAsks BY <2>1, <2>2, <2>4, <2>5 DEF ItemAsks, Ask
  <2>7. r.op = op /\ r.who = m /\ r.i = i /\ r.row = item[i].row BY <2>1
  <2> HIDE DEF r
  <2>8. Asked(r) BY <2>2, <2>5, <2>6, <2>7 DEF Asked, Ops, ItemOps
  <2>9. Awaits(rec, m, r) BY <2>2, <2>5, <2>6, <2>7 DEF Awaits, ItemOps
  <2> QED BY <2>6, <2>7, <2>8, <2>9 DEF r
<1> QED BY <1>1, <1>2

LEMMA UnsaidIs ==
    ASSUME hist \in Ghosts, NEW r, r.op \in ItemOps => r.i \in Items
    PROVE  /\ Unsaid(r) \in Ghosts /\ Unsaid(r).late = hist.late
           /\ Unsaid(r).twice = hist.twice /\ Unsaid(r).again = hist.again
           /\ hist.apart \subseteq Unsaid(r).apart
<1>1. CASE Unsaid(r) = hist BY <1>1
<1>2. CASE Unsaid(r) # hist
  <2>1. r.i \in Items /\ Unsaid(r) = [hist EXCEPT !.apart = @ \cup {r.i}]
    BY <1>2 DEF Unsaid, ItemOps
  <2>2. hist.apart \cup {r.i} \in SUBSET Items BY <2>1 DEF Ghosts
  <2> QED BY <2>1, <2>2 DEF Ghosts
<1> QED BY <1>1, <1>2

\* A bound spent.
LEMMA Spending ==
    ASSUME left \in Bounds, NEW what \in {"runs", "clicks", "mishaps", "restarts"}, Spend(what)
    PROVE  left' \in Bounds
BY IngestAssumption DEF Bounds, Spend

\* A call changes the machine, and posts one request at most, from a machine that
\* holds the batch.
LEMMA CallIs ==
    ASSUME Ind, NEW m, NEW rec, NEW op, NEW i, NEW arg, Callable(m, rec, op, i, arg),
           Call(m, rec, op, i, arg)
    PROVE  Ind'
<1> DEFINE r == Request(op, m, i, arg, rec)
<1>0. rec \in Local /\ Busy(rec) /\ m \in Machines BY DEF Callable
<1>1. Floor /\ Asked(r) /\ Awaits(rec, m, r) BY RequestIs DEF Ind
<1>2. UNCHANGED <<batch, item, rows, nas>> BY DEF Call, ledger
<1>3. Books' BY <1>2 DEF Ind, Books, Owned
<1>4. r.op \in ItemOps => r \in ItemAsks /\ rec.doing = r.i /\ r.i \in Items
  BY RequestIs DEF Callable, ItemOps
<1>5. ASSUME NEW t \in Requests, req[t] = Free, Becomes(t, r),
             ing' = [ing EXCEPT ![m] = [rec EXCEPT !.at = t]]
      PROVE  Floor'
  <2>1. /\ [rec EXCEPT !.at = t] \in Local /\ Busy([rec EXCEPT !.at = t])
        /\ [rec EXCEPT !.at = t].at = t /\ Awaits([rec EXCEPT !.at = t], m, r)
    BY <1>0, <1>1 DEF Local, Busy, Awaits
  <2> HIDE DEF r
  <2> QED BY <1>0, <1>1, <1>5, <2>1, Posted
<1>6. ASSUME UNCHANGED <<req, hist, left>>, ing' = [ing EXCEPT ![m] = Forgot(m)]
      PROVE  Floor'
  <2>1. ing[m] \in Local BY <1>0 DEF Ind, Floor
  <2> QED BY <1>0, <1>1, <1>6, <2>1, ForgotIs, FloorMoves DEF Busy
<1>7. ASSUME UNCHANGED req, NEW next \in After(m, rec, r, "lost"), ing' = [ing EXCEPT ![m] = next]
      PROVE  Floor'
  <2>1. r.op \in {"claim", "release"} \cup ItemOps BY <1>1 DEF Awaits
  <2> HIDE DEF r
  <2>2. next \in Local /\ next.at = Nobody /\ Busy(next) BY <1>0, <1>4, <1>7, <2>1, AfterIs
  <2> QED BY <1>0, <1>1, <1>7, <2>2, FloorMoves
<1>8. Floor' BY <1>5, <1>6, <1>7 DEF Call
<1>9. hist' \in Ghosts /\ left' \in Bounds
  <2>1. hist \in Ghosts /\ left \in Bounds BY DEF Ind, Rest
  <2>2. CASE UNCHANGED <<hist, left>> BY <2>1, <2>2
  <2>3. CASE Spend("mishaps") /\ hist' = Unsaid(r) BY <1>4, <2>1, <2>3, Spending, UnsaidIs
  <2> QED BY <2>2, <2>3 DEF Call
<1> QED BY <1>2, <1>3, <1>8, <1>9 DEF Ind, Rest

\* A request that is being served is one that was, or a call of a holder's.
Carried == \A t \in Requests : req'[t].op \in ItemOps =>
    \/ /\ req[t].op \in ItemOps /\ req'[t].who = req[t].who /\ req'[t].i = req[t].i
       /\ req'[t].row = req[t].row
       /\ req'[t].op = "publish" => req[t].op = "publish" \/ req[t].row # Nobody
    \/ /\ req'[t].op # "publish" /\ Holds(req'[t].who) /\ req'[t].i \in Items
       /\ req'[t].row = item[req'[t].i].row

LEMMA BecomesNoCall ==
    ASSUME Floor, NEW t \in Requests, NEW r, Becomes(t, r), r.op \notin ItemOps
    PROVE  Carried
<1>1. req'[t] = r /\ \A u \in Requests : u # t => req'[u] = req[u]
  BY DEF Floor, AllAsked, Becomes
<1> QED BY <1>1 DEF Carried

LEMMA EndsNoCall == ASSUME Floor, NEW t \in Requests, Ends(t) PROVE Carried
BY BecomesNoCall DEF Ends, Free, ItemOps

LEMMA CallCarries ==
    ASSUME Ind, NEW m, NEW rec, NEW op, NEW i, NEW arg, Callable(m, rec, op, i, arg),
           Call(m, rec, op, i, arg)
    PROVE  Carried
<1> DEFINE r == Request(op, m, i, arg, rec)
<1>1. CASE UNCHANGED req BY <1>1 DEF Carried
<1>2. ASSUME NEW t \in Requests, Becomes(t, r), Holds(m) PROVE Carried
  <2>1. /\ r.op = op /\ r.who = m
        /\ op # "release" => r.i = i /\ r.row = item[i].row /\ i \in Items
        /\ op \in {"status", "result", "uploaded", "release"}
    BY RequestIs DEF Callable
  <2> HIDE DEF r
  <2>2. req'[t] = r /\ \A u \in Requests : u # t => req'[u] = req[u]
    BY <1>2 DEF Ind, Floor, AllAsked, Becomes
  <2> QED BY <1>2, <2>1, <2>2 DEF Carried, ItemOps
<1> QED BY <1>1, <1>2 DEF Call

\* A step that leaves the ledger alone, and posts no call but a holder's.
Quiet == /\ UNCHANGED ledger /\ hist'.late = hist.late /\ hist'.again = hist.again
         /\ hist'.twice = hist.twice
Quietly == Ind' /\ Carried /\ Quiet

LEMMA CallQuietly ==
    ASSUME Ind, NEW m, NEW rec, NEW op, NEW i, NEW arg, Callable(m, rec, op, i, arg),
           Call(m, rec, op, i, arg)
    PROVE  Quietly
<1> DEFINE r == Request(op, m, i, arg, rec)
<1>1. Ind' /\ Carried BY CallIs, CallCarries
<1>2. r.op \in ItemOps => r.i \in Items BY RequestIs DEF Callable, ItemOps
<1>3. UNCHANGED hist \/ hist' = Unsaid(r) BY DEF Call
<1> HIDE DEF r
<1>4. hist'.late = hist.late /\ hist'.again = hist.again /\ hist'.twice = hist.twice
  BY <1>2, <1>3, UnsaidIs DEF Ind
<1>5. UNCHANGED ledger BY DEF Call
<1> QED BY <1>1, <1>4, <1>5 DEF Quietly, Quiet

-----------------------------------------------------------------------------
(* The worker *)

LEMMA AtEase == ASSUME Ind, NEW m \in Machines PROVE ing[m] \in Local /\ Busy(ing[m]) /\ Floor
BY DEF Ind, Floor, Waiting

\* A machine that only moves on keeps everything else.
LEMMA Moves ==
    ASSUME Ind, NEW m \in Machines, NEW rec \in Local, rec.at = Nobody, Busy(rec),
           ing' = [ing EXCEPT ![m] = rec], UNCHANGED <<ledger, nas, req, hist, left>>
    PROVE  Quietly
<1>1. Floor' BY FloorMoves DEF Ind
<1>2. Books' BY DEF Ind, Books, Owned, ledger
<1>3. Ind' BY <1>1, <1>2 DEF Ind, Rest
<1> QED BY <1>3 DEF Quietly, Quiet, Carried

LEMMA BeginKeeps ==
    ASSUME Ind, NEW m \in Machines, NEW i \in Items, Begin(m, i) PROVE Quietly
<1> DEFINE tries == [ing[m].tries EXCEPT ![i] = @ + 1]
           rec == [ing[m] EXCEPT !.doing = i, !.tries = tries]
           stage == [ing[m].stage EXCEPT ![i] = "describing"]
<1>1. ing[m] \in Local BY AtEase
<1>2. tries \in [Items -> Nat] /\ stage \in [Items -> ItemStates] BY <1>1, StatesAre DEF Local
<1>3. [ing[m] EXCEPT !.doing = i, !.tries[i] = @ + 1] = rec BY <1>1 DEF Local
<1>4. [[ing[m] EXCEPT !.doing = i, !.tries[i] = @ + 1] EXCEPT !.stage[i] = "describing"]
        = [rec EXCEPT !.stage = stage]
  BY <1>1 DEF Local
<1>5. \/ Call(m, [rec EXCEPT !.stage = stage], "status", i, "describing")
      \/ /\ ing' = [ing EXCEPT ![m] = [rec EXCEPT !.step = IF i \in ing[m].told THEN "hand" ELSE "fail"]]
         /\ ing[m].at = Nobody /\ UNCHANGED <<ledger, nas, req, hist, left>>
  BY <1>3, <1>4 DEF Begin
<1> HIDE DEF tries, stage
<1>6. [rec EXCEPT !.stage = stage] \in Local /\ [rec EXCEPT !.stage = stage].doing = i
  BY <1>1, <1>2 DEF Local
<1>7. ASSUME Call(m, [rec EXCEPT !.stage = stage], "status", i, "describing") PROVE Quietly
  <2>1. Callable(m, [rec EXCEPT !.stage = stage], "status", i, "describing")
    BY <1>6 DEF Callable, Args, Busy
  <2> HIDE DEF rec
  <2> QED BY <1>7, <2>1, CallQuietly
<1>8. ASSUME NEW step \in {"hand", "fail"}, ing' = [ing EXCEPT ![m] = [rec EXCEPT !.step = step]],
             ing[m].at = Nobody, UNCHANGED <<ledger, nas, req, hist, left>>
      PROVE  Quietly
  <2>1. /\ [rec EXCEPT !.step = step] \in Local /\ [rec EXCEPT !.step = step].at = Nobody
        /\ [rec EXCEPT !.step = step].doing = i
    BY <1>1, <1>2, <1>8 DEF Local
  <2> HIDE DEF rec
  <2> QED BY <1>8, <2>1, Moves DEF Busy
<1> QED BY <1>5, <1>7, <1>8

LEMMA DescribeKeeps == ASSUME Ind, NEW m \in Machines, Describe(m) PROVE Quietly
<1> DEFINE told == ing[m].told \cup {ing[m].doing}
<1>1. ing[m] \in Local /\ ing[m].doing \in Items /\ ing[m].at = Nobody
  BY AtEase DEF Describe, Busy
<1>2. told \in SUBSET Items BY <1>1 DEF Local
<1>3. \/ Call(m, [ing[m] EXCEPT !.told = told], "result", ing[m].doing, TRUE)
      \/ /\ ing' = [ing EXCEPT ![m] = [ing[m] EXCEPT !.step = "fail"]]
         /\ UNCHANGED <<ledger, nas, req, hist, left>>
  <2>1. ing' = [ing EXCEPT ![m].step = "fail"] => ing' = [ing EXCEPT ![m] = [ing[m] EXCEPT !.step = "fail"]]
    BY DEF Ind, Floor
  <2>2. [ing[m] EXCEPT !.told = @ \cup {ing[m].doing}] = [ing[m] EXCEPT !.told = told]
    BY <1>1 DEF Local
  <2> QED BY <2>1, <2>2 DEF Describe
<1> HIDE DEF told
<1>4. [ing[m] EXCEPT !.told = told] \in Local /\ [ing[m] EXCEPT !.told = told].doing = ing[m].doing
  BY <1>1, <1>2 DEF Local
<1>5. Callable(m, [ing[m] EXCEPT !.told = told], "result", ing[m].doing, TRUE)
  BY <1>1, <1>4 DEF Callable, Args, Busy
<1>6. /\ [ing[m] EXCEPT !.step = "fail"] \in Local /\ [ing[m] EXCEPT !.step = "fail"].at = Nobody
      /\ [ing[m] EXCEPT !.step = "fail"].doing \in Items
  BY <1>1 DEF Local
<1> QED BY <1>3, <1>5, <1>6, CallQuietly, Moves DEF Busy

LEMMA HandKeeps == ASSUME Ind, NEW m \in Machines, Hand(m) PROVE Quietly
<1> DEFINE i == ing[m].doing
           stage == [ing[m].stage EXCEPT ![i] = "uploading"]
           up == ing[m].up \cup {i}
           rec == [ing[m] EXCEPT !.stage = stage, !.up = up, !.queue = TRUE]
<1>1. ing[m] \in Local /\ i \in Items BY AtEase DEF Hand, Busy
<1>2. stage \in [Items -> ItemStates] /\ up \in SUBSET Items BY <1>1, StatesAre DEF Local
<1>3. [ing[m] EXCEPT !.stage[i] = "uploading", !.up = @ \cup {i}, !.queue = TRUE] = rec
  BY <1>1 DEF Local
<1>4. Call(m, rec, "status", i, "uploading") BY <1>3 DEF Hand
<1> HIDE DEF stage, up
<1>5. rec \in Local /\ rec.doing = i BY <1>1, <1>2 DEF Local
<1> HIDE DEF rec, i
<1>6. Callable(m, rec, "status", i, "uploading") BY <1>1, <1>5 DEF Callable, Args, Busy
<1> QED BY <1>4, <1>6, CallQuietly

LEMMA GiveUpKeeps == ASSUME Ind, NEW m \in Machines, GiveUp(m) PROVE Quietly
<1> DEFINE i == ing[m].doing
           stage(s) == [ing[m].stage EXCEPT ![i] = s]
<1>1. ing[m] \in Local /\ i \in Items BY AtEase DEF GiveUp, Busy
<1>2. stage("live") \in [Items -> ItemStates] /\ stage("failed") \in [Items -> ItemStates]
  BY <1>1, StatesAre DEF Local
<1>3. \/ /\ ing' = [ing EXCEPT ![m] = [ing[m] EXCEPT !.at = Nobody, !.doing = Nobody,
                                                  !.step = "idle", !.stage = stage("live")]]
         /\ UNCHANGED <<ledger, nas, req, hist, left>>
      \/ Call(m, [ing[m] EXCEPT !.stage = stage("failed")], "status", i, "failed")
  <2>1. [ing[m] EXCEPT !.stage[i] = "failed"] = [ing[m] EXCEPT !.stage = stage("failed")]
    BY <1>1 DEF Local
  <2>2. [Done(ing[m]) EXCEPT !.stage[i] = "live"]
          = [ing[m] EXCEPT !.at = Nobody, !.doing = Nobody, !.step = "idle", !.stage = stage("live")]
    BY <1>1 DEF Done, Local
  <2> QED BY <2>1, <2>2 DEF GiveUp
<1> HIDE DEF stage
<1>4. ASSUME NEW rec, UNCHANGED <<ledger, nas, req, hist, left>>, ing' = [ing EXCEPT ![m] = rec],
             rec = [ing[m] EXCEPT !.at = Nobody, !.doing = Nobody,
                                  !.step = "idle", !.stage = stage("live")]
      PROVE  Quietly
  <2>1. rec \in Local /\ rec.at = Nobody /\ rec.step = "idle" BY <1>1, <1>2, <1>4 DEF Local
  <2> QED BY <1>4, <2>1, Moves DEF Busy
<1>5. /\ [ing[m] EXCEPT !.stage = stage("failed")] \in Local
      /\ [ing[m] EXCEPT !.stage = stage("failed")].doing = i
  BY <1>1, <1>2 DEF Local
<1>6. Callable(m, [ing[m] EXCEPT !.stage = stage("failed")], "status", i, "failed")
  BY <1>1, <1>5 DEF Callable, Args, Busy
<1> HIDE DEF i
<1> QED BY <1>3, <1>4, <1>6, CallQuietly

LEMMA PumpKeeps ==
    ASSUME Ind, NEW m \in Machines, NEW i \in Items, Pump(m, i) PROVE Quietly
<1> DEFINE rec == [ing[m] EXCEPT !.doing = i]
<1>1. ing[m] \in Local /\ ing[m].at = Nobody BY AtEase DEF Pump
<1>2. \/ \E b \in BOOLEAN : Call(m, rec, "uploaded", i, b)
      \/ /\ ing' = [ing EXCEPT ![m] = [rec EXCEPT !.step = "fail"]]
         /\ UNCHANGED <<ledger, nas, req, hist, left>>
  BY Zenon DEF Pump
<1>3. rec \in Local /\ rec.doing = i BY <1>1 DEF Local
<1>4. /\ [rec EXCEPT !.step = "fail"] \in Local /\ [rec EXCEPT !.step = "fail"].at = Nobody
      /\ [rec EXCEPT !.step = "fail"].doing = i
  BY <1>1 DEF Local
<1> HIDE DEF rec
<1>5. \A b \in BOOLEAN : Callable(m, rec, "uploaded", i, b) BY <1>3 DEF Callable, Args, Busy
<1>6. ASSUME NEW b \in BOOLEAN, Call(m, rec, "uploaded", i, b) PROVE Quietly
  BY <1>5, <1>6, CallQuietly
<1> QED BY <1>2, <1>4, <1>6, Moves DEF Busy

LEMMA MaybeFinishKeeps == ASSUME Ind, NEW m \in Machines, MaybeFinish(m) PROVE Quietly
<1> DEFINE i == CHOOSE i \in Items : TRUE
           arg == IF \A k \in Items : ing[m].stage[k] = "failed" THEN "failed" ELSE "done"
<1>1. Call(m, ing[m], "release", i, arg) BY DEF MaybeFinish
<1>2. arg \in {"done", "failed"} OBVIOUS
<1> HIDE DEF i, arg
<1>3. Callable(m, ing[m], "release", i, arg) BY <1>2, AtEase DEF Callable, Args
<1> QED BY <1>1, <1>3, CallQuietly

LEMMA PutDownKeeps == ASSUME Ind, NEW m \in Machines, PutDown(m) PROVE Quietly
<1> DEFINE rec == Done(ing[m])
<1>1. UNCHANGED <<ledger, nas, req, hist>> /\ ing' = [ing EXCEPT ![m] = rec] BY DEF PutDown
<1>2. UNCHANGED <<batch, item, rows>> BY <1>1 DEF ledger
<1>3. left' \in Bounds BY Spending DEF Ind, Rest, PutDown
<1>4. rec \in Local /\ rec.at = Nobody /\ rec.step = "idle" BY AtEase, DoneIs
<1> HIDE DEF rec
<1>5. Floor' BY <1>1, <1>4, FloorMoves DEF Ind, Busy
<1>6. Ind' BY <1>1, <1>2, <1>3, <1>5 DEF Ind, Books, Owned, Rest
<1> QED BY <1>1, <1>6 DEF Quietly, Quiet, Carried

LEMMA WorksKeeps == ASSUME Ind, NEW m \in Machines, Works(m) PROVE Quietly
BY BeginKeeps, PumpKeeps, DescribeKeeps, PutDownKeeps, HandKeeps, GiveUpKeeps, MaybeFinishKeeps
DEF Works, Crunches, Pumps

-----------------------------------------------------------------------------
(* The machine's other steps *)

LEMMA GivesUpWaitingKeeps == ASSUME Ind, NEW m \in Machines, GivesUpWaiting(m) PROVE Ind'
<1> DEFINE r == req[ing[m].at]
<1>1. ing[m] \in Local /\ ing[m].at \in Requests /\ Awaits(ing[m], m, r)
  <2>1. ing[m] \in Local /\ ing[m].at # Nobody BY AtEase DEF GivesUpWaiting
  <2> QED BY <2>1 DEF Ind, Floor, Waiting, Local
<1>2. /\ r.op \in {"claim", "release"} \cup ItemOps
      /\ r.op \in ItemOps => r \in ItemAsks /\ ing[m].doing = r.i /\ r.i \in Items
  BY <1>1 DEF Awaits, Ind, Floor, AllAsked, Asked, ItemAsks, Ask
<1>3. PICK rec \in After(m, ing[m], r, "lost") : ing' = [ing EXCEPT ![m] = rec]
  BY DEF GivesUpWaiting
<1> HIDE DEF r
<1>4. rec \in Local /\ rec.at = Nobody /\ Busy(rec) BY <1>1, <1>2, AfterIs
<1>5. /\ UNCHANGED <<batch, item, rows, nas, req>> /\ Spend("mishaps") /\ hist' = Unsaid(r)
  BY DEF GivesUpWaiting, ledger, r
<1>6. Floor' BY <1>3, <1>4, <1>5, FloorMoves DEF Ind
<1>7. hist' \in Ghosts /\ left' \in Bounds BY <1>2, <1>5, UnsaidIs, Spending DEF Ind, Rest
<1> QED BY <1>5, <1>6, <1>7 DEF Ind, Books, Owned, Rest

LEMMA BeatKeeps == ASSUME Ind, NEW m \in Machines, Beat(m) PROVE Ind'
<1>1. UNCHANGED <<batch, item, rows, nas, hist, left>> BY DEF Beat, ledger
<1>2. ASSUME NEW t \in Requests, Becomes(t, [op |-> "beat", who |-> m]), req[t] = Free, UNCHANGED ing
      PROVE  Floor'
  <2>1. Asked([op |-> "beat", who |-> m]) BY DEF Asked, Ops, ItemOps
  <2>2. \A n \in Machines : ing[n].at # t BY <1>2, OneWaits DEF Ind
  <2> QED BY <1>2, <2>1, <2>2, Unawaited DEF Ind
<1>3. ASSUME ing' = [ing EXCEPT ![m] = Forgot(m)], UNCHANGED req PROVE Floor'
  BY <1>3, AtEase, ForgotIs, FloorMoves DEF Busy
<1>4. Floor' BY <1>2, <1>3 DEF Beat
<1> QED BY <1>1, <1>4 DEF Ind, Books, Owned, Rest

LEMMA StopHereKeeps == ASSUME Ind, NEW m \in Machines, StopHere(m) PROVE Ind'
<1> DEFINE r == [op |-> "release", who |-> m, arg |-> "cancelled"]
<1>1. UNCHANGED <<batch, item, rows, nas, hist>> BY DEF StopHere, ledger
<1>2. left' \in Bounds BY Spending DEF Ind, Rest, StopHere, Dashboard
<1>3. Asked(r) BY DEF Asked, Ops, ItemOps
<1>4. Forgot(m) \in Local /\ Forgot(m).at = Nobody /\ Busy(Forgot(m)) /\ Floor
  BY AtEase, ForgotIs DEF Busy
<1>5. /\ ing' = [ing EXCEPT ![m] = Forgot(m)]
      /\ UNCHANGED req \/ \E t \in Requests : req[t] = Free /\ Becomes(t, r)
  BY DEF StopHere
<1> HIDE DEF r
<1>6. Floor' BY <1>3, <1>4, <1>5, FloorMoves, Posted
<1> QED BY <1>1, <1>2, <1>6 DEF Ind, Books, Owned, Rest

LEMMA RestartKeeps == ASSUME Ind, NEW m \in Machines, Restart(m) PROVE Ind'
<1> DEFINE rec == [Done(ing[m]) EXCEPT !.unclaimed = TRUE, !.up = {}, !.queue = FALSE]
<1>1. UNCHANGED <<batch, item, rows, nas, req, hist>> /\ ing' = [ing EXCEPT ![m] = rec]
  BY DEF Restart, ledger
<1>2. left' \in Bounds BY Spending DEF Ind, Rest, Restart
<1>3. rec \in Local /\ rec.at = Nobody /\ rec.step = "idle"
  <2>1. Done(ing[m]) \in Local /\ Done(ing[m]).at = Nobody /\ Done(ing[m]).step = "idle"
    BY AtEase, DoneIs
  <2> HIDE DEF Done
  <2> QED BY <2>1 DEF Local
<1> HIDE DEF rec
<1>4. Floor' BY <1>1, <1>3, FloorMoves DEF Ind, Busy
<1> QED BY <1>1, <1>2, <1>4 DEF Ind, Books, Owned, Rest

LEMMA LookIs ==
    ASSUME NEW op \in {"list", "cancel", "claim"}, NEW who, op = "claim" => who \in Machines
    PROVE  Asked(Look(op, who)) /\ Look(op, who).op = op /\ Look(op, who).who = who
BY DEF Look, Asked, Ops, ItemOps, Stale

LEMMA ClaimsKeeps == ASSUME Ind, NEW m \in Machines, Claims(m) PROVE Ind'
<1>1. UNCHANGED <<batch, item, rows, nas, hist>> BY DEF Claims, ledger
<1>2. left' \in Bounds BY Spending DEF Ind, Rest, Claims
<1>3. PICK t \in Requests : /\ req[t] = Free /\ Becomes(t, Look("claim", m))
                            /\ ing' = [ing EXCEPT ![m].at = t]
  BY DEF Claims
<1>4. ing[m] \in Local /\ Busy(ing[m]) /\ Floor BY AtEase
<1> DEFINE rec == [ing[m] EXCEPT !.at = t]
<1>5. ing' = [ing EXCEPT ![m] = rec] BY <1>3, <1>4 DEF Floor
<1>6. rec \in Local /\ rec.at = t /\ rec.doing = ing[m].doing /\ rec.step = ing[m].step
  BY <1>4 DEF Local
<1> HIDE DEF rec
<1> DEFINE r == Look("claim", m)
<1>7. Asked(r) /\ Awaits(rec, m, r) BY LookIs DEF Awaits, ItemOps
<1>8. Busy(rec) BY <1>4, <1>6 DEF Busy
<1>9. req[t] = Free /\ Becomes(t, r) BY <1>3
<1> HIDE DEF r
<1>10. Floor' BY <1>4, <1>5, <1>6, <1>7, <1>8, <1>9, Posted
<1> QED BY <1>1, <1>2, <1>10 DEF Ind, Books, Owned, Rest

LEMMA LandKeeps ==
    ASSUME Ind, NEW m \in Machines, NEW i \in Items, Land(m, i) PROVE Ind'
<1>1. UNCHANGED <<batch, item, rows, hist, left>> /\ UNCHANGED <<req, ing>> BY DEF Land, ledger
<1>2. nas' \in [Slots -> {"nothing", "proxies", "all"}] BY DEF Land, Ind, Rest
<1>3. Floor' BY <1>1, FloorStays DEF Ind
<1> QED BY <1>1, <1>2, <1>3 DEF Ind, Books, Owned, Rest

\* A request of the browser's.
LEMMA LooksKeeps ==
    ASSUME Ind, NEW t \in Requests, NEW r, Asked(r), req[t] = Free, Becomes(t, r),
           UNCHANGED <<ledger, nas, ing, hist>>, left' \in Bounds
    PROVE  Ind'
<1>1. \A n \in Machines : ing[n].at # t BY OneWaits DEF Ind
<1>2. Floor' BY <1>1, Unawaited DEF Ind
<1> QED BY <1>2 DEF Ind, Books, Owned, Rest, ledger

LEMMA BrowserKeeps == Ind /\ (List \/ Cancel \/ Retry \/ Lapse) => Ind'
<1>1. ASSUME Ind, List PROVE Ind'
  <2>1. left' \in Bounds BY <1>1 DEF List, Ind, Rest
  <2>2. PICK t \in Requests : req[t] = Free /\ Becomes(t, Look("list", Nobody)) BY <1>1 DEF List
  <2> QED BY <1>1, <2>1, <2>2, LookIs, LooksKeeps DEF List
<1>2. ASSUME Ind, Cancel PROVE Ind'
  <2>1. left' \in Bounds BY <1>2, Spending DEF Cancel, Ind, Rest
  <2>2. PICK t \in Requests : req[t] = Free /\ Becomes(t, Look("cancel", Nobody)) BY <1>2 DEF Cancel
  <2> QED BY <1>2, <2>1, <2>2, LookIs, LooksKeeps DEF Cancel
<1>3. ASSUME Ind, Retry PROVE Ind'
  <2>1. left' \in Bounds BY <1>3, Spending DEF Retry, Ind, Rest
  <2>2. PICK t \in Requests : req[t] = Free /\ Becomes(t, [op |-> "retry", who |-> Nobody])
    BY <1>3 DEF Retry
  <2>3. Asked([op |-> "retry", who |-> Nobody]) BY DEF Asked, Ops, ItemOps
  <2> QED BY <1>3, <2>1, <2>2, <2>3, LooksKeeps DEF Retry
<1>4. ASSUME Ind, Lapse PROVE Ind'
  <2>1. left' \in Bounds BY <1>4, Spending DEF Lapse, Ind, Rest
  <2>2. batch' \in Batches BY <1>4 DEF Lapse, Ind, Books, Batches
  <2>3. Floor' BY <1>4, FloorStays DEF Lapse, Ind
  <2> QED BY <1>4, <2>1, <2>2, <2>3 DEF Lapse, Ind, Books, Owned, Rest
<1> QED BY <1>1, <1>2, <1>3, <1>4

-----------------------------------------------------------------------------
(* The ledger's transactions *)

\* Rows that go take the references to them along.
LEMMA FinishIs ==
    ASSUME Books, NEW state \in {"done", "failed", "cancelled"}, Finish(state)
    PROVE  Books'
<1>1. Verdict(state) \in BatchStates BY StatesAre DEF Verdict
<1>2. batch' \in Batches BY <1>1 DEF Finish, Books, Batches
<1>3. CASE state # "cancelled"
  <2>1. UNCHANGED <<item, rows>> BY <1>3 DEF Finish, Dropped
  <2> QED BY <1>2, <2>1 DEF Books, Owned
<1>4. CASE state = "cancelled"
  <2> DEFINE gone == {item[i].row : i \in Items} \cap HalfMade
  <2>1. /\ rows' = [s \in Slots |-> IF s \in gone THEN NoRow ELSE rows[s]]
        /\ item' = [i \in Items |->
             [item[i] EXCEPT !.row = IF @ \in gone THEN Nobody ELSE @,
                             !.state = IF @ \in CancelKeeps THEN @ ELSE "cancelled"]]
    BY <1>4 DEF Finish, Dropped
  <2> HIDE DEF gone
  <2>2. rows' \in [Slots -> Videos] BY <2>1 DEF Books, Videos, NoRow
  <2>3. ASSUME NEW i \in Items
        PROVE  /\ item'[i] \in ItemRows
               /\ item'[i].row # Nobody => item'[i].row = item[i].row /\ item[i].row \notin gone
    <3> DEFINE row == IF item[i].row \in gone THEN Nobody ELSE item[i].row
               st == IF item[i].state \in CancelKeeps THEN item[i].state ELSE "cancelled"
    <3>1. item[i] \in ItemRows BY DEF Books
    <3>2. item'[i] = [item[i] EXCEPT !.row = row, !.state = st] BY <2>1, <3>1 DEF ItemRows
    <3>3. row \in Slots \cup {Nobody} /\ st \in ItemStates BY <3>1, StatesAre DEF ItemRows
    <3>4. row # Nobody => row = item[i].row /\ item[i].row \notin gone OBVIOUS
    <3> HIDE DEF row, st
    <3>5. item'[i] \in ItemRows /\ item'[i].row = row BY <3>1, <3>2, <3>3 DEF ItemRows
    <3> QED BY <3>4, <3>5
  <2>4. item' \in [Items -> ItemRows]
    <3>1. item' = [i \in Items |-> item'[i]] BY <2>1
    <3> QED BY <2>3, <3>1
  <2>5. ASSUME NEW i \in Items, item'[i].row # Nobody
        PROVE  item'[i].row[1] = i /\ rows'[item'[i].row].status # "absent"
    <3>1. item'[i].row = item[i].row /\ item[i].row \notin gone BY <2>3, <2>5
    <3>2. item[i].row \in Slots /\ item[i].row[1] = i /\ rows[item[i].row].status # "absent"
      BY <2>5, <3>1 DEF Books, ItemRows, Owned
    <3> QED BY <2>1, <3>1, <3>2
  <2> QED BY <1>2, <2>2, <2>4, <2>5 DEF Books, Owned
<1> QED BY <1>3, <1>4

LEMMA SweepIs ==
    ASSUME Books, hist \in Ghosts, NEW r, r.stale \in BOOLEAN, r.stopped \in BOOLEAN, Sweep(r)
    PROVE  /\ Books' /\ hist' \in Ghosts /\ batch'.state \in BatchStates
           /\ hist'.late = hist.late /\ hist'.twice = hist.twice /\ hist'.again = hist.again
           /\ hist'.apart = hist.apart
<1> DEFINE back == r.stale /\ ~r.stopped /\ Stale
           wedged == hist.wedged \/ (back /\ batch.cancel)
<1>1. /\ hist' = [hist EXCEPT !.wedged = wedged]
      /\ IF r.stopped THEN Finish("cancelled")
         ELSE /\ batch' = IF back THEN [batch EXCEPT !.state = "queued", !.lease = "none"] ELSE batch
              /\ UNCHANGED <<item, rows>>
  BY DEF Sweep
<1>2. wedged \in BOOLEAN BY DEF Ghosts, Books, Batches
<1> HIDE DEF wedged
<1>3. /\ hist' \in Ghosts
      /\ hist'.late = hist.late /\ hist'.twice = hist.twice /\ hist'.again = hist.again
      /\ hist'.apart = hist.apart
  BY <1>1, <1>2 DEF Ghosts
<1>4. CASE r.stopped
  <2>1. Books' BY <1>1, <1>4, FinishIs
  <2> QED BY <1>3, <2>1 DEF Books, Batches
<1>5. CASE ~r.stopped
  <2>1. batch' \in Batches BY <1>1, <1>5, StatesAre DEF Books, Batches
  <2>2. UNCHANGED <<item, rows>> BY <1>1, <1>5
  <2> QED BY <1>3, <2>1, <2>2 DEF Books, Owned, Batches
<1> QED BY <1>4, <1>5

\* The rows of two clips are never the same.
LEMMA Apart ==
    ASSUME Books, NEW i \in Items, item[i].row # Nobody
    PROVE  item[i].row \in Slots /\ item[i].row[1] = i /\ rows[item[i].row].status # "absent"
BY DEF Books, Owned, ItemRows

\* A machine that waits is turned away.
LEMMA TurnedIs ==
    ASSUME Floor, NEW t \in Requests, Turned(t), req[t].op = "claim"
    PROVE  Floor'
<1> DEFINE m == req[t].who
<1>1. m \in Machines BY DEF Floor, AllAsked, Asked
<1>2. Ends(t) /\ IF ing[m].at = t THEN Refused(m) ELSE UNCHANGED ing BY DEF Turned
<1>3. \A n \in Machines : ing[n].at = t => n = m BY OneWaits
<1> HIDE DEF m
<1>4. CASE ing[m].at # t BY <1>2, <1>3, <1>4, Served
<1>5. CASE ing[m].at = t
  <2>1. ing[m] \in Local BY <1>1 DEF Floor
  <2>2. CASE ing[m].has
    <3>1. Forgot(m) \in Local /\ Forgot(m).at = Nobody /\ Busy(Forgot(m))
      BY <1>1, <2>1, ForgotIs DEF Busy
    <3> QED BY <1>1, <1>2, <1>5, <2>2, <3>1, Served DEF Refused
  <2>3. CASE ~ing[m].has
    <3> DEFINE rec == [ing[m] EXCEPT !.at = Nobody]
    <3>1. rec \in Local /\ rec.at = Nobody /\ rec.step = ing[m].step /\ rec.doing = ing[m].doing
      BY <2>1 DEF Local
    <3>2. ing' = [ing EXCEPT ![m] = rec] BY <1>1, <1>2, <1>5, <2>3 DEF Refused, Floor
    <3> HIDE DEF rec
    <3>3. Busy(rec) BY <1>1, <3>1 DEF Busy, Floor, Waiting
    <3> QED BY <1>1, <1>2, <1>5, <3>1, <3>2, <3>3, Served
  <2> QED BY <2>2, <2>3
<1> QED BY <1>4, <1>5

\* A request is answered and over.
LEMMA AnsweredIs ==
    ASSUME Ind, NEW t \in Requests, NEW answer \in {"ok", "no"}, Ends(t), Answers(t, answer),
           req[t].op \in ItemOps \cup {"release"}
    PROVE  Floor'
<1> DEFINE r == req[t]
<1>0. Floor BY DEF Ind
<1>1. /\ r.who \in Machines
      /\ r.op \in ItemOps => r \in ItemAsks
  BY DEF Ind, Floor, AllAsked, Asked, ItemAsks, Ask
<1>2. \A n \in Machines : ing[n].at = t => n = r.who BY <1>0, OneWaits
<1>3. CASE ing[r.who].at # t
  <2>1. UNCHANGED ing BY <1>3 DEF Answers
  <2> QED BY <1>0, <1>2, <1>3, <2>1, Served
<1>4. CASE ing[r.who].at = t
  <2>1. PICK rec \in After(r.who, ing[r.who], r, answer) : ing' = [ing EXCEPT ![r.who] = rec]
    BY <1>4 DEF Answers
  <2>2. ing[r.who] \in Local /\ Awaits(ing[r.who], r.who, r) BY <1>0, <1>1, <1>4, OneWaits DEF Floor
  <2>3. r.op \in ItemOps => ing[r.who].doing = r.i BY <2>2 DEF Awaits
  <2> HIDE DEF r
  <2>4. rec \in Local /\ rec.at = Nobody /\ Busy(rec) BY <1>1, <2>1, <2>2, <2>3, AfterIs DEF r
  <2> QED BY <1>0, <1>1, <1>4, <2>1, <2>4, Served
<1> QED BY <1>3, <1>4

-----------------------------------------------------------------------------
(* What the app does with a request *)

LEMMA RequestAsked ==
    ASSUME Ind, NEW t \in Requests PROVE Asked(req[t]) /\ Floor /\ Books /\ hist \in Ghosts
BY DEF Ind, Floor, AllAsked

LEMMA ClaimCheckKeeps == ASSUME Ind, NEW t \in Requests, ClaimCheck(t) PROVE Ind'
<1> DEFINE r == [op |-> "claim", who |-> req[t].who, step |-> "items"]
<1>1. /\ req[t].op = "claim" /\ req[t].step = "sweep" /\ Sweep(req[t]) /\ UNCHANGED <<nas, left>>
      /\ (Becomes(t, r) /\ UNCHANGED ing) \/ Turned(t)
  BY DEF ClaimCheck
<1>2. req[t].stale \in BOOLEAN /\ req[t].stopped \in BOOLEAN /\ req[t].who \in Machines
  BY <1>1, RequestAsked DEF Asked
<1>3. Books' /\ hist' \in Ghosts BY <1>1, <1>2, RequestAsked, SweepIs
<1>4. Floor'
  <2>1. CASE Becomes(t, r) /\ UNCHANGED ing
    <3>1. Asked(r) BY <1>2 DEF Asked, Ops, ItemOps
    <3>2. \A n \in Machines : ing[n].at = t => n = req[t].who BY RequestAsked, OneWaits
    <3>3. \A n \in Machines : ing[n].at = t => Awaits(ing[n], n, r)
      BY <3>2 DEF Awaits, ItemOps
    <3> HIDE DEF r
    <3> QED BY <2>1, <3>1, <3>3, RequestAsked, Unawaited
  <2>2. CASE Turned(t) BY <1>1, <2>2, RequestAsked, TurnedIs
  <2> QED BY <1>1, <2>1, <2>2
<1> QED BY <1>1, <1>3, <1>4 DEF Ind, Rest

\* A claim that goes on to its next look.
LEMMA ClaimGoesOn ==
    ASSUME Ind, NEW t \in Requests, req[t].op = "claim", NEW r, r.op = "claim", r.who = req[t].who,
           Asked(r), Becomes(t, r), UNCHANGED <<ledger, nas, ing, hist, left>>
    PROVE  Ind'
<1>1. \A n \in Machines : ing[n].at = t => Awaits(ing[n], n, r)
  BY RequestAsked, OneWaits DEF Awaits, ItemOps
<1>2. Floor' BY <1>1, RequestAsked, Unawaited
<1> QED BY <1>2 DEF Ind, Books, Owned, Rest, ledger

LEMMA ClaimItemsKeeps == ASSUME Ind, NEW t \in Requests, ClaimItems(t) PROVE Ind'
<1> DEFINE r == [op |-> "claim", who |-> req[t].who, step |-> "names", mint |-> Unminted]
<1>1. req[t].op = "claim" /\ req[t].who \in Machines BY RequestAsked DEF ClaimItems, Asked
<1>2. Unminted \subseteq Items BY DEF Unminted
<1>3. Asked(r) BY <1>1, <1>2 DEF Asked, Ops, ItemOps
<1>4. r.op = "claim" /\ r.who = req[t].who OBVIOUS
<1>5. Becomes(t, r) /\ UNCHANGED <<ledger, nas, ing, hist, left>> BY DEF ClaimItems
<1> HIDE DEF r
<1> QED BY <1>1, <1>3, <1>4, <1>5, ClaimGoesOn

LEMMA ClaimNamesKeeps == ASSUME Ind, NEW t \in Requests, ClaimNames(t) PROVE Ind'
<1> DEFINE r == [op |-> "claim", who |-> req[t].who, step |-> "mint",
                 mint |-> req[t].mint, taken |-> Taken]
<1>1. req[t].op = "claim" /\ req[t].who \in Machines /\ req[t].mint \subseteq Items
  BY RequestAsked DEF ClaimNames, Asked
<1>2. Taken \subseteq Slots BY DEF Taken
<1>3. Asked(r) BY <1>1, <1>2 DEF Asked, Ops, ItemOps
<1>4. r.op = "claim" /\ r.who = req[t].who OBVIOUS
<1>5. Becomes(t, r) /\ UNCHANGED <<ledger, nas, ing, hist, left>> BY DEF ClaimNames
<1> HIDE DEF r
<1> QED BY <1>1, <1>3, <1>4, <1>5, ClaimGoesOn

\* The names a claim mints are rows of their own that nobody had.
LEMMA MintIs ==
    ASSUME NEW S \in SUBSET Items, NEW taken \in SUBSET Slots,
           \A i \in S : \E k \in Suffixes : <<i, k>> \notin taken
    PROVE  /\ Minted(S, taken) \subseteq Slots /\ Minted(S, taken) \cap taken = {}
           /\ \A i \in S : Named(i, taken) \in Minted(S, taken) /\ Named(i, taken)[1] = i
           /\ \A s \in Minted(S, taken) : s[1] \in S /\ s = Named(s[1], taken)
<1>1. \A i \in S : /\ Named(i, taken) \in Slots /\ Named(i, taken)[1] = i
                   /\ Named(i, taken) \notin taken
  BY NamedIs
<1> QED BY <1>1 DEF Minted

\* The machine with its manifest, or with its lease again.
LEMMA TakesIs ==
    ASSUME NEW m \in Machines, ing[m] \in Local, Busy(ing[m]), item' \in [Items -> ItemRows]
    PROVE  /\ Takes(m, ing[m]) \in Local /\ Takes(m, ing[m]).at = Nobody /\ Busy(Takes(m, ing[m]))
<1>1. CASE ing[m].has
  <2> DEFINE up == {i \in Items : ing[m].stage[i] = "uploading"}
             queue == up # {}
             rec == [ing[m] EXCEPT !.unclaimed = FALSE, !.at = Nobody, !.up = up, !.queue = queue]
  <2>1. Takes(m, ing[m]) = rec BY <1>1 DEF Takes
  <2>2. up \in SUBSET Items /\ queue \in BOOLEAN OBVIOUS
  <2> HIDE DEF up, queue
  <2>3. rec \in Local /\ rec.at = Nobody /\ rec.doing = ing[m].doing /\ rec.step = ing[m].step
    BY <2>2 DEF Local
  <2> QED BY <2>1, <2>3 DEF Busy
<1>2. CASE ~ing[m].has
  <2> DEFINE stage == [i \in Items |-> item'[i].state]
             tries == [i \in Items |-> item'[i].tries]
             row == [i \in Items |-> item'[i].row]
             rec == [Forgot(m) EXCEPT !.has = TRUE, !.stage = stage, !.tries = tries, !.row = row]
  <2>1. Takes(m, ing[m]) = rec BY <1>2 DEF Takes, Manifest
  <2>2. \A i \in Items : item'[i] \in ItemRows OBVIOUS
  <2>3. /\ stage \in [Items -> ItemStates] /\ tries \in [Items -> Nat]
        /\ row \in [Items -> Slots \cup {Nobody}]
    BY <2>2 DEF ItemRows
  <2>4. Forgot(m) \in Local /\ Forgot(m).at = Nobody /\ Forgot(m).step = "idle" BY ForgotIs
  <2> HIDE DEF stage, tries, row, Forgot
  <2>5. rec \in Local /\ rec.at = Nobody /\ rec.step = "idle" BY <2>3, <2>4 DEF Local
  <2> QED BY <2>1, <2>5 DEF Busy
<1> QED BY <1>1, <1>2

\* What a claim that goes through does to the ledger.
LEMMA MintsIs ==
    ASSUME Books, NEW S \in SUBSET Items, NEW taken \in SUBSET Slots,
           \A i \in S : \E k \in Suffixes : <<i, k>> \notin taken,
           rows' = [s \in Slots |-> IF s \in Minted(S, taken) THEN [NoRow EXCEPT !.status = "ingesting"]
                                    ELSE rows[s]],
           item' = [i \in Items |-> IF i \in S THEN [item[i] EXCEPT !.row = Named(i, taken)]
                                    ELSE item[i]]
    PROVE  /\ rows' \in [Slots -> Videos] /\ item' \in [Items -> ItemRows] /\ Owned'
           /\ \A i \in Items : /\ item'[i].state = item[i].state
                               /\ item'[i].row = IF i \in S THEN Named(i, taken) ELSE item[i].row
           /\ \A s \in Slots : rows'[s].status = IF s \in Minted(S, taken) THEN "ingesting"
                                                 ELSE rows[s].status
<1>1. rows' \in [Slots -> Videos] BY DEF Books, Videos, NoRow
<1>2. \A s \in Slots : rows'[s].status = IF s \in Minted(S, taken) THEN "ingesting" ELSE rows[s].status
  BY DEF NoRow
<1>3. ASSUME NEW i \in Items
      PROVE  /\ item'[i] \in ItemRows /\ item'[i].state = item[i].state
             /\ item'[i].row = IF i \in S THEN Named(i, taken) ELSE item[i].row
  <2>1. item[i] \in ItemRows BY DEF Books
  <2>2. ASSUME i \in S PROVE Named(i, taken) \in Slots BY <2>2, NamedIs
  <2> QED BY <2>1, <2>2 DEF ItemRows
<1>4. item' \in [Items -> ItemRows]
  <2>1. item' = [i \in Items |-> item'[i]] OBVIOUS
  <2> QED BY <1>3, <2>1
<1>5. ASSUME NEW i \in Items, item'[i].row # Nobody
      PROVE  item'[i].row[1] = i /\ rows'[item'[i].row].status # "absent"
  <2>1. CASE i \in S
    <3>1. item'[i].row = Named(i, taken) BY <1>3, <2>1
    <3>2. Named(i, taken) \in Minted(S, taken) /\ Named(i, taken) \in Slots /\ Named(i, taken)[1] = i
      BY <2>1, MintIs
    <3> QED BY <1>2, <3>1, <3>2
  <2>2. CASE i \notin S
    <3>1. item'[i].row = item[i].row BY <1>3, <2>2
    <3>2. item[i].row \in Slots /\ item[i].row[1] = i /\ rows[item[i].row].status # "absent"
      BY <1>5, <3>1, Apart
    <3> QED BY <1>2, <3>1, <3>2
  <2> QED BY <2>1, <2>2
<1>6. Owned' BY <1>5 DEF Owned
<1> QED BY <1>1, <1>2, <1>3, <1>4, <1>6

LEMMA ClaimMintKeeps == ASSUME Ind, NEW t \in Requests, ClaimMint(t) PROVE Ind'
<1> DEFINE r == req[t]
           m == r.who
           new == Minted(r.mint, r.taken)
<1>1. /\ r.op = "claim" /\ r.step = "mint" /\ UNCHANGED <<nas, left>>
      /\ \A i \in r.mint : \E k \in Suffixes : <<i, k>> \notin r.taken
      /\ \/ Turned(t) /\ UNCHANGED <<batch, item, rows, hist>>
         \/ /\ rows' = [s \in Slots |-> IF s \in new THEN [NoRow EXCEPT !.status = "ingesting"]
                                        ELSE rows[s]]
            /\ item' = [i \in Items |-> IF i \in r.mint
                          THEN [item[i] EXCEPT !.row = Named(i, r.taken)] ELSE item[i]]
            /\ batch' = [batch EXCEPT !.state = IF @ = "running" THEN @ ELSE "claimed",
                                      !.machine = m, !.lease = "live"]
            /\ Ends(t)
            /\ ing' = IF ing[m].at = t THEN [ing EXCEPT ![m] = Takes(m, @)] ELSE ing
            /\ hist' = [hist EXCEPT !.twice = @ \/ \E i \in r.mint : item[i].row # Nobody,
                                    !.apart = IF ing[m].has /\ batch.machine # m THEN Items ELSE @,
                                    !.late = IF Outstanding \/ ing[m].at # t THEN Items ELSE @]
  BY DEF ClaimMint, ledger
<1>2. m \in Machines /\ r.mint \in SUBSET Items /\ r.taken \in SUBSET Slots
  BY <1>1, RequestAsked DEF Asked
<1>3. Books /\ Floor /\ hist \in Ghosts BY RequestAsked
<1>4. CASE Turned(t) /\ UNCHANGED <<batch, item, rows, hist>>
  <2>1. Floor' BY <1>1, <1>3, <1>4, TurnedIs
  <2> QED BY <1>1, <1>3, <1>4, <2>1 DEF Ind, Rest, Books, Owned
<1>5. CASE ~(Turned(t) /\ UNCHANGED <<batch, item, rows, hist>>)
  <2>0. /\ \A i \in r.mint : \E k \in Suffixes : <<i, k>> \notin r.taken
        /\ rows' = [s \in Slots |-> IF s \in new THEN [NoRow EXCEPT !.status = "ingesting"]
                                     ELSE rows[s]]
        /\ item' = [i \in Items |-> IF i \in r.mint
                      THEN [item[i] EXCEPT !.row = Named(i, r.taken)] ELSE item[i]]
    BY <1>1, <1>5
  <2>1. rows' \in [Slots -> Videos] /\ item' \in [Items -> ItemRows] /\ Owned'
    BY <1>2, <1>3, <2>0, MintsIs
  <2>2. batch' \in Batches
    BY <1>1, <1>2, <1>3, <1>5, StatesAre DEF Books, Batches
  <2>3. hist' \in Ghosts
    <3> DEFINE late == IF Outstanding \/ ing[m].at # t THEN Items ELSE hist.late
               twice == hist.twice \/ \E i \in r.mint : item[i].row # Nobody
               apart == IF ing[m].has /\ batch.machine # m THEN Items ELSE hist.apart
    <3>1. hist' = [hist EXCEPT !.twice = twice, !.apart = apart, !.late = late]
      BY <1>1, <1>3, <1>5 DEF Ghosts
    <3>2. late \in SUBSET Items /\ twice \in BOOLEAN /\ apart \in SUBSET Items
      BY <1>3 DEF Ghosts
    <3> HIDE DEF late, twice, apart
    <3> QED BY <1>3, <3>1, <3>2 DEF Ghosts
  <2>4. Floor'
    <3>1. Ends(t) /\ ing' = IF ing[m].at = t THEN [ing EXCEPT ![m] = Takes(m, @)] ELSE ing
      BY <1>1, <1>5
    <3>2. \A n \in Machines : ing[n].at = t => n = m BY <1>3, OneWaits
    <3>3. ing[m] \in Local /\ Busy(ing[m]) BY <1>2, AtEase
    <3>4. Takes(m, ing[m]) \in Local /\ Takes(m, ing[m]).at = Nobody /\ Busy(Takes(m, ing[m]))
      BY <1>2, <2>1, <3>3, TakesIs
    <3>5. [ing EXCEPT ![m] = Takes(m, @)] = [ing EXCEPT ![m] = Takes(m, ing[m])] BY Zenon
    <3> HIDE DEF m, r
    <3> QED BY <1>2, <1>3, <3>1, <3>2, <3>4, <3>5, Served
  <2> QED BY <1>1, <2>1, <2>2, <2>3, <2>4 DEF Ind, Books, Rest
<1> QED BY <1>4, <1>5

\* A write of a clip's state that keeps its row.
LEMMA WriteIs ==
    ASSUME Books, NEW i \in Items, NEW st \in ItemStates, NEW tries \in Nat,
           item' = [item EXCEPT ![i] = [item[i] EXCEPT !.state = st, !.tries = tries]],
           rows' \in [Slots -> Videos],
           \A s \in Slots : rows[s].status # "absent" => rows'[s].status # "absent"
    PROVE  /\ item' \in [Items -> ItemRows] /\ Owned'
           /\ item'[i].state = st /\ \A k \in Items : /\ item'[k].row = item[k].row
                                                      /\ k # i => item'[k].state = item[k].state
<1>1. \A k \in Items : item[k] \in ItemRows BY DEF Books
<1>2. item' \in [Items -> ItemRows] BY <1>1, StatesAre DEF Books, ItemRows
<1>3. /\ \A k \in Items : /\ item'[k].row = item[k].row /\ k # i => item'[k].state = item[k].state
      /\ item'[i].state = st
  BY <1>1 DEF Books, ItemRows
<1>4. Owned'
  <2> SUFFICES ASSUME NEW k \in Items, item'[k].row # Nobody
               PROVE  item'[k].row[1] = k /\ rows'[item'[k].row].status # "absent"
    BY DEF Owned
  <2>1. item'[k].row = item[k].row BY <1>3
  <2> QED BY <2>1, Apart
<1> QED BY <1>2, <1>3, <1>4

LEMMA NotingIs ==
    ASSUME hist \in Ghosts, batch \in Batches, NEW t, req[t] \in ItemAsks, Noting(t)
    PROVE  /\ hist' \in Ghosts /\ hist.late \subseteq hist'.late /\ hist.again \subseteq hist'.again
           /\ hist'.twice = hist.twice /\ (Overtaken(req[t]) => req[t].i \in hist'.late)
           /\ (Published(req[t].i) => req[t].i \in hist'.again)
           /\ hist.apart \subseteq hist'.apart /\ (Outrun(t) => req[t].i \in hist'.apart)
<1> DEFINE r == req[t]
           late == IF Overtaken(r) THEN hist.late \cup {r.i} ELSE hist.late
           apart == IF Outrun(t) THEN hist.apart \cup {r.i} ELSE hist.apart
           again == IF Published(r.i) THEN hist.again \cup {r.i} ELSE hist.again
           wedged == hist.wedged \/ (r.fresh /\ batch.lease = "none")
<1>1. hist' = [hist EXCEPT !.late = late, !.apart = apart, !.again = again, !.wedged = wedged]
  BY DEF Noting, Ghosts
<1>2. r.i \in Items /\ r.fresh \in BOOLEAN BY DEF ItemAsks, Ask
<1>3. late \in SUBSET Items /\ apart \in SUBSET Items /\ again \in SUBSET Items /\ wedged \in BOOLEAN
  BY <1>2 DEF Ghosts
<1>4. /\ hist.late \subseteq late /\ hist.again \subseteq again /\ hist.apart \subseteq apart
      /\ Overtaken(r) => r.i \in late
      /\ Published(r.i) => r.i \in again
      /\ Outrun(t) => r.i \in apart
  OBVIOUS
<1> HIDE DEF late, apart, again, wedged
<1>5. /\ hist' \in Ghosts /\ hist'.late = late /\ hist'.again = again /\ hist'.twice = hist.twice
      /\ hist'.apart = apart
  BY <1>1, <1>3 DEF Ghosts
<1> QED BY <1>4, <1>5

LEMMA RunningIs ==
    ASSUME batch \in Batches, NEW r, Running(r)
    PROVE  /\ batch' \in Batches /\ batch'.lease = batch.lease /\ batch'.machine = batch.machine
           /\ batch'.cancel = batch.cancel /\ batch'.state \in {batch.state, "running"}
BY StatesAre DEF Running, Batches

LEMMA ItemAsked ==
    ASSUME Ind, NEW t \in Requests, req[t].op \in ItemOps
    PROVE  /\ req[t] \in ItemAsks /\ req[t].i \in Items /\ req[t].who \in Machines
           /\ req[t].row \in Slots \cup {Nobody} /\ req[t].tries \in Nat /\ req[t].was \in ItemStates
           /\ req[t].op = "status" => req[t].arg \in {"describing", "uploading", "failed"}
           /\ req[t].op # "status" => req[t].arg \in BOOLEAN
BY RequestAsked DEF Asked, ItemAsks, Ask

LEMMA StatusWriteKeeps == ASSUME Ind, NEW t \in Requests, StatusWrite(t) PROVE Ind'
<1> DEFINE r == req[t]
<1>1. r.op = "status" /\ Ends(t) /\ UNCHANGED <<rows, nas, left>> BY DEF StatusWrite
<1>2. r \in ItemAsks /\ r.i \in Items /\ r.tries \in Nat /\ r.arg \in ItemStates
  BY <1>1, ItemAsked, StatesAre DEF ItemOps
<1>3. Floor'
  <2>1. Answers(t, "ok") \/ Answers(t, "no") BY DEF StatusWrite
  <2> QED BY <1>1, <2>1, AnsweredIs DEF ItemOps
<1>4. Books /\ hist \in Ghosts BY RequestAsked
<1>5. CASE UNCHANGED <<batch, item, hist>>
  BY <1>1, <1>3, <1>4, <1>5 DEF Ind, Rest, Books, Owned
<1>6. ASSUME item' = [item EXCEPT ![r.i].state = r.arg, ![r.i].tries = r.tries],
             Running(r), Noting(t)
      PROVE  Ind'
  <2>1. item' = [item EXCEPT ![r.i] = [item[r.i] EXCEPT !.state = r.arg, !.tries = r.tries]]
    BY <1>2, <1>4, <1>6 DEF Books, ItemRows
  <2>2. item' \in [Items -> ItemRows] /\ Owned' BY <1>1, <1>2, <1>4, <2>1, WriteIs DEF Books
  <2>3. hist' \in Ghosts /\ batch' \in Batches
    BY <1>2, <1>4, <1>6, NotingIs, RunningIs DEF Books
  <2> QED BY <1>1, <1>3, <1>4, <2>2, <2>3 DEF Ind, Rest, Books
<1> QED BY <1>5, <1>6 DEF StatusWrite

LEMMA ResultWriteKeeps == ASSUME Ind, NEW t \in Requests, ResultWrite(t) PROVE Ind'
<1> DEFINE r == req[t]
<1>1. r.op = "result" /\ Ends(t) /\ UNCHANGED <<nas, left>> BY DEF ResultWrite
<1>2. r \in ItemAsks /\ r.i \in Items BY <1>1, ItemAsked DEF ItemOps
<1>3. Floor'
  <2>1. Answers(t, "ok") \/ Answers(t, "no") BY DEF ResultWrite
  <2> QED BY <1>1, <2>1, AnsweredIs DEF ItemOps
<1>4. Books /\ hist \in Ghosts BY RequestAsked
<1>5. CASE UNCHANGED <<batch, item, rows, hist>>
  BY <1>1, <1>3, <1>4, <1>5 DEF Ind, Rest, Books, Owned
<1>6. ASSUME rows' = [rows EXCEPT ![r.row].described = TRUE],
             item' = [item EXCEPT ![r.i].state = "indexed"],
             Running(r), Noting(t)
      PROVE  Ind'
  <2>1. item' = [item EXCEPT ![r.i] = [item[r.i] EXCEPT !.state = "indexed", !.tries = item[r.i].tries]]
    BY <1>2, <1>4, <1>6 DEF Books, ItemRows
  <2>2. /\ rows' \in [Slots -> Videos]
        /\ \A s \in Slots : rows[s].status # "absent" => rows'[s].status # "absent"
    BY <1>4, <1>6 DEF Books, Videos
  <2>3. item[r.i].tries \in Nat BY <1>2, <1>4 DEF Books, ItemRows
  <2>4. item' \in [Items -> ItemRows] /\ Owned'
    BY <1>2, <1>4, <2>1, <2>2, <2>3, WriteIs, StatesAre
  <2>5. hist' \in Ghosts /\ batch' \in Batches
    BY <1>2, <1>4, <1>6, NotingIs, RunningIs DEF Books
  <2> QED BY <1>1, <1>3, <1>4, <2>2, <2>4, <2>5 DEF Ind, Rest, Books
<1> QED BY <1>5, <1>6 DEF ResultWrite, ledger

LEMMA UploadedCheckKeeps == ASSUME Ind, NEW t \in Requests, UploadedCheck(t) PROVE Ind'
<1> DEFINE r == req[t]
           next == [r EXCEPT !.op = "publish"]
<1>1. r.op = "uploaded" /\ UNCHANGED <<batch, item, rows, nas, hist, left>>
  BY DEF UploadedCheck, ledger
<1>2. r \in ItemAsks /\ r.i \in Items /\ r.arg \in BOOLEAN BY <1>1, ItemAsked DEF ItemOps
<1>3. CASE Becomes(t, next) /\ UNCHANGED ing
  <2>1. /\ next \in ItemAsks /\ next.op = "publish" /\ next.who = r.who /\ next.i = r.i
    BY <1>1, <1>2 DEF ItemAsks, Ask
  <2>2. \A n \in Machines : ing[n].at = t => Awaits(ing[n], n, r) BY RequestAsked, OneWaits
  <2> HIDE DEF next
  <2>3. Asked(next) BY <2>1 DEF Asked, Ops, ItemOps
  <2>4. \A n \in Machines : ing[n].at = t => Awaits(ing[n], n, next)
    BY <1>1, <2>1, <2>2 DEF Awaits, ItemOps
  <2>5. Floor' BY <1>3, <2>3, <2>4, RequestAsked, Unawaited
  <2> QED BY <1>1, <2>5 DEF Ind, Books, Owned, Rest
<1>4. CASE Ends(t) /\ Answers(t, "no")
  <2>1. Floor' BY <1>1, <1>4, AnsweredIs DEF ItemOps
  <2> QED BY <1>1, <2>1 DEF Ind, Books, Owned, Rest
<1> QED BY <1>3, <1>4 DEF UploadedCheck

\* What a publication writes.
LEMMA PublishIs ==
    ASSUME Ind, NEW t \in Requests, UploadedWrite(t)
    PROVE  /\ req[t] \in ItemAsks /\ req[t].i \in Items
           /\ rows' = [rows EXCEPT ![req[t].row].status = IF @ = "absent" THEN @ ELSE "indexed"]
           /\ rows' \in [Slots -> Videos]
           /\ \A s \in Slots :
                rows'[s].status = IF s = req[t].row /\ rows[s].status # "absent" THEN "indexed"
                                  ELSE rows[s].status
           /\ item' \in [Items -> ItemRows] /\ Owned'
           /\ item'[req[t].i].state \in {"live", "proxies_live"}
           /\ \A k \in Items : /\ item'[k].row = item[k].row
                               /\ k # req[t].i => item'[k].state = item[k].state
<1> DEFINE r == req[t]
           st == IF r.arg THEN "live" ELSE "proxies_live"
<1>1. /\ r.op = "publish" /\ item' = [item EXCEPT ![r.i].state = st]
      /\ rows' = [rows EXCEPT ![r.row].status = IF @ = "absent" THEN @ ELSE "indexed"]
  BY DEF UploadedWrite
<1>2. r \in ItemAsks /\ r.i \in Items /\ Books BY <1>1, ItemAsked, RequestAsked DEF ItemOps
<1>3. st \in ItemStates /\ st \in {"live", "proxies_live"} BY StatesAre
<1> HIDE DEF st, r
<1>4. item' = [item EXCEPT ![r.i] = [item[r.i] EXCEPT !.state = st, !.tries = item[r.i].tries]]
  BY <1>1, <1>2 DEF Books, ItemRows
<1>5. /\ rows' \in [Slots -> Videos]
      /\ \A s \in Slots : rows'[s].status = IF s = r.row /\ rows[s].status # "absent" THEN "indexed"
                                            ELSE rows[s].status
  <2>1. /\ rows' = [s \in Slots |-> rows'[s]]
        /\ \A s \in Slots : rows'[s] = IF s = r.row
             THEN [rows[s] EXCEPT !.status = IF @ = "absent" THEN @ ELSE "indexed"] ELSE rows[s]
    BY <1>1, <1>2 DEF Books
  <2>2. \A s \in Slots : rows[s] \in Videos BY <1>2 DEF Books
  <2>3. \A s \in Slots : /\ rows'[s] \in Videos
                         /\ rows'[s].status = IF s = r.row /\ rows[s].status # "absent" THEN "indexed"
                                              ELSE rows[s].status
    BY <2>1, <2>2 DEF Videos
  <2> QED BY <2>1, <2>3
<1>6. item[r.i].tries \in Nat BY <1>2 DEF Books, ItemRows
<1>7. \A s \in Slots : rows[s].status # "absent" => rows'[s].status # "absent" BY <1>5
<1>8. /\ item' \in [Items -> ItemRows] /\ Owned' /\ item'[r.i].state = st
      /\ \A k \in Items : item'[k].row = item[k].row /\ (k # r.i => item'[k].state = item[k].state)
  BY <1>2, <1>3, <1>4, <1>5, <1>6, <1>7, WriteIs
<1> QED BY <1>1, <1>2, <1>3, <1>5, <1>8 DEF r

LEMMA LateIs ==
    ASSUME hist \in Ghosts, NEW late \in SUBSET Items, hist' = [hist EXCEPT !.late = late]
    PROVE  /\ hist' \in Ghosts /\ hist'.late = late
           /\ hist'.twice = hist.twice /\ hist'.again = hist.again
           /\ hist'.apart = hist.apart
BY DEF Ghosts

LEMMA UploadedWriteKeeps == ASSUME Ind, NEW t \in Requests, UploadedWrite(t) PROVE Ind'
<1> DEFINE r == req[t]
           late == IF Overtaken(r) THEN hist.late \cup {r.i} ELSE hist.late
<1>1. r.op = "publish" /\ Ends(t) /\ Answers(t, "ok") /\ UNCHANGED <<batch, nas, left>>
  BY DEF UploadedWrite
<1>2. rows' \in [Slots -> Videos] /\ item' \in [Items -> ItemRows] /\ Owned' /\ r.i \in Items
  BY PublishIs
<1>3. Floor' BY <1>1, AnsweredIs DEF ItemOps
<1>4. Books /\ hist \in Ghosts BY RequestAsked
<1>5. hist' \in Ghosts
  <2>1. hist' = [hist EXCEPT !.late = late] BY <1>4 DEF UploadedWrite, Ghosts
  <2>2. late \in SUBSET Items BY <1>2, <1>4 DEF Ghosts
  <2> HIDE DEF late
  <2> QED BY <1>4, <2>1, <2>2, LateIs
<1> QED BY <1>1, <1>2, <1>3, <1>4, <1>5 DEF Ind, Rest, Books

\* Nobody waits for a beat, a list, a stop, a new try or a cancelled release.
LEMMA NobodyWaits ==
    ASSUME Ind, NEW t \in Requests, Ends(t), UNCHANGED ing,
           \/ req[t].op \in {"beat", "list", "cancel", "retry"}
           \/ req[t].op = "release" /\ req[t].arg = "cancelled"
    PROVE  Floor'
<1>1. \A n \in Machines : ing[n].at # t
  BY RequestAsked, OneWaits DEF Awaits, ItemOps
<1> QED BY <1>1, RequestAsked, Served

LEMMA BeatWriteKeeps == ASSUME Ind, NEW t \in Requests, BeatWrite(t) PROVE Ind'
<1> DEFINE late == IF Holds(req[t].who) THEN hist.late ELSE Items
<1>1. Books /\ hist \in Ghosts BY RequestAsked
<1>2. Floor' BY NobodyWaits DEF BeatWrite
<1>3. batch' \in Batches BY <1>1 DEF BeatWrite, Books, Batches
<1>4. hist' = [hist EXCEPT !.late = late] BY <1>1 DEF BeatWrite, Ghosts
<1>5. late \in SUBSET Items BY <1>1 DEF Ghosts
<1> HIDE DEF late
<1>6. hist' \in Ghosts BY <1>1, <1>4, <1>5, LateIs
<1> QED BY <1>1, <1>2, <1>3, <1>6 DEF BeatWrite, Ind, Rest, Books, Owned

LEMMA ReleaseWriteKeeps == ASSUME Ind, NEW t \in Requests, ReleaseWrite(t) PROVE Ind'
<1> DEFINE r == req[t]
           late == IF r.arg # "cancelled" /\ ~Holds(r.who) THEN Items ELSE hist.late
<1>1. Books /\ hist \in Ghosts BY RequestAsked
<1>2. r.op = "release" /\ Ends(t) /\ Finish(r.arg) /\ UNCHANGED <<nas, left>> BY DEF ReleaseWrite
<1>3. r.arg \in {"done", "failed", "cancelled"} BY <1>2, RequestAsked DEF Asked
<1>4. Books' BY <1>1, <1>2, <1>3, FinishIs
<1>5. Floor'
  <2>1. CASE r.arg = "cancelled" BY <1>2, <2>1, NobodyWaits DEF ReleaseWrite
  <2>2. CASE r.arg # "cancelled"
    <3>1. Answers(t, "ok") BY <2>2 DEF ReleaseWrite
    <3> QED BY <1>2, <3>1, AnsweredIs
  <2> QED BY <2>1, <2>2
<1>6. hist' = [hist EXCEPT !.late = late] BY <1>1 DEF ReleaseWrite, Ghosts
<1>7. late \in SUBSET Items BY <1>1 DEF Ghosts
<1> HIDE DEF late
<1>8. hist' \in Ghosts BY <1>1, <1>6, <1>7, LateIs
<1> QED BY <1>2, <1>4, <1>5, <1>8 DEF Ind, Rest

LEMMA ListSweepKeeps == ASSUME Ind, NEW t \in Requests, ListSweep(t) PROVE Ind'
<1>1. req[t].stale \in BOOLEAN /\ req[t].stopped \in BOOLEAN
  BY RequestAsked DEF ListSweep, Asked
<1>2. Books' /\ hist' \in Ghosts BY <1>1, RequestAsked, SweepIs DEF ListSweep
<1>3. Floor' BY NobodyWaits DEF ListSweep
<1> QED BY <1>2, <1>3 DEF ListSweep, Ind, Rest

LEMMA CancelCheckKeeps == ASSUME Ind, NEW t \in Requests, CancelCheck(t) PROVE Ind'
<1>1. req[t].stale \in BOOLEAN /\ req[t].stopped \in BOOLEAN
  BY RequestAsked DEF CancelCheck, Asked
<1>2. Books' /\ hist' \in Ghosts BY <1>1, RequestAsked, SweepIs DEF CancelCheck
<1>3. Floor'
  <2>1. CASE Ends(t) BY <2>1, NobodyWaits DEF CancelCheck
  <2>2. ASSUME NEW b \in BOOLEAN,
               Becomes(t, [op |-> "cancel", who |-> Nobody, step |-> "flag", end |-> b])
        PROVE  Floor'
    <3> DEFINE r == [op |-> "cancel", who |-> Nobody, step |-> "flag", end |-> b]
    <3>1. Asked(r) BY DEF Asked, Ops, ItemOps, Marks
    <3>2. \A n \in Machines : ing[n].at # t
      BY RequestAsked, OneWaits DEF CancelCheck, Awaits, ItemOps
    <3>3. UNCHANGED ing BY DEF CancelCheck
    <3> HIDE DEF r
    <3> QED BY <2>2, <3>1, <3>2, <3>3, RequestAsked, Unawaited DEF r
  <2>3. (batch'.state = "queued" \/ batch'.lease # "live") \in BOOLEAN OBVIOUS
  <2> QED BY <2>1, <2>2, <2>3 DEF CancelCheck
<1> QED BY <1>2, <1>3 DEF CancelCheck, Ind, Rest

LEMMA CancelFlagKeeps == ASSUME Ind, NEW t \in Requests, CancelFlag(t) PROVE Ind'
<1> DEFINE wedged == hist.wedged \/ (~req[t].end /\ batch.state = "queued")
<1>1. Books /\ hist \in Ghosts BY RequestAsked
<1>2. req[t] \in Marks BY RequestAsked DEF CancelFlag, Asked
<1>3. batch' \in Batches BY <1>1 DEF CancelFlag, Books, Batches
<1>4. hist' = [hist EXCEPT !.wedged = wedged] BY <1>1 DEF CancelFlag, Ghosts
<1>5. wedged \in BOOLEAN BY <1>1, <1>2 DEF Ghosts, Marks
<1> HIDE DEF wedged
<1>6. hist' \in Ghosts BY <1>1, <1>4, <1>5 DEF Ghosts
<1>7. Floor'
  <2>1. CASE Ends(t) BY <2>1, NobodyWaits DEF CancelFlag
  <2>2. CASE Becomes(t, [req[t] EXCEPT !.step = "end"])
    <3> DEFINE r == [req[t] EXCEPT !.step = "end"]
    <3>1. r \in Marks /\ r.op = "cancel" BY <1>2 DEF Marks
    <3>2. \A n \in Machines : ing[n].at # t
      BY RequestAsked, OneWaits DEF CancelFlag, Awaits, ItemOps
    <3>3. UNCHANGED ing /\ Becomes(t, r) BY <2>2 DEF CancelFlag
    <3> HIDE DEF r
    <3>4. Asked(r) BY <3>1 DEF Asked, Ops, ItemOps, Marks
    <3> QED BY <3>2, <3>3, <3>4, RequestAsked, Unawaited
  <2> QED BY <2>1, <2>2 DEF CancelFlag
<1> QED BY <1>1, <1>3, <1>6, <1>7 DEF CancelFlag, Ind, Rest, Books, Owned

LEMMA CancelEndKeeps == ASSUME Ind, NEW t \in Requests, CancelEnd(t) PROVE Ind'
<1>1. Books' BY RequestAsked, FinishIs DEF CancelEnd
<1>2. Floor' BY NobodyWaits DEF CancelEnd
<1> QED BY <1>1, <1>2, RequestAsked DEF CancelEnd, Ind, Rest

LEMMA RetryWriteKeeps == ASSUME Ind, NEW t \in Requests, RetryWrite(t) PROVE Ind'
<1> DEFINE owed == {i \in Items : item[i].state \in {"failed", "proxies_live"}}
           again == hist.again \cup {i \in owed : Published(i)}
           late == IF \E m \in Machines : ing[m].has THEN hist.late \cup owed ELSE hist.late
<1>1. Books /\ hist \in Ghosts BY RequestAsked
<1>2. Floor' BY NobodyWaits DEF RetryWrite
<1>3. item' = [i \in Items |-> IF i \in owed THEN [item[i] EXCEPT !.state = "pending"] ELSE item[i]]
  BY DEF RetryWrite
<1>4. batch' \in Batches BY <1>1, StatesAre DEF RetryWrite, Books, Batches
<1>5. hist' = [hist EXCEPT !.again = again, !.late = late] BY <1>1 DEF RetryWrite, Ghosts
<1>6. again \in SUBSET Items /\ late \in SUBSET Items BY <1>1 DEF Ghosts
<1> HIDE DEF again, late, owed
<1>7. hist' \in Ghosts BY <1>1, <1>5, <1>6 DEF Ghosts
<1>8. ASSUME NEW i \in Items PROVE item'[i] \in ItemRows /\ item'[i].row = item[i].row
  <2>1. item[i] \in ItemRows BY <1>1 DEF Books
  <2> QED BY <1>3, <2>1, StatesAre DEF ItemRows
<1>9. item' \in [Items -> ItemRows]
  <2>1. item' = [i \in Items |-> item'[i]] BY <1>3
  <2> QED BY <1>8, <2>1
<1>10. UNCHANGED <<rows, nas, left>> BY DEF RetryWrite
<1>11. Owned' BY <1>1, <1>8, <1>10 DEF Books, Owned
<1> QED BY <1>1, <1>2, <1>4, <1>7, <1>9, <1>10, <1>11 DEF Ind, Rest, Books

-----------------------------------------------------------------------------

LEMMA InitHolds == Init => Ind
<1> SUFFICES ASSUME Init PROVE Ind OBVIOUS
<1>1. batch \in Batches BY StatesAre DEF Init, Batches
<1>2. item \in [Items -> ItemRows] BY StatesAre DEF Init, ItemRows
<1>3. rows \in [Slots -> Videos] BY DEF Init, NoRow, Videos
<1>4. Rest
  <2>1. Runs \in 0..Runs /\ Clicks \in 0..Clicks /\ Mishaps \in 0..Mishaps /\ Restarts \in 0..Restarts
    BY IngestAssumption
  <2> QED BY <2>1 DEF Init, Rest, Bounds
<1>5. ing \in [Machines -> Local] /\ \A m \in Machines : ing[m].at = Nobody /\ ing[m].step = "idle"
  BY StatesAre DEF Init, Local
<1>6. AllAsked BY FreeIsAsked DEF Init, AllAsked
<1>7. Waiting BY <1>5 DEF Waiting, Busy
<1>8. hist \in Ghosts BY DEF Init, Ghosts
<1>9. Owned BY DEF Init, Owned
<1> QED BY <1>1, <1>2, <1>3, <1>4, <1>5, <1>6, <1>7, <1>8, <1>9 DEF Ind, Books, Floor

LEMMA ServesKeeps == ASSUME Ind, NEW t \in Requests, Serves(t) PROVE Ind'
BY ClaimCheckKeeps, ClaimItemsKeeps, ClaimNamesKeeps, ClaimMintKeeps, StatusWriteKeeps,
   ResultWriteKeeps, UploadedCheckKeeps, UploadedWriteKeeps, BeatWriteKeeps, ReleaseWriteKeeps,
   ListSweepKeeps, CancelCheckKeeps, CancelFlagKeeps, CancelEndKeeps, RetryWriteKeeps
DEF Serves

LEMMA NextKeeps == Ind /\ [Next]_vars => Ind'
<1> SUFFICES ASSUME Ind, [Next]_vars PROVE Ind' OBVIOUS
<1>1. CASE UNCHANGED vars
  <2>1. Floor' BY <1>1, FloorStays DEF vars, Ind
  <2> QED BY <1>1, <2>1 DEF vars, ledger, Ind, Books, Owned, Rest
<1>2. ASSUME NEW t \in Requests, Serves(t) PROVE Ind' BY <1>2, ServesKeeps
<1>3. ASSUME NEW m \in Machines,
             \/ Works(m) \/ GivesUpWaiting(m) \/ Beat(m) \/ StopHere(m) \/ Restart(m) \/ Claims(m)
             \/ \E i \in Items : Land(m, i)
      PROVE  Ind'
  BY <1>3, WorksKeeps, GivesUpWaitingKeeps, BeatKeeps, StopHereKeeps, RestartKeeps, ClaimsKeeps,
     LandKeeps
  DEF Quietly
<1>4. CASE List \/ Cancel \/ Retry \/ Lapse BY <1>4, BrowserKeeps
<1> QED BY <1>1, <1>2, <1>3, <1>4 DEF Next


-----------------------------------------------------------------------------
(* The archive *)

\* A clip has no row but the one its item names.
Sole == ~hist.twice => \A s \in Slots : rows[s].status # "absent" => item[s[1]].row = s

\* A batch that is over has no lease.
Fresh == Over /\ LeaseLive => hist.late = Items

\* A clip's request whose checks would still pass names the row the clip has.
Unmoved == \A t \in Requests : req[t].op \in ItemOps =>
    /\ req[t].row # Nobody => req[t].row[1] = req[t].i
    /\ req[t].op = "publish" => req[t].row # Nobody
    /\ Holds(req[t].who) /\ req[t].i \notin hist.late => req[t].row = item[req[t].i].row

\* What says it is published is in the archive, and what is there says so.
InArchive == ~hist.twice => \A i \in Items \ (hist.late \cup hist.again) :
    /\ Published(i) => item[i].row # Nobody /\ rows[item[i].row].status = "indexed"
    /\ \A s \in Slots : s[1] = i /\ rows[s].status = "indexed" => Published(i)

Ledger == Sole /\ Fresh /\ InArchive /\ NoGhosts

\* The ghosts only ever grow.
Grows == /\ hist.late \subseteq hist'.late /\ hist'.late \subseteq Items
         /\ hist.again \subseteq hist'.again
         /\ hist.twice => hist'.twice

\* A machine that holds the batch held it, and its clips keep their rows.
Still(m) == ~Over' /\ ~batch'.cancel /\ batch'.machine = m /\ batch'.lease = "live"
Sticks == \A m \in Machines, i \in Items : Still(m) /\ i \notin hist'.late =>
    Holds(m) /\ i \notin hist.late /\ item'[i].row = item[i].row

LEMMA UnmovedStays ==
    ASSUME Ind, Ind', Unmoved, Carried, Sticks PROVE Unmoved'
<1> SUFFICES ASSUME NEW t \in Requests, req'[t].op \in ItemOps
             PROVE  /\ req'[t].row # Nobody => req'[t].row[1] = req'[t].i
                    /\ req'[t].op = "publish" => req'[t].row # Nobody
                    /\ Still(req'[t].who) /\ req'[t].i \notin hist'.late =>
                         req'[t].row = item'[req'[t].i].row
  BY DEF Unmoved, Holds, Still, LeaseLive
<1>1. req'[t] \in ItemAsks BY DEF Ind, Floor, AllAsked, Asked
<1>2. req'[t].who \in Machines /\ req'[t].i \in Items BY <1>1 DEF ItemAsks, Ask
<1>3. CASE /\ req[t].op \in ItemOps /\ req'[t].who = req[t].who /\ req'[t].i = req[t].i
           /\ req'[t].row = req[t].row
           /\ req'[t].op = "publish" => req[t].op = "publish" \/ req[t].row # Nobody
  BY <1>2, <1>3 DEF Unmoved, Sticks
<1>4. CASE /\ req'[t].op # "publish" /\ Holds(req'[t].who) /\ req'[t].i \in Items
           /\ req'[t].row = item[req'[t].i].row
  <2>1. req'[t].row # Nobody => req'[t].row[1] = req'[t].i
    BY <1>2, <1>4, Apart DEF Ind
  <2> QED BY <1>2, <1>4, <2>1 DEF Sticks
<1> QED BY <1>3, <1>4 DEF Carried

\* A step that leaves the ledger alone.
LEMMA LedgerStays ==
    ASSUME Ledger, Ind', UNCHANGED ledger, Grows, hist'.late = hist.late,
           hist'.again = hist.again, hist'.twice = hist.twice
    PROVE  Ledger' /\ Sticks
BY DEF Ledger, ledger, Sole, Fresh, InArchive, NoGhosts, Over, LeaseLive, Published, HalfMade,
       Sticks, Holds, Still

\* A step that changes no more than the batch's row.
LEMMA BatchStays ==
    ASSUME Ledger, hist \in Ghosts, UNCHANGED <<item, rows>>, Grows,
           hist'.again = hist.again, hist'.twice = hist.twice,
           batch'.state = "cancelled" => batch.state = "cancelled",
           batch'.state \in BatchTerminal /\ batch'.lease = "live" =>
              hist'.late = Items \/ (Over /\ LeaseLive),
           \A m \in Machines : Still(m) => Holds(m) \/ hist'.late = Items
    PROVE  Ledger' /\ Sticks
<1>1. Sole' BY DEF Ledger, Sole
<1>2. Fresh' BY DEF Ledger, Fresh, Over, LeaseLive, Grows, Ghosts
<1>3. InArchive' BY DEF Ledger, InArchive, Published, Grows
<1>4. NoGhosts' BY DEF Ledger, NoGhosts, HalfMade
<1>5. Sticks BY DEF Sticks, Grows
<1> QED BY <1>1, <1>2, <1>3, <1>4, <1>5 DEF Ledger

\* The end of a batch takes the half-made rows of a cancelled one, and no other.
LEMMA FinishLedger ==
    ASSUME Ind, Ledger, NEW state \in {"done", "failed", "cancelled"}, Finish(state), Grows,
           hist'.again = hist.again, hist'.twice = hist.twice
    PROVE  Ledger' /\ Sticks
<1>1. Books BY DEF Ind
<1>2. /\ batch'.state \in BatchTerminal /\ batch'.lease = "none"
      /\ batch'.state = "cancelled" => state = "cancelled"
  BY <1>1 DEF Finish, Verdict, BatchTerminal, Books, Batches
<1>3. Fresh' /\ Sticks BY <1>2 DEF Fresh, Over, LeaseLive, Sticks, Still
<1>4. CASE state # "cancelled"
  <2>1. UNCHANGED <<item, rows>> BY <1>4 DEF Finish, Dropped
  <2>2. Sole' BY <2>1 DEF Ledger, Sole
  <2>3. InArchive' BY <2>1 DEF Ledger, InArchive, Published, Grows
  <2>4. NoGhosts' BY <1>2, <1>4 DEF NoGhosts
  <2> QED BY <1>3, <2>2, <2>3, <2>4 DEF Ledger
<1>5. CASE state = "cancelled"
  <2> DEFINE gone == {item[i].row : i \in Items} \cap HalfMade
  <2>1. /\ rows' = [s \in Slots |-> IF s \in gone THEN NoRow ELSE rows[s]]
        /\ item' = [i \in Items |->
             [item[i] EXCEPT !.row = IF @ \in gone THEN Nobody ELSE @,
                             !.state = IF @ \in CancelKeeps THEN @ ELSE "cancelled"]]
    BY <1>5 DEF Finish, Dropped
  <2>2. \A i \in Items : item[i].row \in HalfMade <=> item[i].row \in gone OBVIOUS
  <2>3. \A s \in gone : s \in Slots /\ rows[s].status = "ingesting" BY DEF HalfMade
  <2>4. \A i \in Items, s \in HalfMade : item[i].row = s => s \in gone OBVIOUS
  <2> HIDE DEF gone
  <2>5. \A s \in Slots : /\ s \in gone => rows'[s].status = "absent"
                         /\ s \notin gone => rows'[s] = rows[s]
    BY <2>1 DEF NoRow
  <2>6. \A i \in Items : /\ item'[i].row = IF item[i].row \in gone THEN Nobody ELSE item[i].row
                         /\ Published(i)' <=> Published(i)
    <3> SUFFICES ASSUME NEW i \in Items
                 PROVE  /\ item'[i].row = IF item[i].row \in gone THEN Nobody ELSE item[i].row
                        /\ Published(i)' <=> Published(i)
      OBVIOUS
    <3>1. item[i] \in ItemRows BY <1>1 DEF Books
    <3>2. /\ item'[i].row = IF item[i].row \in gone THEN Nobody ELSE item[i].row
          /\ item'[i].state = IF item[i].state \in CancelKeeps THEN item[i].state ELSE "cancelled"
      BY <2>1, <3>1 DEF ItemRows
    <3> QED BY <3>2 DEF Published, CancelKeeps
  <2>7. Sole'
    <3> SUFFICES ASSUME ~hist'.twice, NEW s \in Slots, rows'[s].status # "absent"
                 PROVE  item'[s[1]].row = s
      BY DEF Sole
    <3>1. s \notin gone /\ rows[s].status # "absent" BY <2>5
    <3>2. item[s[1]].row = s /\ s[1] \in Items BY <3>1 DEF Ledger, Sole, Slots
    <3> QED BY <2>6, <3>1, <3>2
  <2>8. InArchive'
    <3> SUFFICES ASSUME ~hist'.twice, NEW i \in Items, i \notin hist'.late \cup hist'.again
                 PROVE  /\ Published(i)' => item'[i].row # Nobody /\ rows'[item'[i].row].status = "indexed"
                        /\ \A s \in Slots : s[1] = i /\ rows'[s].status = "indexed" => Published(i)'
      BY DEF InArchive
    <3>1. /\ Published(i) => item[i].row # Nobody /\ rows[item[i].row].status = "indexed"
          /\ \A s \in Slots : s[1] = i /\ rows[s].status = "indexed" => Published(i)
      BY DEF Ledger, InArchive, Grows
    <3>2. item[i].row # Nobody => item[i].row \in Slots BY <1>1, Apart
    <3> QED BY <2>3, <2>5, <2>6, <3>1, <3>2
  <2>9. NoGhosts'
    <3> SUFFICES ASSUME ~hist'.twice, NEW s \in Slots, rows'[s].status = "ingesting" PROVE FALSE
      BY DEF NoGhosts, HalfMade
    <3>1. s \notin gone /\ rows[s].status = "ingesting" BY <2>5
    <3>2. item[s[1]].row = s /\ s[1] \in Items BY <3>1 DEF Ledger, Sole, Slots
    <3> QED BY <2>4, <3>1, <3>2 DEF HalfMade
  <2> QED BY <1>3, <2>7, <2>8, <2>9 DEF Ledger
<1> QED BY <1>4, <1>5

LEMMA SweepLedger ==
    ASSUME Ind, Ledger, NEW r, r.stale \in BOOLEAN, r.stopped \in BOOLEAN, Sweep(r)
    PROVE  Ledger' /\ Sticks
<1>0. Books /\ hist \in Ghosts BY DEF Ind
<1>1. /\ hist'.late = hist.late /\ hist'.twice = hist.twice /\ hist'.again = hist.again
  BY <1>0, SweepIs
<1>2. Grows BY <1>0, <1>1 DEF Grows, Ghosts
<1>3. CASE r.stopped BY <1>1, <1>2, <1>3, FinishLedger DEF Sweep
<1>4. CASE ~r.stopped
  <2>1. /\ UNCHANGED <<item, rows>>
        /\ batch' = batch \/ batch' = [batch EXCEPT !.state = "queued", !.lease = "none"]
    BY <1>4 DEF Sweep
  <2>2. /\ batch'.state = "cancelled" => batch.state = "cancelled"
        /\ batch'.state \in BatchTerminal /\ batch'.lease = "live" => Over /\ LeaseLive
        /\ \A m \in Machines : Still(m) => Holds(m)
    BY <1>0, <2>1 DEF Books, Batches, BatchTerminal, Over, LeaseLive, Holds, Still
  <2> QED BY <1>0, <1>1, <1>2, <2>1, <2>2, BatchStays
<1> QED BY <1>3, <1>4

\* The names a claim mints are the only rows of clips that had none.
LEMMA MintLedger ==
    ASSUME Ind, Ledger, NEW t \in Requests, ClaimMint(t), ~(Turned(t) /\ UNCHANGED <<ledger, hist>>)
    PROVE  /\ Ledger'
           /\ hist'.late = Items \/ ~Outstanding
<1> DEFINE r == req[t]
           new == Minted(r.mint, r.taken)
<1>1. /\ r.op = "claim" /\ r.step = "mint"
      /\ \A i \in r.mint : \E k \in Suffixes : <<i, k>> \notin r.taken
      /\ new \cap Taken = {}
      /\ rows' = [s \in Slots |-> IF s \in new THEN [NoRow EXCEPT !.status = "ingesting"] ELSE rows[s]]
      /\ item' = [i \in Items |-> IF i \in r.mint
                          THEN [item[i] EXCEPT !.row = Named(i, r.taken)] ELSE item[i]]
      /\ batch' = [batch EXCEPT !.state = IF @ = "running" THEN @ ELSE "claimed",
                                !.machine = r.who, !.lease = "live"]
      /\ hist' = [hist EXCEPT !.twice = @ \/ \E i \in r.mint : item[i].row # Nobody,
                              !.apart = IF ing[r.who].has /\ batch.machine # r.who THEN Items ELSE @,
                              !.late = IF Outstanding \/ ing[r.who].at # t THEN Items ELSE @]
  BY DEF ClaimMint
<1>2. r.mint \in SUBSET Items /\ r.taken \in SUBSET Slots BY <1>1, RequestAsked DEF Asked
<1>3. Books /\ hist \in Ghosts BY RequestAsked
<1> DEFINE late == IF Outstanding \/ ing[r.who].at # t THEN Items ELSE hist.late
           twice == hist.twice \/ \E i \in r.mint : item[i].row # Nobody
<1>4. /\ hist'.late = late /\ hist'.twice = twice /\ hist'.again = hist.again
      /\ hist.late \subseteq late /\ late \subseteq Items
  BY <1>1, <1>3 DEF Ghosts
<1>5. /\ \A i \in Items : /\ item'[i].state = item[i].state
                          /\ item'[i].row = IF i \in r.mint THEN Named(i, r.taken) ELSE item[i].row
      /\ \A s \in Slots : rows'[s].status = IF s \in new THEN "ingesting" ELSE rows[s].status
  BY <1>1, <1>2, <1>3, MintsIs
<1>6. /\ new \subseteq Slots
      /\ \A i \in r.mint : Named(i, r.taken) \in new /\ Named(i, r.taken)[1] = i
      /\ \A s \in new : s[1] \in r.mint /\ s = Named(s[1], r.taken)
  <2>1. ASSUME NEW S \in SUBSET Items, NEW T \in SUBSET Slots,
               \A i \in S : \E k \in Suffixes : <<i, k>> \notin T
        PROVE  /\ Minted(S, T) \subseteq Slots
               /\ \A i \in S : Named(i, T) \in Minted(S, T) /\ Named(i, T)[1] = i
               /\ \A s \in Minted(S, T) : s[1] \in S /\ s = Named(s[1], T)
    BY <2>1, MintIs
  <2>2. \A i \in r.mint : \E k \in Suffixes : <<i, k>> \notin r.taken BY <1>1
  <2> QED BY <1>2, <2>1, <2>2, Zenon
<1>7. batch'.state \in {"running", "claimed"} BY <1>1, <1>3 DEF Books, Batches
<1>8. Outstanding => hist'.late = Items BY <1>4
<1>9. ~twice => ~hist.twice /\ \A i \in r.mint : item[i].row = Nobody OBVIOUS
<1> HIDE DEF late, twice, new, r
<1>10. Sole'
  <2> SUFFICES ASSUME ~hist'.twice, NEW s \in Slots, rows'[s].status # "absent"
               PROVE  item'[s[1]].row = s
    BY DEF Sole
  <2>1. s[1] \in Items BY DEF Slots
  <2>2. CASE s \in new BY <1>5, <1>6, <2>1, <2>2
  <2>3. CASE s \notin new
    <3>1. item[s[1]].row = s BY <1>4, <1>5, <1>9, <2>3 DEF Ledger, Sole
    <3>2. s[1] \notin r.mint BY <1>4, <1>9, <3>1, NobodyIs
    <3> QED BY <1>5, <2>1, <3>1, <3>2
  <2> QED BY <2>2, <2>3
<1>11. InArchive'
  <2> SUFFICES ASSUME ~hist'.twice, NEW i \in Items, i \notin hist'.late \cup hist'.again
               PROVE  /\ Published(i)' => item'[i].row # Nobody /\ rows'[item'[i].row].status = "indexed"
                      /\ \A s \in Slots : s[1] = i /\ rows'[s].status = "indexed" => Published(i)'
    BY DEF InArchive
  <2>1. /\ Published(i) => item[i].row # Nobody /\ rows[item[i].row].status = "indexed"
        /\ \A s \in Slots : s[1] = i /\ rows[s].status = "indexed" => Published(i)
    BY <1>4, <1>9 DEF Ledger, InArchive
  <2>2. Published(i)' <=> Published(i) BY <1>5 DEF Published
  <2>3. ASSUME Published(i) PROVE item'[i].row # Nobody /\ rows'[item'[i].row].status = "indexed"
    <3>1. item[i].row # Nobody /\ rows[item[i].row].status = "indexed" BY <2>1, <2>3
    <3>2. i \notin r.mint /\ item'[i].row = item[i].row BY <1>4, <1>5, <1>9, <3>1
    <3>3. item[i].row \in Slots /\ item[i].row[1] = i BY <1>3, <3>1, Apart
    <3>4. item[i].row \notin new BY <1>6, <3>2, <3>3
    <3> QED BY <1>5, <3>1, <3>2, <3>3, <3>4
  <2>4. ASSUME NEW s \in Slots, s[1] = i, rows'[s].status = "indexed" PROVE Published(i)
    BY <1>5, <2>1, <2>4
  <2> QED BY <2>2, <2>3, <2>4
<1>12. Fresh' /\ NoGhosts' BY <1>7 DEF Fresh, NoGhosts, Over, BatchTerminal
<1> QED BY <1>8, <1>10, <1>11, <1>12 DEF Ledger

\* A clip's state is written, and its row keeps to what it was.
LEMMA StateLedger ==
    ASSUME Ind, Ledger, Grows, hist'.twice = hist.twice, NEW i \in Items,
           \A k \in Items : /\ item'[k].row = item[k].row
                            /\ k # i => item'[k].state = item[k].state,
           \A s \in Slots : rows'[s].status = rows[s].status,
           i \in hist'.late \cup hist'.again \/ (~Published(i) /\ item'[i].state \notin {"live", "proxies_live"}),
           batch'.lease = batch.lease, batch'.machine = batch.machine, batch'.cancel = batch.cancel,
           batch'.state \in {batch.state, "running"}
    PROVE  Ledger' /\ Sticks
<1>1. Sole' BY DEF Ledger, Sole, Slots
<1>2. Fresh' BY DEF Ledger, Fresh, Over, LeaseLive, BatchTerminal, Grows
<1>3. NoGhosts' BY DEF Ledger, NoGhosts, HalfMade
<1>4. InArchive'
  <2> SUFFICES ASSUME ~hist'.twice, NEW k \in Items, k \notin hist'.late \cup hist'.again
               PROVE  /\ Published(k)' => item'[k].row # Nobody /\ rows'[item'[k].row].status = "indexed"
                      /\ \A s \in Slots : s[1] = k /\ rows'[s].status = "indexed" => Published(k)'
    BY DEF InArchive
  <2>1. /\ Published(k) => item[k].row # Nobody /\ rows[item[k].row].status = "indexed"
        /\ \A s \in Slots : s[1] = k /\ rows[s].status = "indexed" => Published(k)
    BY DEF Ledger, InArchive, Grows
  <2>2. item[k].row # Nobody => item[k].row \in Slots BY Apart DEF Ind
  <2>3. Published(k)' <=> Published(k) BY DEF Published
  <2> QED BY <2>1, <2>2, <2>3
<1>5. Sticks BY DEF Ledger, Fresh, Sticks, Still, Holds, Over, LeaseLive, BatchTerminal, Grows
<1> QED BY <1>1, <1>2, <1>3, <1>4, <1>5 DEF Ledger

LEMMA StatusWriteLedger ==
    ASSUME Ind, Ledger, NEW t \in Requests, StatusWrite(t) PROVE Ledger' /\ Sticks
<1> DEFINE r == req[t]
<1>0. Books /\ hist \in Ghosts BY RequestAsked
<1>1. /\ r \in ItemAsks /\ r.i \in Items /\ r.tries \in Nat /\ r.arg \in ItemStates
      /\ r.arg \in {"describing", "uploading", "failed"} /\ r.op = "status"
  BY ItemAsked, StatesAre DEF StatusWrite, ItemOps
<1>2. UNCHANGED rows BY DEF StatusWrite
<1>3. CASE UNCHANGED <<batch, item, hist>>
  BY <1>0, <1>2, <1>3, BatchStays DEF Grows, Ghosts, Over, LeaseLive, Holds, Still
<1>4. ASSUME item' = [item EXCEPT ![r.i].state = r.arg, ![r.i].tries = r.tries],
             Running(r), Noting(t)
      PROVE  Ledger' /\ Sticks
  <2>1. item' = [item EXCEPT ![r.i] = [item[r.i] EXCEPT !.state = r.arg, !.tries = r.tries]]
    BY <1>0, <1>1, <1>4 DEF Books, ItemRows
  <2>2. /\ item'[r.i].state = r.arg
        /\ \A k \in Items : item'[k].row = item[k].row /\ (k # r.i => item'[k].state = item[k].state)
    BY <1>0, <1>1, <1>2, <2>1, WriteIs DEF Books
  <2>3. /\ Grows /\ hist'.twice = hist.twice
        /\ Overtaken(r) => r.i \in hist'.late
        /\ Published(r.i) => r.i \in hist'.again
    BY <1>0, <1>1, <1>4, NotingIs DEF Books, Grows, Ghosts
  <2>4. /\ batch'.lease = batch.lease /\ batch'.machine = batch.machine
        /\ batch'.cancel = batch.cancel /\ batch'.state \in {batch.state, "running"}
    BY <1>0, <1>4, RunningIs DEF Books
  <2>5. item'[r.i].state \notin {"live", "proxies_live"} BY <1>1, <2>2
  <2> HIDE DEF r
  <2> QED BY <1>1, <1>2, <2>2, <2>3, <2>4, <2>5, StateLedger
<1> QED BY <1>3, <1>4 DEF StatusWrite

LEMMA ResultWriteLedger ==
    ASSUME Ind, Ledger, NEW t \in Requests, ResultWrite(t) PROVE Ledger' /\ Sticks
<1> DEFINE r == req[t]
<1>0. Books /\ hist \in Ghosts BY RequestAsked
<1>1. r \in ItemAsks /\ r.i \in Items /\ r.op = "result"
  BY ItemAsked DEF ResultWrite, ItemOps
<1>3. CASE UNCHANGED <<batch, item, rows, hist>>
  BY <1>0, <1>3, BatchStays DEF Grows, Ghosts, Over, LeaseLive, Holds, Still
<1>4. ASSUME rows' = [rows EXCEPT ![r.row].described = TRUE],
             item' = [item EXCEPT ![r.i].state = "indexed"],
             Running(r), Noting(t)
      PROVE  Ledger' /\ Sticks
  <2>0. \A s \in Slots : rows[s] \in Videos BY <1>0 DEF Books
  <2>1. \A s \in Slots : rows'[s].status = rows[s].status BY <1>0, <1>4, <2>0 DEF Books, Videos
  <2>2. /\ item'[r.i].state = "indexed"
        /\ \A k \in Items : item'[k].row = item[k].row /\ (k # r.i => item'[k].state = item[k].state)
    BY <1>0, <1>1, <1>4 DEF Books, ItemRows
  <2>3. /\ Grows /\ hist'.twice = hist.twice
        /\ Published(r.i) => r.i \in hist'.again
    BY <1>0, <1>1, <1>4, NotingIs DEF Books, Grows, Ghosts
  <2>4. /\ batch'.lease = batch.lease /\ batch'.machine = batch.machine
        /\ batch'.cancel = batch.cancel /\ batch'.state \in {batch.state, "running"}
    BY <1>0, <1>4, RunningIs DEF Books
  <2> HIDE DEF r
  <2> QED BY <1>1, <2>1, <2>2, <2>3, <2>4, StateLedger
<1> QED BY <1>3, <1>4 DEF ResultWrite, ledger

\* A publication whose checks still hold names the clip's own row.
LEMMA UploadedWriteLedger ==
    ASSUME Ind, Ledger, Unmoved, NEW t \in Requests, UploadedWrite(t) PROVE Ledger' /\ Sticks
<1> DEFINE r == req[t]
           late == IF Overtaken(r) THEN hist.late \cup {r.i} ELSE hist.late
<1>0. Books /\ hist \in Ghosts BY RequestAsked
<1>1. /\ r \in ItemAsks /\ r.i \in Items /\ r.op = "publish" /\ UNCHANGED batch
      /\ r.row # Nobody /\ r.row[1] = r.i
      /\ Holds(r.who) /\ r.i \notin hist.late => r.row = item[r.i].row
  BY ItemAsked DEF UploadedWrite, ItemOps, Unmoved
<1>2. /\ \A s \in Slots : rows'[s].status = IF s = r.row /\ rows[s].status # "absent" THEN "indexed"
                                            ELSE rows[s].status
      /\ item'[r.i].state \in {"live", "proxies_live"}
      /\ \A k \in Items : item'[k].row = item[k].row /\ (k # r.i => item'[k].state = item[k].state)
  BY PublishIs
<1>3. hist' = [hist EXCEPT !.late = late] BY <1>0 DEF UploadedWrite, Ghosts
<1>4. late \in SUBSET Items /\ hist.late \subseteq late /\ (Overtaken(r) => r.i \in late)
  BY <1>0, <1>1 DEF Ghosts
<1> HIDE DEF late
<1>5. /\ Grows /\ hist'.twice = hist.twice /\ hist'.late = late /\ hist'.again = hist.again
  BY <1>0, <1>3, <1>4, LateIs DEF Grows
<1> HIDE DEF r
<1>6. Sole' BY <1>2, <1>5 DEF Ledger, Sole, Slots
<1>7. Fresh' BY <1>1, <1>5 DEF Ledger, Fresh, Over, LeaseLive, Grows
<1>8. NoGhosts' BY <1>1, <1>2, <1>5 DEF Ledger, NoGhosts, HalfMade
<1>9. Sticks BY <1>1, <1>2, <1>5 DEF Sticks, Still, Holds, Over, LeaseLive, Grows
<1>10. InArchive'
  <2> SUFFICES ASSUME ~hist'.twice, NEW k \in Items, k \notin hist'.late \cup hist'.again
               PROVE  /\ Published(k)' => item'[k].row # Nobody /\ rows'[item'[k].row].status = "indexed"
                      /\ \A s \in Slots : s[1] = k /\ rows'[s].status = "indexed" => Published(k)'
    BY DEF InArchive
  <2>1. /\ Published(k) => item[k].row # Nobody /\ rows[item[k].row].status = "indexed"
        /\ \A s \in Slots : s[1] = k /\ rows[s].status = "indexed" => Published(k)
    BY <1>5 DEF Ledger, InArchive, Grows
  <2>2. item[k].row # Nobody => item[k].row \in Slots /\ item[k].row[1] = k
                                 /\ rows[item[k].row].status # "absent"
    BY <1>0, Apart
  <2>3. CASE k = r.i
    <3>1. Holds(r.who) /\ r.i \notin hist.late BY <1>4, <1>5, <2>3 DEF Overtaken, Grows
    <3>2. r.row = item[k].row /\ item[k].row # Nobody BY <1>1, <2>3, <3>1
    <3>3. Published(k)' BY <1>2, <2>3 DEF Published
    <3> QED BY <1>2, <2>2, <3>2, <3>3
  <2>4. CASE k # r.i
    <3>1. \A s \in Slots : s[1] = k => rows'[s].status = rows[s].status BY <1>1, <1>2, <2>4
    <3>2. Published(k)' <=> Published(k) BY <1>2, <2>4 DEF Published
    <3> QED BY <1>2, <2>1, <2>2, <3>1, <3>2
  <2> QED BY <2>3, <2>4
<1> QED BY <1>6, <1>7, <1>8, <1>9, <1>10 DEF Ledger

LEMMA BeatWriteLedger ==
    ASSUME Ind, Ledger, NEW t \in Requests, BeatWrite(t) PROVE Ledger' /\ Sticks
<1> DEFINE late == IF Holds(req[t].who) THEN hist.late ELSE Items
<1>0. Books /\ hist \in Ghosts BY RequestAsked
<1>1. UNCHANGED <<item, rows>> /\ batch' = [batch EXCEPT !.lease = "live"] BY DEF BeatWrite
<1>2. hist' = [hist EXCEPT !.late = late] BY <1>0 DEF BeatWrite, Ghosts
<1>3. late \in SUBSET Items /\ hist.late \subseteq late BY <1>0 DEF Ghosts
<1>4. ~Holds(req[t].who) => late = Items OBVIOUS
<1> HIDE DEF late
<1>5. Grows /\ hist'.twice = hist.twice /\ hist'.again = hist.again /\ hist'.late = late
  BY <1>0, <1>2, <1>3, LateIs DEF Grows
<1>6. CASE Holds(req[t].who)
  <2>1. batch' = batch BY <1>0, <1>1, <1>6 DEF Holds, LeaseLive, Books, Batches
  <2> QED BY <1>0, <1>1, <1>5, <2>1, BatchStays DEF Over, LeaseLive, Holds, Still
<1>7. CASE ~Holds(req[t].who)
  <2>1. batch'.state = batch.state BY <1>0, <1>1 DEF Books, Batches
  <2> QED BY <1>0, <1>1, <1>4, <1>5, <1>7, <2>1, BatchStays
<1> QED BY <1>6, <1>7

LEMMA ReleaseWriteLedger ==
    ASSUME Ind, Ledger, NEW t \in Requests, ReleaseWrite(t) PROVE Ledger' /\ Sticks
<1> DEFINE r == req[t]
           late == IF r.arg # "cancelled" /\ ~Holds(r.who) THEN Items ELSE hist.late
<1>0. Books /\ hist \in Ghosts BY RequestAsked
<1>1. Finish(r.arg) /\ r.arg \in {"done", "failed", "cancelled"}
  BY RequestAsked DEF ReleaseWrite, Asked
<1>2. hist' = [hist EXCEPT !.late = late] BY <1>0 DEF ReleaseWrite, Ghosts
<1>3. late \in SUBSET Items /\ hist.late \subseteq late BY <1>0 DEF Ghosts
<1> HIDE DEF late, r
<1>4. Grows /\ hist'.twice = hist.twice /\ hist'.again = hist.again
  BY <1>0, <1>2, <1>3, LateIs DEF Grows
<1> QED BY <1>1, <1>4, FinishLedger

LEMMA CancelEndLedger ==
    ASSUME Ind, Ledger, NEW t \in Requests, CancelEnd(t) PROVE Ledger' /\ Sticks
<1>1. Finish("cancelled") /\ UNCHANGED hist BY DEF CancelEnd
<1>2. Grows BY <1>1, RequestAsked DEF Grows, Ghosts
<1> QED BY <1>1, <1>2, FinishLedger

LEMMA SweepsLedger ==
    ASSUME Ind, Ledger, NEW t \in Requests, ClaimCheck(t) \/ ListSweep(t) \/ CancelCheck(t)
    PROVE  Ledger' /\ Sticks
<1>1. /\ Sweep(req[t]) /\ req[t].op \in {"claim", "list", "cancel"}
      /\ req[t].step = "sweep" \/ req[t].op = "list"
  BY DEF ClaimCheck, ListSweep, CancelCheck
<1>2. req[t].stale \in BOOLEAN /\ req[t].stopped \in BOOLEAN BY <1>1, RequestAsked DEF Asked
<1> QED BY <1>1, <1>2, SweepLedger

LEMMA CancelFlagLedger ==
    ASSUME Ind, Ledger, NEW t \in Requests, CancelFlag(t) PROVE Ledger' /\ Sticks
<1> DEFINE wedged == hist.wedged \/ (~req[t].end /\ batch.state = "queued")
<1>0. Books /\ hist \in Ghosts BY RequestAsked
<1>1. UNCHANGED <<item, rows>> /\ batch' = [batch EXCEPT !.cancel = TRUE] BY DEF CancelFlag
<1>2. hist' = [hist EXCEPT !.wedged = wedged] BY <1>0 DEF CancelFlag, Ghosts
<1> HIDE DEF wedged
<1>3. hist'.late = hist.late /\ hist'.twice = hist.twice /\ hist'.again = hist.again
  BY <1>0, <1>2 DEF Ghosts
<1>4. Grows BY <1>0, <1>3 DEF Grows, Ghosts
<1>5. batch'.state = batch.state /\ batch'.lease = batch.lease /\ batch'.cancel
  BY <1>0, <1>1 DEF Books, Batches
<1> QED BY <1>0, <1>1, <1>3, <1>4, <1>5, BatchStays DEF Over, LeaseLive, Still

LEMMA LapseLedger == ASSUME Ind, Ledger, Lapse PROVE Ledger' /\ Sticks
<1>1. UNCHANGED <<item, rows, hist>> /\ batch' = [batch EXCEPT !.lease = "lapsed"] BY DEF Lapse
<1>2. batch'.state = batch.state /\ batch'.lease = "lapsed" BY <1>1 DEF Ind, Books, Batches
<1>3. Grows BY <1>1 DEF Ind, Grows, Ghosts
<1> QED BY <1>1, <1>2, <1>3, BatchStays DEF Ind, Still

\* A clip that is tried again was published, or is not in the archive.
LEMMA RetryWriteLedger ==
    ASSUME Ind, Ledger, NEW t \in Requests, RetryWrite(t) PROVE Ledger' /\ Sticks
<1> DEFINE owed == {i \in Items : item[i].state \in {"failed", "proxies_live"}}
           again == hist.again \cup {i \in owed : Published(i)}
           late == IF \E m \in Machines : ing[m].has THEN hist.late \cup owed ELSE hist.late
<1>0. Books /\ hist \in Ghosts BY RequestAsked
<1>1. /\ item' = [i \in Items |-> IF i \in owed THEN [item[i] EXCEPT !.state = "pending"] ELSE item[i]]
      /\ batch' = IF owed = {} THEN batch
                  ELSE [batch EXCEPT !.state = "queued", !.lease = "none", !.cancel = FALSE]
      /\ UNCHANGED rows
  BY DEF RetryWrite
<1>2. hist' = [hist EXCEPT !.again = again, !.late = late] BY <1>0 DEF RetryWrite, Ghosts
<1>3. /\ again \in SUBSET Items /\ late \in SUBSET Items /\ hist.late \subseteq late
      /\ hist.again \subseteq again /\ \A i \in owed : Published(i) => i \in again
  BY <1>0 DEF Ghosts
<1>4. \A i \in Items : item[i] \in ItemRows BY <1>0 DEF Books
<1>5. \A i \in Items : /\ item'[i].row = item[i].row
                       /\ i \in owed => item'[i].state = "pending"
                       /\ i \notin owed => item'[i].state = item[i].state
  BY <1>1, <1>4 DEF ItemRows
<1> HIDE DEF owed, again, late
<1>6. hist'.late = late /\ hist'.again = again /\ hist'.twice = hist.twice
  BY <1>0, <1>2, <1>3 DEF Ghosts
<1>7. Grows BY <1>3, <1>6 DEF Grows
<1>8. batch' = batch \/ (batch'.state = "queued" /\ batch'.lease = "none")
  BY <1>0, <1>1 DEF Books, Batches
<1>9. Sole' BY <1>1, <1>5, <1>6 DEF Ledger, Sole, Slots
<1>10. Fresh' BY <1>7, <1>8 DEF Ledger, Fresh, Over, LeaseLive, Grows
<1>11. NoGhosts' BY <1>1, <1>6, <1>8 DEF Ledger, NoGhosts, HalfMade
<1>12. Sticks BY <1>5, <1>7, <1>8 DEF Sticks, Still, Holds, Over, LeaseLive, Grows
<1>13. InArchive'
  <2> SUFFICES ASSUME ~hist'.twice, NEW k \in Items, k \notin hist'.late \cup hist'.again
               PROVE  /\ Published(k)' => item'[k].row # Nobody /\ rows'[item'[k].row].status = "indexed"
                      /\ \A s \in Slots : s[1] = k /\ rows'[s].status = "indexed" => Published(k)'
    BY DEF InArchive
  <2>1. /\ Published(k) => item[k].row # Nobody /\ rows[item[k].row].status = "indexed"
        /\ \A s \in Slots : s[1] = k /\ rows[s].status = "indexed" => Published(k)
    BY <1>6, <1>7 DEF Ledger, InArchive, Grows
  <2>2. Published(k)' <=> Published(k) BY <1>3, <1>5, <1>6 DEF Published
  <2> QED BY <1>1, <1>5, <2>1, <2>2
<1> QED BY <1>9, <1>10, <1>11, <1>12, <1>13 DEF Ledger

-----------------------------------------------------------------------------

\* What each step other than a machine's call does to requests and ledger.
LEMMA IdlersQuietly ==
    ASSUME Ind, Ind', NEW m \in Machines,
           GivesUpWaiting(m) \/ Beat(m) \/ StopHere(m) \/ Restart(m) \/ Claims(m)
    PROVE  Quietly
<1>1. UNCHANGED ledger BY DEF GivesUpWaiting, Beat, StopHere, Restart, Claims
<1>0. Floor BY DEF Ind
<1>2. Carried
  <2>1. CASE UNCHANGED req BY <2>1 DEF Carried
  <2>2. ASSUME NEW t \in Requests, NEW r, Becomes(t, r), r.op \notin ItemOps PROVE Carried
    BY <1>0, <2>2, BecomesNoCall
  <2>3. CASE GivesUpWaiting(m) \/ Restart(m) BY <2>1, <2>3 DEF GivesUpWaiting, Restart
  <2>4. CASE Beat(m) BY <2>1, <2>2, <2>4 DEF Beat, ItemOps
  <2>5. CASE StopHere(m) BY <2>1, <2>2, <2>5 DEF StopHere, ItemOps
  <2>6. CASE Claims(m) BY <2>2, <2>6, LookIs DEF Claims, ItemOps
  <2> QED BY <2>3, <2>4, <2>5, <2>6
<1>3. hist'.late = hist.late /\ hist'.again = hist.again /\ hist'.twice = hist.twice
  <2>1. CASE UNCHANGED hist BY <2>1
  <2>2. CASE GivesUpWaiting(m)
    <3>1. hist' = Unsaid(req[ing[m].at]) BY <2>2 DEF GivesUpWaiting
    <3>2. ing[m] \in Local /\ ing[m].at # Nobody BY <2>2, AtEase DEF GivesUpWaiting
    <3>3. ing[m].at \in Requests BY <3>2 DEF Local
    <3>4. req[ing[m].at].op \in ItemOps => req[ing[m].at].i \in Items BY <3>3, ItemAsked
    <3> QED BY <3>1, <3>4, UnsaidIs DEF Ind
  <2> QED BY <2>1, <2>2 DEF Beat, StopHere, Restart, Claims
<1> QED BY <1>1, <1>2, <1>3 DEF Quietly, Quiet

LEMMA LandQuietly ==
    ASSUME Ind, Ind', NEW m \in Machines, NEW i \in Items, Land(m, i) PROVE Quietly
BY DEF Land, Quietly, Quiet, Carried

LEMMA BrowserQuietly ==
    ASSUME Ind, Ind', List \/ Cancel \/ Retry PROVE Quietly
<1>1. Quiet BY DEF List, Cancel, Retry, Quiet
<1>2. Carried
  <2>1. ASSUME NEW t \in Requests, NEW r, Becomes(t, r), r.op \notin ItemOps PROVE Carried
    BY <2>1, BecomesNoCall DEF Ind
  <2>2. CASE List \/ Cancel BY <2>1, <2>2, LookIs DEF List, Cancel, ItemOps
  <2>3. CASE Retry BY <2>1, <2>3 DEF Retry, ItemOps
  <2> QED BY <2>2, <2>3
<1> QED BY <1>1, <1>2 DEF Quietly

LEMMA CheckQuietly ==
    ASSUME Ind, Ind', NEW t \in Requests,
           ClaimItems(t) \/ ClaimNames(t) \/ UploadedCheck(t)
             \/ (ClaimMint(t) /\ Turned(t) /\ UNCHANGED <<ledger, hist>>)
    PROVE  Quietly
<1>1. Quiet BY DEF ClaimItems, ClaimNames, UploadedCheck, ClaimMint, Quiet, ledger
<1>0. Floor BY DEF Ind
<1>2. Carried
  <2>1. ASSUME NEW r, Becomes(t, r), r.op \notin ItemOps PROVE Carried
    BY <1>0, <2>1, BecomesNoCall
  <2>2. CASE ClaimItems(t) \/ ClaimNames(t) BY <2>1, <2>2 DEF ClaimItems, ClaimNames, ItemOps
  <2>3. CASE ClaimMint(t) /\ Turned(t) BY <1>0, <2>3, EndsNoCall DEF Turned
  <2>4. CASE UploadedCheck(t) /\ Ends(t) BY <1>0, <2>4, EndsNoCall
  <2>5. CASE UploadedCheck(t) /\ ~Ends(t)
    <3>1. /\ Becomes(t, [req[t] EXCEPT !.op = "publish"]) /\ req[t].row # Nobody
          /\ req[t].op = "uploaded"
      BY <2>5 DEF UploadedCheck
    <3>2. req[t] \in ItemAsks BY <3>1, ItemAsked DEF ItemOps
    <3>3. req'[t] = [req[t] EXCEPT !.op = "publish"] /\ \A u \in Requests : u # t => req'[u] = req[u]
      BY <1>0, <3>1 DEF Floor, AllAsked, Becomes
    <3>4. /\ req'[t].op = "publish" /\ req'[t].who = req[t].who /\ req'[t].i = req[t].i
          /\ req'[t].row = req[t].row
      BY <3>2, <3>3 DEF ItemAsks, Ask
    <3> QED BY <3>1, <3>3, <3>4 DEF Carried, ItemOps
  <2> QED BY <2>2, <2>3, <2>4, <2>5
<1> QED BY <1>1, <1>2 DEF Quietly

\* The routes' writes end their request, or go on with a stop or a claim.
LEMMA WritesCarry ==
    ASSUME Floor, NEW t \in Requests,
           \/ ClaimCheck(t) \/ ClaimMint(t) \/ StatusWrite(t) \/ ResultWrite(t) \/ UploadedWrite(t)
           \/ BeatWrite(t) \/ ReleaseWrite(t) \/ ListSweep(t) \/ CancelCheck(t) \/ CancelFlag(t)
           \/ CancelEnd(t) \/ RetryWrite(t)
    PROVE  Carried
<1>1. CASE Ends(t) BY <1>1, EndsNoCall
<1>2. ASSUME NEW r, Becomes(t, r), r.op \notin ItemOps PROVE Carried
  BY <1>2, BecomesNoCall
<1>3. CASE ClaimCheck(t) BY <1>1, <1>2, <1>3 DEF ClaimCheck, Turned, ItemOps
<1>4. CASE ClaimMint(t) BY <1>1, <1>4 DEF ClaimMint, Turned
<1>5. CASE CancelCheck(t)
  <2>1. Ends(t) \/ Becomes(t, [op |-> "cancel", who |-> Nobody, step |-> "flag",
                        end |-> batch'.state = "queued" \/ batch'.lease # "live"])
    BY <1>5 DEF CancelCheck
  <2> QED BY <1>1, <1>2, <2>1 DEF ItemOps
<1>6. CASE CancelFlag(t)
  <2>1. req[t] \in Marks BY <1>6 DEF CancelFlag, Floor, AllAsked, Asked
  <2>2. [req[t] EXCEPT !.step = "end"].op = "cancel" BY <2>1 DEF Marks
  <2> QED BY <1>1, <1>2, <1>6, <2>2 DEF CancelFlag, ItemOps
<1> QED BY <1>1, <1>3, <1>4, <1>5, <1>6
    DEF StatusWrite, ResultWrite, UploadedWrite, BeatWrite, ReleaseWrite, ListSweep, CancelEnd,
        RetryWrite

Archive == Ledger /\ Unmoved

LEMMA QuietArchive == ASSUME Ind, Archive, Quietly PROVE Archive'
<1>1. Grows BY DEF Quietly, Quiet, Grows, Ind, Ghosts
<1>2. Ledger' /\ Sticks BY <1>1, LedgerStays DEF Archive, Quietly, Quiet
<1> QED BY <1>2, UnmovedStays DEF Archive, Quietly

\* A claim that mints while a request is outstanding counts as overtaking it.
LEMMA MintArchive ==
    ASSUME Ind, Ind', Archive, NEW t \in Requests, ClaimMint(t),
           ~(Turned(t) /\ UNCHANGED <<ledger, hist>>)
    PROVE  Archive'
<1>1. Ledger' /\ (hist'.late = Items \/ ~Outstanding) BY MintLedger DEF Archive
<1>2. Ends(t) BY DEF ClaimMint, Turned
<1>3. \A u \in Requests : req'[u].op \in ItemOps => req'[u] = req[u]
  BY <1>2 DEF Ind, Floor, AllAsked, Ends, Becomes, Free, ItemOps
<1>4. Unmoved'
  <2> SUFFICES ASSUME NEW u \in Requests, req'[u].op \in ItemOps
               PROVE  /\ req'[u].row # Nobody => req'[u].row[1] = req'[u].i
                      /\ req'[u].op = "publish" => req'[u].row # Nobody
                      /\ req'[u].i \in hist'.late
    BY DEF Unmoved
  <2>1. req'[u] = req[u] /\ req[u].op \in ItemOps BY <1>3
  <2>2. req[u].i \in Items BY <2>1, ItemAsked
  <2>3. Outstanding BY <2>1 DEF Outstanding, ItemOps
  <2> QED BY <1>1, <2>1, <2>2, <2>3 DEF Archive, Unmoved
<1> QED BY <1>1, <1>4 DEF Archive

LEMMA ServesArchive ==
    ASSUME Ind, Ind', Archive, NEW t \in Requests, Serves(t) PROVE Archive'
<1>0. Floor BY DEF Ind
<1>1. CASE ClaimMint(t) /\ ~(Turned(t) /\ UNCHANGED <<ledger, hist>>) BY <1>1, MintArchive
<1>2. CASE \/ ClaimItems(t) \/ ClaimNames(t) \/ UploadedCheck(t)
           \/ (ClaimMint(t) /\ Turned(t) /\ UNCHANGED <<ledger, hist>>)
  BY <1>2, CheckQuietly, QuietArchive
<1>3. ASSUME Carried, Ledger', Sticks PROVE Archive' BY <1>3, UnmovedStays DEF Archive
<1>4. CASE ClaimCheck(t) \/ ListSweep(t) \/ CancelCheck(t)
  BY <1>0, <1>3, <1>4, WritesCarry, SweepsLedger DEF Archive
<1>5. CASE StatusWrite(t) BY <1>0, <1>3, <1>5, WritesCarry, StatusWriteLedger DEF Archive
<1>6. CASE ResultWrite(t) BY <1>0, <1>3, <1>6, WritesCarry, ResultWriteLedger DEF Archive
<1>7. CASE UploadedWrite(t) BY <1>0, <1>3, <1>7, WritesCarry, UploadedWriteLedger DEF Archive
<1>8. CASE BeatWrite(t) BY <1>0, <1>3, <1>8, WritesCarry, BeatWriteLedger DEF Archive
<1>9. CASE ReleaseWrite(t) BY <1>0, <1>3, <1>9, WritesCarry, ReleaseWriteLedger DEF Archive
<1>10. CASE CancelFlag(t) BY <1>0, <1>3, <1>10, WritesCarry, CancelFlagLedger DEF Archive
<1>11. CASE CancelEnd(t) BY <1>0, <1>3, <1>11, WritesCarry, CancelEndLedger DEF Archive
<1>12. CASE RetryWrite(t) BY <1>0, <1>3, <1>12, WritesCarry, RetryWriteLedger DEF Archive
<1> QED BY <1>1, <1>2, <1>4, <1>5, <1>6, <1>7, <1>8, <1>9, <1>10, <1>11, <1>12 DEF Serves

LEMMA NextArchive == Ind /\ Archive /\ [Next]_vars /\ Ind' => Archive'
<1> SUFFICES ASSUME Ind, Archive, [Next]_vars, Ind' PROVE Archive' OBVIOUS
<1>1. CASE UNCHANGED vars
  <2>1. Quietly BY <1>1 DEF vars, Quietly, Quiet, Carried
  <2> QED BY <2>1, QuietArchive
<1>2. ASSUME NEW t \in Requests, Serves(t) PROVE Archive' BY <1>2, ServesArchive
<1>3. ASSUME NEW m \in Machines, Works(m) PROVE Archive' BY <1>3, WorksKeeps, QuietArchive
<1>4. ASSUME NEW m \in Machines,
             GivesUpWaiting(m) \/ Beat(m) \/ StopHere(m) \/ Restart(m) \/ Claims(m)
      PROVE  Archive'
  BY <1>4, IdlersQuietly, QuietArchive
<1>5. ASSUME NEW m \in Machines, NEW i \in Items, Land(m, i) PROVE Archive'
  BY <1>5, LandQuietly, QuietArchive
<1>6. CASE List \/ Cancel \/ Retry BY <1>6, BrowserQuietly, QuietArchive
<1>7. CASE Lapse
  <2>1. Carried BY <1>7 DEF Lapse, Carried
  <2> QED BY <1>7, <2>1, LapseLedger, UnmovedStays DEF Archive
<1> QED BY <1>1, <1>2, <1>3, <1>4, <1>5, <1>6, <1>7 DEF Next

LEMMA InitArchive == Init => Archive
<1> SUFFICES ASSUME Init PROVE Archive OBVIOUS
<1>1. \A s \in Slots : rows[s].status = "absent" BY DEF Init, NoRow
<1>2. \A i \in Items : item[i].state = "pending" BY DEF Init
<1>3. batch.state = "queued" BY DEF Init
<1>4. Sole BY <1>1 DEF Sole
<1>5. Fresh BY <1>3 DEF Fresh, Over, BatchTerminal
<1>6. InArchive BY <1>1, <1>2 DEF InArchive, Published
<1>7. NoGhosts BY <1>3 DEF NoGhosts
<1>8. Unmoved BY DEF Init, Unmoved, Free, ItemOps
<1> QED BY <1>4, <1>5, <1>6, <1>7, <1>8 DEF Archive, Ledger

-----------------------------------------------------------------------------
(* The machine's checkpoint *)

\* What a machine's checkpoint says of the clip it is at.
Posture(rec) ==
    /\ \A i \in rec.staged : rec.stage[i] \in {"uploading", "live"}
    /\ ~rec.has \/ rec.unclaimed => rec.step = "idle" /\ ~rec.queue
    /\ rec.step = "describe" => rec.stage[rec.doing] = "describing"
Desk(rec) ==
    /\ Posture(rec)
    /\ rec.step = "hand" /\ rec.at = Nobody =>
          rec.stage[rec.doing] \notin {"uploading", "live", "cancelled"}

\* What it says while it waits for r.
Tells(rec, r) ==
    /\ r.op = "claim" <=> ~rec.has \/ rec.unclaimed
    /\ r.op = "status" => rec.stage[r.i] = r.arg /\ r.i \notin rec.staged
    /\ r.op = "result" => rec.stage[r.i] = "describing"
    /\ r.op \in {"uploaded", "publish"} => rec.stage[r.i] = "uploading"
    /\ rec.step = "fail" => r.op = "status"

Checkpoint == \A m \in Machines :
    Desk(ing[m]) /\ (ing[m].at # Nobody => Tells(ing[m], req[ing[m].at]))

LEMMA ForgotDesk ==
    ASSUME NEW m \in Machines, ing[m] \in Local
    PROVE  /\ Desk(Forgot(m)) /\ Forgot(m).staged = {} /\ ~Forgot(m).unclaimed
           /\ \A i \in Items : Forgot(m).stage[i] = "pending"
BY DEF Forgot, Local, Desk, Posture

\* What a machine makes of an answer leaves its checkpoint in order.
LEMMA AfterDesk ==
    ASSUME Ind, NEW m \in Machines, NEW rec \in Local, NEW r, NEW answer \in {"ok", "no", "lost"},
           r.op \in {"claim", "release"} \cup ItemOps,
           r.op \in ItemOps => r \in ItemAsks /\ rec.doing = r.i,
           Posture(rec), Tells(rec, r),
           NEW q \in After(m, rec, r, answer)
    PROVE  /\ Desk(q)
           /\ r.op = "release" => ~q.has
           /\ r.op # "release" =>
                /\ q.has = rec.has /\ q.unclaimed = rec.unclaimed
                /\ \A i \in Items : q.stage[i] = rec.stage[i] \/
                     (r.op \in {"uploaded", "publish"} /\ i = r.i /\ answer = "ok" /\ r.arg /\ q.stage[i] = "live")
                /\ \A i \in q.staged : i \in rec.staged \/
                     (r.op \in {"uploaded", "publish"} /\ i = r.i /\ answer = "ok" /\ ~r.arg)
<1>0. r.op \in ItemOps => r.i \in Items BY DEF ItemAsks, Ask
<1>1. CASE r.op = "status"
  <2>1. q \in {Then(rec, "describe"), Done(rec)} BY <1>1 DEF After
  <2>2. r.arg = "describing" => rec.stage[rec.doing] = "describing" BY <1>1 DEF Tells, ItemOps
  <2>3. q = Then(rec, "describe") => r.arg = "describing" \/ q = Done(rec) BY <1>1 DEF After
  <2>4. q = Then(rec, "describe") /\ r.arg = "describing" => Desk(q)
    BY <1>1, <2>2 DEF Desk, Posture, Then, Local, Tells
  <2>5. q = Done(rec) => Desk(q) BY DEF Desk, Posture, Done, Local
  <2> QED BY <1>1, <2>1, <2>3, <2>4, <2>5 DEF Then, Done, Local
<1>2. CASE r.op = "result"
  <2>1. q \in {Then(rec, "hand"), [Then(rec, "fail") EXCEPT !.told = IF answer = "no" THEN @ \ {r.i} ELSE @]}
    BY <1>2 DEF After
  <2>2. rec.stage[rec.doing] = "describing" BY <1>2 DEF Tells, ItemOps
  <2>3. rec.has /\ ~rec.unclaimed BY <1>2 DEF Tells, Local
  <2>4. q.stage = rec.stage /\ q.staged = rec.staged /\ q.has = rec.has /\ q.unclaimed = rec.unclaimed
        /\ q.doing = rec.doing /\ q.step \in {"hand", "fail"}
    BY <2>1 DEF Then, Local
  <2>5. Desk(q) BY <2>2, <2>3, <2>4 DEF Desk, Posture
  <2> QED BY <1>2, <2>4, <2>5
<1>3. CASE r.op \in {"uploaded", "publish"}
  <2>1. q \in {Then(rec, "fail"), [Done(rec) EXCEPT !.refused = @ \cup {r.i}], Done(rec)}
        \/ (answer = "ok" /\ r.arg /\ q = [Done(rec) EXCEPT !.stage[r.i] = "live"])
        \/ (answer = "ok" /\ ~r.arg /\ q = [Done(rec) EXCEPT !.staged = @ \cup {r.i}])
    BY <1>3 DEF After
  <2>2. rec.stage[r.i] = "uploading" /\ r.i \in Items /\ rec.has /\ ~rec.unclaimed
    BY <1>0, <1>3 DEF Tells, ItemOps, Local
  <2>3. CASE q \in {Then(rec, "fail"), [Done(rec) EXCEPT !.refused = @ \cup {r.i}], Done(rec)}
    <3>1. /\ q.stage = rec.stage /\ q.staged = rec.staged /\ q.has = rec.has
          /\ q.unclaimed = rec.unclaimed /\ q.step \in {"idle", "fail"}
      BY <2>3 DEF Then, Done, Local
    <3> QED BY <1>3, <2>2, <3>1 DEF Desk, Posture
  <2>4. CASE answer = "ok" /\ r.arg /\ q = [Done(rec) EXCEPT !.stage[r.i] = "live"]
    <3>1. /\ q.stage = [rec.stage EXCEPT ![r.i] = "live"] /\ q.staged = rec.staged /\ q.has = rec.has
          /\ q.unclaimed = rec.unclaimed /\ q.step = "idle" /\ rec.stage \in [Items -> ItemStates]
          /\ rec.staged \subseteq Items
      BY <2>4 DEF Done, Local
    <3>2. /\ q.stage[r.i] = "live"
          /\ \A k \in Items : k # r.i => q.stage[k] = rec.stage[k]
      BY <2>2, <3>1
    <3>3. Desk(q) BY <2>2, <3>1, <3>2 DEF Desk, Posture
    <3> QED BY <1>3, <2>4, <3>1, <3>2, <3>3
  <2>5. CASE answer = "ok" /\ ~r.arg /\ q = [Done(rec) EXCEPT !.staged = @ \cup {r.i}]
    <3>1. /\ q.stage = rec.stage /\ q.staged = rec.staged \cup {r.i} /\ q.has = rec.has
          /\ q.unclaimed = rec.unclaimed /\ q.step = "idle"
      BY <2>5 DEF Done, Local
    <3> QED BY <1>3, <2>2, <2>5, <3>1 DEF Desk, Posture
  <2> QED BY <2>1, <2>3, <2>4, <2>5
<1>4. CASE r.op = "release"
  <2>1. q = Forgot(m) BY <1>4 DEF After
  <2>2. ing[m] \in Local BY DEF Ind, Floor
  <2>3. Desk(Forgot(m)) /\ ~Forgot(m).has BY <2>2, ForgotIs, ForgotDesk
  <2> QED BY <1>4, <2>1, <2>3
<1>5. CASE r.op = "claim"
  <2>1. q = Done(rec) BY <1>5 DEF After
  <2> QED BY <1>5, <2>1 DEF Done, Local, Desk, Posture
<1> QED BY <1>1, <1>2, <1>3, <1>4, <1>5 DEF ItemOps

-----------------------------------------------------------------------------
(* The worker, once more *)

\* A call that suits the checkpoint rec, which m is left at.
Fits(rec, op, i, arg) ==
    /\ rec.has /\ ~rec.unclaimed /\ Posture(rec)
    /\ op = "status" => rec.stage[i] = arg /\ i \notin rec.staged
    /\ op = "result" => rec.stage[i] = "describing"
    /\ op = "uploaded" => rec.stage[i] = "uploading"
    /\ op = "release" => \A k \in Items : rec.stage[k] \in {"live", "cancelled", "failed"}
    /\ rec.step = "fail" => op = "status"
Advances(old, rec, op, i) ==
    /\ rec.has = old.has /\ rec.unclaimed = old.unclaimed /\ rec.staged = old.staged
    /\ \A k \in Items : rec.stage[k] = old.stage[k] \/ (op = "status" /\ k = i)
Calls(m, rec, op, i, arg) ==
    /\ Callable(m, rec, op, i, arg) /\ Call(m, rec, op, i, arg)
    /\ Fits(rec, op, i, arg) /\ Advances(ing[m], rec, op, i)

\* A machine goes on by itself.
Turns(m, rec) ==
    /\ ing' = [ing EXCEPT ![m] = rec] /\ UNCHANGED <<ledger, nas, req, hist>>
    /\ ing[m].at = Nobody /\ rec \in Local /\ rec.at = Nobody /\ Desk(rec)
    /\ rec.has = ing[m].has /\ rec.unclaimed = ing[m].unclaimed /\ rec.staged = ing[m].staged
    /\ \A k \in Items : rec.stage[k] = ing[m].stage[k]
                         \/ (k \in ing[m].staged /\ rec.stage[k] = "live")

Shaped(m) ==
    \/ \E rec, op, i, arg : Calls(m, rec, op, i, arg)
    \/ \E rec : Turns(m, rec)

LEMMA AtDesk ==
    ASSUME Ind, Checkpoint, NEW m \in Machines
    PROVE  /\ ing[m] \in Local /\ Busy(ing[m]) /\ Desk(ing[m]) /\ Posture(ing[m])
           /\ ing[m].at # Nobody => /\ ing[m].at \in Requests
                                    /\ Awaits(ing[m], m, req[ing[m].at])
                                    /\ Tells(ing[m], req[ing[m].at])
<1>1. ing[m] \in Local /\ Busy(ing[m]) BY AtEase
<1>2. Desk(ing[m]) /\ (ing[m].at # Nobody => Tells(ing[m], req[ing[m].at])) BY DEF Checkpoint
<1>3. ing[m].at # Nobody => ing[m].at \in Requests BY <1>1 DEF Local
<1>4. ing[m].at # Nobody => Awaits(ing[m], m, req[ing[m].at]) BY DEF Ind, Floor, Waiting
<1> QED BY <1>1, <1>2, <1>3, <1>4 DEF Desk

\* A worker that calls has its batch.
LEMMA CallHas ==
    ASSUME NEW m, NEW rec, NEW op, NEW i, NEW arg, Call(m, rec, op, i, arg)
    PROVE  ing[m].has /\ ~ing[m].unclaimed /\ ing[m].at = Nobody
BY DEF Call

LEMMA BeginShaped ==
    ASSUME Ind, Checkpoint, NEW m \in Machines, NEW i \in Items, Begin(m, i) PROVE Shaped(m)
<1> DEFINE tries == [ing[m].tries EXCEPT ![i] = @ + 1]
           rec == [ing[m] EXCEPT !.doing = i, !.tries = tries]
           stage == [ing[m].stage EXCEPT ![i] = "describing"]
           call == [rec EXCEPT !.stage = stage]
<1>1. ing[m] \in Local /\ Posture(ing[m]) BY AtDesk
<1>2. tries \in [Items -> Nat] /\ stage \in [Items -> ItemStates] BY <1>1, StatesAre DEF Local
<1>3. [ing[m] EXCEPT !.doing = i, !.tries[i] = @ + 1] = rec BY <1>1 DEF Local
<1>4. [[ing[m] EXCEPT !.doing = i, !.tries[i] = @ + 1] EXCEPT !.stage[i] = "describing"] = call
  BY <1>1 DEF Local
<1>5. \/ Call(m, call, "status", i, "describing")
      \/ /\ ing' = [ing EXCEPT ![m] = [rec EXCEPT !.step = IF i \in ing[m].told THEN "hand" ELSE "fail"]]
         /\ ing[m].at = Nobody /\ ing[m].has /\ ~ing[m].unclaimed
         /\ UNCHANGED <<ledger, nas, req, hist, left>>
  BY <1>3, <1>4 DEF Begin
<1>6. /\ ing[m].step = "idle" /\ ing[m].stage[i] \notin {"uploading", "live", "cancelled"}
  BY DEF Begin, Finished, ItemTerminal
<1>7. i \notin ing[m].staged BY <1>1, <1>6 DEF Posture
<1>8. /\ stage[i] = "describing" /\ \A k \in Items : k # i => stage[k] = ing[m].stage[k]
  BY <1>1 DEF Local
<1> HIDE DEF tries, stage
<1>9. /\ call \in Local /\ call.doing = i /\ call.stage = stage /\ call.staged = ing[m].staged
      /\ call.has = ing[m].has /\ call.unclaimed = ing[m].unclaimed /\ call.step = "idle"
  BY <1>1, <1>2, <1>6 DEF Local
<1>10. ASSUME Call(m, call, "status", i, "describing") PROVE Shaped(m)
  <2> HIDE DEF call
  <2>1. Callable(m, call, "status", i, "describing") BY <1>9 DEF Callable, Args, Busy
  <2>2. Posture(call) BY <1>1, <1>7, <1>8, <1>9, <1>10, CallHas DEF Posture, Local
  <2>3. Fits(call, "status", i, "describing") BY <1>7, <1>8, <1>9, <1>10, <2>2, CallHas DEF Fits
  <2>4. Advances(ing[m], call, "status", i) BY <1>8, <1>9 DEF Advances
  <2> QED BY <1>10, <2>1, <2>3, <2>4 DEF Shaped, Calls
<1>11. ASSUME NEW step \in {"hand", "fail"}, ing' = [ing EXCEPT ![m] = [rec EXCEPT !.step = step]],
              ing[m].at = Nobody, ing[m].has, ~ing[m].unclaimed,
              UNCHANGED <<ledger, nas, req, hist, left>>
       PROVE  Shaped(m)
  <2> DEFINE new == [rec EXCEPT !.step = step]
  <2>1. /\ new \in Local /\ new.at = Nobody /\ new.doing = i /\ new.step = step
        /\ new.has = ing[m].has /\ new.unclaimed = ing[m].unclaimed /\ new.staged = ing[m].staged
        /\ new.stage = ing[m].stage
    BY <1>1, <1>2, <1>11 DEF Local
  <2>2. ing' = [ing EXCEPT ![m] = new] BY <1>11
  <2> HIDE DEF new
  <2>3. Desk(new) BY <1>1, <1>6, <1>11, <2>1 DEF Desk, Posture
  <2>4. Turns(m, new) BY <1>11, <2>1, <2>2, <2>3 DEF Turns
  <2> QED BY <2>4 DEF Shaped
<1> QED BY <1>5, <1>10, <1>11

LEMMA DescribeShaped ==
    ASSUME Ind, Checkpoint, NEW m \in Machines, Describe(m) PROVE Shaped(m)
<1> DEFINE told == ing[m].told \cup {ing[m].doing}
           call == [ing[m] EXCEPT !.told = told]
           new == [ing[m] EXCEPT !.step = "fail"]
<1>1. /\ ing[m] \in Local /\ ing[m].doing \in Items /\ ing[m].at = Nobody /\ Posture(ing[m])
      /\ ing[m].step = "describe"
  BY AtDesk DEF Describe, Busy
<1>2. told \in SUBSET Items BY <1>1 DEF Local
<1>3. \/ Call(m, call, "result", ing[m].doing, TRUE)
      \/ ing' = [ing EXCEPT ![m] = new] /\ UNCHANGED <<ledger, nas, req, hist, left>>
  <2>1. ing' = [ing EXCEPT ![m].step = "fail"] => ing' = [ing EXCEPT ![m] = new]
    BY DEF Ind, Floor
  <2>2. [ing[m] EXCEPT !.told = @ \cup {ing[m].doing}] = call BY <1>1 DEF Local
  <2> QED BY <2>1, <2>2 DEF Describe
<1>4. ing[m].has /\ ~ing[m].unclaimed /\ ing[m].stage[ing[m].doing] = "describing"
  BY <1>1 DEF Posture, Local
<1> HIDE DEF told
<1>5. /\ call \in Local /\ call.doing = ing[m].doing /\ call.has = ing[m].has
      /\ call.unclaimed = ing[m].unclaimed /\ call.staged = ing[m].staged /\ call.stage = ing[m].stage
      /\ call.step = "describe"
  BY <1>1, <1>2 DEF Local
<1>6. /\ new \in Local /\ new.at = Nobody /\ new.doing = ing[m].doing /\ new.has = ing[m].has
      /\ new.unclaimed = ing[m].unclaimed /\ new.staged = ing[m].staged /\ new.stage = ing[m].stage
      /\ new.step = "fail"
  BY <1>1 DEF Local
<1> HIDE DEF call, new
<1>7. ASSUME Call(m, call, "result", ing[m].doing, TRUE) PROVE Shaped(m)
  <2>1. Callable(m, call, "result", ing[m].doing, TRUE) BY <1>1, <1>5 DEF Callable, Args, Busy
  <2>2. Posture(call) BY <1>1, <1>4, <1>5 DEF Posture
  <2>3. Fits(call, "result", ing[m].doing, TRUE) BY <1>4, <1>5, <2>2 DEF Fits
  <2>4. Advances(ing[m], call, "result", ing[m].doing) BY <1>5 DEF Advances
  <2> QED BY <1>7, <2>1, <2>3, <2>4 DEF Shaped, Calls
<1>8. ASSUME ing' = [ing EXCEPT ![m] = new], UNCHANGED <<ledger, nas, req, hist, left>>
      PROVE  Shaped(m)
  <2>1. Desk(new) BY <1>1, <1>4, <1>6 DEF Desk, Posture
  <2>2. Turns(m, new) BY <1>1, <1>6, <1>8, <2>1 DEF Turns
  <2> QED BY <2>2 DEF Shaped
<1> QED BY <1>3, <1>7, <1>8
LEMMA HandShaped ==
    ASSUME Ind, Checkpoint, NEW m \in Machines, Hand(m) PROVE Shaped(m)
<1> DEFINE i == ing[m].doing
           stage == [ing[m].stage EXCEPT ![i] = "uploading"]
           up == ing[m].up \cup {i}
           call == [ing[m] EXCEPT !.stage = stage, !.up = up, !.queue = TRUE]
<1>1. ing[m] \in Local /\ i \in Items /\ Desk(ing[m]) /\ ing[m].step = "hand"
  BY AtDesk DEF Hand, Busy
<1>2. stage \in [Items -> ItemStates] /\ up \in SUBSET Items BY <1>1, StatesAre DEF Local
<1>3. [ing[m] EXCEPT !.stage[i] = "uploading", !.up = @ \cup {i}, !.queue = TRUE] = call
  BY <1>1 DEF Local
<1>4. Call(m, call, "status", i, "uploading") BY <1>3 DEF Hand
<1>5. ing[m].has /\ ~ing[m].unclaimed /\ ing[m].at = Nobody BY <1>4, CallHas
<1>6. i \notin ing[m].staged BY <1>1, <1>5 DEF Desk, Posture
<1>7. stage[i] = "uploading" /\ \A k \in Items : k # i => stage[k] = ing[m].stage[k]
  BY <1>1 DEF Local
<1> HIDE DEF stage, up
<1>8. /\ call \in Local /\ call.doing = i /\ call.has = ing[m].has /\ call.step = "hand"
      /\ call.unclaimed = ing[m].unclaimed /\ call.staged = ing[m].staged /\ call.stage = stage
  BY <1>1, <1>2 DEF Local
<1> HIDE DEF call, i
<1>9. Callable(m, call, "status", i, "uploading") BY <1>1, <1>8 DEF Callable, Args, Busy
<1>10. Posture(call) BY <1>1, <1>5, <1>7, <1>8 DEF Desk, Posture, Local
<1>11. Fits(call, "status", i, "uploading") BY <1>5, <1>6, <1>7, <1>8, <1>10 DEF Fits
<1>12. Advances(ing[m], call, "status", i) BY <1>7, <1>8 DEF Advances
<1> QED BY <1>4, <1>9, <1>11, <1>12 DEF Shaped, Calls

LEMMA GiveUpShaped ==
    ASSUME Ind, Checkpoint, NEW m \in Machines, GiveUp(m) PROVE Shaped(m)
<1> DEFINE i == ing[m].doing
           stage(s) == [ing[m].stage EXCEPT ![i] = s]
           new == [ing[m] EXCEPT !.at = Nobody, !.doing = Nobody, !.step = "idle",
                                 !.stage = stage("live")]
           call == [ing[m] EXCEPT !.stage = stage("failed")]
<1>1. /\ ing[m] \in Local /\ i \in Items /\ Desk(ing[m]) /\ Posture(ing[m]) /\ ing[m].step = "fail"
      /\ ing[m].at # Nobody => Awaits(ing[m], m, req[ing[m].at]) /\ Tells(ing[m], req[ing[m].at])
  BY AtDesk DEF GiveUp, Busy
<1>2. stage("live") \in [Items -> ItemStates] /\ stage("failed") \in [Items -> ItemStates]
  BY <1>1, StatesAre DEF Local
<1>3. \/ i \in ing[m].staged /\ ing' = [ing EXCEPT ![m] = new] /\ UNCHANGED <<ledger, nas, req, hist, left>>
      \/ i \notin ing[m].staged /\ Call(m, call, "status", i, "failed")
  <2>1. [ing[m] EXCEPT !.stage[i] = "failed"] = call BY <1>1 DEF Local
  <2>2. [Done(ing[m]) EXCEPT !.stage[i] = "live"] = new BY <1>1 DEF Done, Local
  <2> QED BY <2>1, <2>2 DEF GiveUp
<1>4. \A s : stage(s)[i] = s /\ \A k \in Items : k # i => stage(s)[k] = ing[m].stage[k]
  BY <1>1 DEF Local
<1> HIDE DEF stage
<1>5. /\ new \in Local /\ new.at = Nobody /\ new.step = "idle" /\ new.has = ing[m].has
      /\ new.unclaimed = ing[m].unclaimed /\ new.staged = ing[m].staged
      /\ new.stage = stage("live")
  BY <1>1, <1>2 DEF Local
<1>6. /\ call \in Local /\ call.doing = i /\ call.has = ing[m].has /\ call.step = "fail"
      /\ call.unclaimed = ing[m].unclaimed /\ call.staged = ing[m].staged
      /\ call.stage = stage("failed")
  BY <1>1, <1>2 DEF Local
<1> HIDE DEF new, call
<1>7. ASSUME i \in ing[m].staged, ing' = [ing EXCEPT ![m] = new],
             UNCHANGED <<ledger, nas, req, hist, left>>
      PROVE  Shaped(m)
  <2>1. ing[m].at = Nobody
    <3>1. ASSUME ing[m].at # Nobody PROVE FALSE
      <4>1. req[ing[m].at].op = "status" BY <1>1, <3>1 DEF Tells
      <4>2. req[ing[m].at].i = i BY <1>1, <3>1, <4>1 DEF Awaits, ItemOps
      <4>3. i \notin ing[m].staged BY <1>1, <3>1, <4>1, <4>2 DEF Tells
      <4> QED BY <1>7, <4>3
    <3> QED BY <3>1
  <2>2. \A k \in Items : new.stage[k] = ing[m].stage[k] \/ (k \in ing[m].staged /\ new.stage[k] = "live")
    BY <1>4, <1>5, <1>7
  <2>3. ing[m].staged \subseteq Items BY <1>1 DEF Local
  <2>4. Desk(new) BY <1>1, <1>5, <2>2, <2>3 DEF Desk, Posture
  <2>5. Turns(m, new) BY <1>5, <1>7, <2>1, <2>2, <2>4 DEF Turns
  <2> QED BY <2>5 DEF Shaped
<1>8. ASSUME i \notin ing[m].staged, Call(m, call, "status", i, "failed") PROVE Shaped(m)
  <2>1. ing[m].has /\ ~ing[m].unclaimed /\ ing[m].staged \subseteq Items
    BY <1>1, <1>8, CallHas DEF Local
  <2>2. Callable(m, call, "status", i, "failed") BY <1>1, <1>6 DEF Callable, Args, Busy
  <2>3. call.stage[i] = "failed" /\ \A k \in Items : k # i => call.stage[k] = ing[m].stage[k]
    BY <1>4, <1>6
  <2>4. Posture(call) BY <1>1, <1>6, <1>8, <2>1, <2>3 DEF Posture
  <2>5. Fits(call, "status", i, "failed") BY <1>6, <1>8, <2>1, <2>3, <2>4 DEF Fits
  <2>6. Advances(ing[m], call, "status", i) BY <1>6, <2>3 DEF Advances
  <2> QED BY <1>8, <2>2, <2>5, <2>6 DEF Shaped, Calls
<1> QED BY <1>3, <1>7, <1>8

LEMMA PumpShaped ==
    ASSUME Ind, Checkpoint, NEW m \in Machines, NEW i \in Items, Pump(m, i) PROVE Shaped(m)
<1> DEFINE rec == [ing[m] EXCEPT !.doing = i]
           new == [rec EXCEPT !.step = "fail"]
<1>1. /\ ing[m] \in Local /\ ing[m].at = Nobody /\ Posture(ing[m]) /\ ing[m].step = "idle"
      /\ ing[m].stage[i] = "uploading"
  BY AtDesk DEF Pump
<1>2. \/ \E b \in BOOLEAN : Call(m, rec, "uploaded", i, b)
      \/ /\ ing' = [ing EXCEPT ![m] = new]
         /\ UNCHANGED <<ledger, nas, req, hist, left>>
  BY Zenon DEF Pump
<1>3. /\ rec \in Local /\ rec.doing = i /\ rec.has = ing[m].has /\ rec.unclaimed = ing[m].unclaimed
      /\ rec.staged = ing[m].staged /\ rec.stage = ing[m].stage /\ rec.step = "idle"
  BY <1>1 DEF Local
<1>4. /\ new \in Local /\ new.at = Nobody /\ new.doing = i /\ new.step = "fail"
      /\ new.has = ing[m].has /\ new.unclaimed = ing[m].unclaimed
      /\ new.staged = ing[m].staged /\ new.stage = ing[m].stage
  BY <1>1 DEF Local
<1> HIDE DEF rec, new
<1>5. ASSUME NEW b \in BOOLEAN, Call(m, rec, "uploaded", i, b) PROVE Shaped(m)
  <2>1. Callable(m, rec, "uploaded", i, b) BY <1>3 DEF Callable, Args, Busy
  <2>2. Posture(rec) BY <1>1, <1>3, <1>5, CallHas DEF Posture
  <2>3. Fits(rec, "uploaded", i, b) BY <1>1, <1>3, <1>5, <2>2, CallHas DEF Fits
  <2>4. Advances(ing[m], rec, "uploaded", i) BY <1>3 DEF Advances
  <2> QED BY <1>5, <2>1, <2>3, <2>4 DEF Shaped, Calls
<1>6. ASSUME ing' = [ing EXCEPT ![m] = new], UNCHANGED <<ledger, nas, req, hist, left>>
      PROVE  Shaped(m)
  <2>1. ing[m].has /\ ~ing[m].unclaimed BY <1>1 DEF Pump, Posture
  <2>2. Desk(new) BY <1>1, <1>4, <2>1 DEF Desk, Posture
  <2>3. Turns(m, new) BY <1>1, <1>4, <1>6, <2>2 DEF Turns
  <2> QED BY <2>3 DEF Shaped
<1> QED BY <1>2, <1>5, <1>6

LEMMA MaybeFinishShaped ==
    ASSUME Ind, Checkpoint, NEW m \in Machines, MaybeFinish(m) PROVE Shaped(m)
<1> DEFINE i == CHOOSE i \in Items : TRUE
           arg == IF \A k \in Items : ing[m].stage[k] = "failed" THEN "failed" ELSE "done"
<1>1. Call(m, ing[m], "release", i, arg) BY DEF MaybeFinish
<1>2. arg \in {"done", "failed"} OBVIOUS
<1> HIDE DEF i, arg
<1>3. Callable(m, ing[m], "release", i, arg) BY <1>2, AtEase DEF Callable, Args
<1>4. \A k \in Items : ing[m].stage[k] \in {"live", "cancelled", "failed"}
  BY DEF MaybeFinish, Finished, Spent, ItemTerminal
<1>5. Posture(ing[m]) /\ ing[m].step = "idle" BY AtDesk DEF MaybeFinish
<1>6. Fits(ing[m], "release", i, arg) BY <1>1, <1>4, <1>5, CallHas DEF Fits
<1>7. Advances(ing[m], ing[m], "release", i) BY DEF Advances
<1> QED BY <1>1, <1>3, <1>6, <1>7 DEF Shaped, Calls

LEMMA PutDownShaped == ASSUME Ind, Checkpoint, NEW m \in Machines, PutDown(m) PROVE Shaped(m)
<1> DEFINE rec == Done(ing[m])
<1>1. ing[m] \in Local /\ Desk(ing[m]) /\ Posture(ing[m]) BY AtDesk
<1>2. /\ ing' = [ing EXCEPT ![m] = rec] /\ UNCHANGED <<ledger, nas, req, hist>>
      /\ ing[m].at = Nobody /\ ing[m].step = "describe"
  BY DEF PutDown
<1>3. rec \in Local /\ rec.at = Nobody /\ rec.step = "idle" BY AtEase, DoneIs
<1>4. /\ rec.has = ing[m].has /\ rec.unclaimed = ing[m].unclaimed
      /\ rec.staged = ing[m].staged /\ rec.stage = ing[m].stage
  BY <1>1 DEF Done, Local
<1> HIDE DEF rec
<1>5. Desk(rec) BY <1>1, <1>2, <1>3, <1>4 DEF Desk, Posture
<1>6. Turns(m, rec) BY <1>2, <1>3, <1>4, <1>5 DEF Turns
<1> QED BY <1>6 DEF Shaped

LEMMA WorksShaped == ASSUME Ind, Checkpoint, NEW m \in Machines, Works(m) PROVE Shaped(m)
BY BeginShaped, DescribeShaped, PutDownShaped, HandShaped, GiveUpShaped, PumpShaped,
   MaybeFinishShaped
DEF Works, Crunches, Pumps

-----------------------------------------------------------------------------
(* The checkpoint is kept *)

\* Whoever does not wait for t still waits for what it did.
LEMMA OthersTell ==
    ASSUME Ind, Checkpoint, NEW t \in Requests, NEW r, Becomes(t, r), NEW n \in Machines,
           ing[n].at # Nobody, ing[n].at # t
    PROVE  Tells(ing[n], req'[ing[n].at])
<1>1. ing[n].at \in Requests /\ Tells(ing[n], req[ing[n].at]) BY AtDesk
<1>2. req'[ing[n].at] = req[ing[n].at] BY <1>1 DEF Ind, Floor, AllAsked, Becomes
<1> QED BY <1>1, <1>2

LEMMA Told ==
    ASSUME Ind, NEW t \in Requests, NEW r, Becomes(t, r)
    PROVE  req'[t] = r /\ \A u \in Requests : u # t => req'[u] = req[u]
BY DEF Ind, Floor, AllAsked, Becomes

\* One machine goes on, to rec, and one request at most changes.
LEMMA DeskMoves ==
    ASSUME Ind, Checkpoint, NEW m \in Machines, NEW rec \in Local, ing' = [ing EXCEPT ![m] = rec],
           Desk(rec), rec.at # Nobody => Tells(rec, req'[rec.at]),
           \/ UNCHANGED req
           \/ \E t \in Requests : \E r : Becomes(t, r) /\ \A n \in Machines : n # m => ing[n].at # t
    PROVE  Checkpoint'
<1>1. ing'[m] = rec /\ \A n \in Machines : n # m => ing'[n] = ing[n] BY DEF Ind, Floor
<1>2. ASSUME NEW n \in Machines, n # m, ing[n].at # Nobody PROVE Tells(ing[n], req'[ing[n].at])
  BY <1>2, AtDesk, OthersTell
<1>3. \A n \in Machines : Desk(ing[n]) BY AtDesk
<1> QED BY <1>1, <1>2, <1>3 DEF Checkpoint

\* Only requests change, and whoever waits for one is told the same.
LEMMA DeskStays ==
    ASSUME Ind, Checkpoint, UNCHANGED ing,
           \/ UNCHANGED req
           \/ \E t \in Requests : \E r : /\ Becomes(t, r)
                                         /\ \A n \in Machines : ing[n].at = t => Tells(ing[n], r)
    PROVE  Checkpoint'
<1>1. \A n \in Machines : Desk(ing[n]) BY AtDesk
<1>2. CASE UNCHANGED req BY <1>1, <1>2, AtDesk DEF Checkpoint
<1>3. ASSUME NEW t \in Requests, NEW r, Becomes(t, r),
             \A n \in Machines : ing[n].at = t => Tells(ing[n], r)
      PROVE  Checkpoint'
  <2>1. req'[t] = r BY <1>3, Told
  <2>2. \A n \in Machines : ing[n].at # Nobody => Tells(ing[n], req'[ing[n].at])
    BY <1>3, <2>1, OthersTell
  <2> QED BY <1>1, <2>2 DEF Checkpoint
<1> QED BY <1>2, <1>3

LEMMA NobodyAt ==
    ASSUME Ind, NEW t \in Requests,
           \/ req[t] = Free \/ req[t].op \in {"beat", "list", "cancel", "retry"}
           \/ req[t].op = "release" /\ req[t].arg = "cancelled"
    PROVE  \A n \in Machines : ing[n].at # t
BY RequestAsked, OneWaits DEF Awaits, ItemOps

\* What m asks for is what it waits for.
LEMMA FitsTells ==
    ASSUME Ind, NEW m, NEW rec, NEW op, NEW i, NEW arg, Callable(m, rec, op, i, arg),
           Fits(rec, op, i, arg)
    PROVE  /\ Tells(rec, Request(op, m, i, arg, rec)) /\ Request(op, m, i, arg, rec).arg = arg
           /\ op # "release" => Request(op, m, i, arg, rec).was = item[i].state
<1> DEFINE r == Request(op, m, i, arg, rec)
<1>1. r.op = op /\ r.arg = arg /\ (op # "release" => r.i = i /\ r.was = item[i].state)
  BY DEF Request
<1>2. op \in {"status", "result", "uploaded", "release"} BY DEF Callable
<1>3. rec.has /\ ~rec.unclaimed /\ (rec.step = "fail" => op = "status") BY DEF Fits
<1>4. /\ op = "status" => rec.stage[i] = arg /\ i \notin rec.staged
      /\ op = "result" => rec.stage[i] = "describing"
      /\ op = "uploaded" => rec.stage[i] = "uploading"
  BY DEF Fits
<1> HIDE DEF r
<1>5. Tells(rec, r) BY <1>1, <1>2, <1>3, <1>4 DEF Tells
<1> QED BY <1>1, <1>5 DEF r

LEMMA WaitsDesk ==
    ASSUME NEW rec \in Local, NEW t \in Requests, Posture(rec)
    PROVE  /\ [rec EXCEPT !.at = t] \in Local /\ Desk([rec EXCEPT !.at = t])
           /\ [rec EXCEPT !.at = t].at = t
           /\ [rec EXCEPT !.at = t].has = rec.has /\ [rec EXCEPT !.at = t].unclaimed = rec.unclaimed
           /\ [rec EXCEPT !.at = t].stage = rec.stage /\ [rec EXCEPT !.at = t].staged = rec.staged
           /\ \A r : Tells([rec EXCEPT !.at = t], r) <=> Tells(rec, r)
<1> DEFINE w == [rec EXCEPT !.at = t]
<1>1. /\ w \in Local /\ w.at = t /\ w.has = rec.has /\ w.unclaimed = rec.unclaimed /\ w.stage = rec.stage
      /\ w.staged = rec.staged /\ w.step = rec.step /\ w.queue = rec.queue /\ w.doing = rec.doing
  BY DEF Local
<1>2. t # Nobody BY NobodyIs
<1> HIDE DEF w
<1>3. Desk(w) BY <1>1, <1>2 DEF Desk, Posture
<1>4. \A r : Tells(w, r) <=> Tells(rec, r) BY <1>1 DEF Tells
<1> QED BY <1>1, <1>3, <1>4 DEF w

LEMMA CallsCheckpoint ==
    ASSUME Ind, Checkpoint, NEW m \in Machines, NEW rec, NEW op, NEW i, NEW arg,
           Calls(m, rec, op, i, arg)
    PROVE  Checkpoint'
<1> DEFINE r == Request(op, m, i, arg, rec)
<1>1. /\ Callable(m, rec, op, i, arg) /\ Call(m, rec, op, i, arg) /\ Fits(rec, op, i, arg)
      /\ rec \in Local /\ Posture(rec)
  BY DEF Calls, Callable, Fits
<1>2. Tells(rec, r) BY <1>1, FitsTells
<1>3. Awaits(rec, m, r) /\ Asked(r) BY <1>1, RequestIs
<1> HIDE DEF r
<1>4. ASSUME NEW t \in Requests, req[t] = Free, Becomes(t, r),
             ing' = [ing EXCEPT ![m] = [rec EXCEPT !.at = t]]
      PROVE  Checkpoint'
  <2> DEFINE w == [rec EXCEPT !.at = t]
  <2>1. w \in Local /\ Desk(w) /\ w.at = t /\ Tells(w, r) BY <1>1, <1>2, WaitsDesk
  <2>2. \A n \in Machines : ing[n].at # t BY <1>4, NobodyAt
  <2>3. req'[t] = r BY <1>4, Told
  <2>4. ing' = [ing EXCEPT ![m] = w] BY <1>4
  <2> HIDE DEF w
  <2> QED BY <1>4, <2>1, <2>2, <2>3, <2>4, DeskMoves
<1>5. ASSUME UNCHANGED req, ing' = [ing EXCEPT ![m] = Forgot(m)] PROVE Checkpoint'
  <2>1. Forgot(m) \in Local /\ Forgot(m).at = Nobody /\ Desk(Forgot(m))
    BY AtDesk, ForgotIs, ForgotDesk
  <2> QED BY <1>5, <2>1, DeskMoves
<1>6. ASSUME UNCHANGED req, NEW q \in After(m, rec, r, "lost"), ing' = [ing EXCEPT ![m] = q]
      PROVE  Checkpoint'
  <2>1. r.op \in {"claim", "release"} \cup ItemOps /\ (r.op \in ItemOps => r \in ItemAsks /\ rec.doing = r.i)
    BY <1>3 DEF Awaits, Asked
  <2>2. q \in Local /\ q.at = Nobody BY <1>1, <1>6, <2>1, AfterIs
  <2>3. Desk(q) BY <1>1, <1>2, <1>6, <2>1, AfterDesk
  <2> QED BY <1>6, <2>2, <2>3, DeskMoves
<1> QED BY <1>1, <1>4, <1>5, <1>6 DEF Call, r

LEMMA WorksCheckpoint == ASSUME Ind, Checkpoint, NEW m \in Machines, Works(m) PROVE Checkpoint'
<1>1. Shaped(m) BY WorksShaped
<1>2. ASSUME NEW rec, Turns(m, rec) PROVE Checkpoint'
  BY <1>2, DeskMoves DEF Turns
<1> QED BY <1>1, <1>2, CallsCheckpoint DEF Shaped

LEMMA GivesUpCheckpoint ==
    ASSUME Ind, Checkpoint, NEW m \in Machines, GivesUpWaiting(m) PROVE Checkpoint'
<1> DEFINE r == req[ing[m].at]
<1>1. /\ ing[m] \in Local /\ ing[m].at \in Requests /\ Awaits(ing[m], m, r) /\ Tells(ing[m], r)
      /\ Posture(ing[m])
  BY AtDesk DEF GivesUpWaiting
<1>2. /\ r.op \in {"claim", "release"} \cup ItemOps
      /\ r.op \in ItemOps => r \in ItemAsks /\ ing[m].doing = r.i
  BY <1>1 DEF Awaits, Ind, Floor, AllAsked, Asked
<1>3. PICK q \in After(m, ing[m], r, "lost") : ing' = [ing EXCEPT ![m] = q]
  BY DEF GivesUpWaiting
<1> HIDE DEF r
<1>4. q \in Local /\ q.at = Nobody BY <1>1, <1>2, AfterIs
<1>5. Desk(q) BY <1>1, <1>2, AfterDesk
<1>6. UNCHANGED req BY DEF GivesUpWaiting
<1> QED BY <1>3, <1>4, <1>5, <1>6, DeskMoves

LEMMA AnsweredCheckpoint ==
    ASSUME Ind, Checkpoint, NEW t \in Requests, NEW answer \in {"ok", "no"}, Ends(t),
           Answers(t, answer), req[t].op \in ItemOps \cup {"release"}
    PROVE  Checkpoint'
<1> DEFINE r == req[t]
           m == r.who
<1>1. Becomes(t, Free) /\ m \in Machines
  BY RequestAsked DEF Ends, Asked, ItemAsks, Ask
<1>2. \A n \in Machines : ing[n].at = t => n = m BY RequestAsked, OneWaits
<1>3. CASE ing[m].at # t BY <1>1, <1>2, <1>3, DeskStays DEF Answers
<1>4. CASE ing[m].at = t
  <2>1. PICK q \in After(m, ing[m], r, answer) : ing' = [ing EXCEPT ![m] = q]
    BY <1>4 DEF Answers
  <2>2. /\ ing[m] \in Local /\ Awaits(ing[m], m, r) /\ Tells(ing[m], r) /\ Posture(ing[m])
    BY <1>1, <1>4, AtDesk, NobodyIs
  <2>3. r.op \in ItemOps => r \in ItemAsks /\ ing[m].doing = r.i
    BY <2>2, RequestAsked DEF Awaits, Asked
  <2> HIDE DEF r, m
  <2>4. q \in Local /\ q.at = Nobody BY <1>1, <2>1, <2>2, <2>3, AfterIs DEF r
  <2>5. Desk(q) BY <1>1, <2>1, <2>2, <2>3, AfterDesk DEF r
  <2> QED BY <1>1, <1>2, <2>1, <2>4, <2>5, DeskMoves
<1> QED BY <1>3, <1>4

LEMMA IdlersCheckpoint ==
    ASSUME Ind, Checkpoint, NEW m \in Machines, Beat(m) \/ StopHere(m) \/ Restart(m) \/ Claims(m)
    PROVE  Checkpoint'
<1>1. /\ ing[m] \in Local /\ Posture(ing[m])
      /\ Forgot(m) \in Local /\ Forgot(m).at = Nobody /\ Desk(Forgot(m))
  BY AtDesk, ForgotIs, ForgotDesk
<1>2. ASSUME NEW t \in Requests, NEW r, req[t] = Free, Becomes(t, r), UNCHANGED ing PROVE Checkpoint'
  BY <1>2, NobodyAt, DeskStays
<1>3. ASSUME ing' = [ing EXCEPT ![m] = Forgot(m)],
             UNCHANGED req \/ \E t \in Requests : \E r : req[t] = Free /\ Becomes(t, r)
      PROVE  Checkpoint'
  BY <1>1, <1>3, NobodyAt, DeskMoves
<1>4. CASE Beat(m) BY <1>2, <1>3, <1>4 DEF Beat
<1>5. CASE StopHere(m)
  <2>1. /\ ing' = [ing EXCEPT ![m] = Forgot(m)]
        /\ \/ UNCHANGED req
           \/ \E t \in Requests : req[t] = Free /\ Becomes(t, [op |-> "release", who |-> m, arg |-> "cancelled"])
    BY <1>5 DEF StopHere
  <2>2. CASE UNCHANGED req BY <1>3, <2>1, <2>2
  <2>3. ASSUME NEW t \in Requests, req[t] = Free,
               Becomes(t, [op |-> "release", who |-> m, arg |-> "cancelled"])
        PROVE  Checkpoint'
    <3> DEFINE r == [op |-> "release", who |-> m, arg |-> "cancelled"]
    <3>1. Becomes(t, r) BY <2>3
    <3> HIDE DEF r
    <3> QED BY <1>3, <2>1, <2>3, <3>1
  <2> QED BY <2>1, <2>2, <2>3
<1>6. CASE Restart(m)
  <2> DEFINE rec == [Done(ing[m]) EXCEPT !.unclaimed = TRUE, !.up = {}, !.queue = FALSE]
  <2>1. ing' = [ing EXCEPT ![m] = rec] /\ UNCHANGED req BY <1>6 DEF Restart
  <2>2. /\ rec \in Local /\ rec.at = Nobody /\ rec.step = "idle" /\ ~rec.queue
        /\ rec.stage = ing[m].stage /\ rec.staged = ing[m].staged
    BY <1>1 DEF Done, Local
  <2> HIDE DEF rec
  <2>3. Desk(rec) BY <1>1, <2>2 DEF Desk, Posture
  <2> QED BY <2>1, <2>2, <2>3, DeskMoves
<1>7. CASE Claims(m)
  <2>1. PICK t \in Requests : /\ req[t] = Free /\ Becomes(t, Look("claim", m))
                              /\ ing' = [ing EXCEPT ![m].at = t]
    BY <1>7 DEF Claims
  <2> DEFINE r == Look("claim", m)
             rec == [ing[m] EXCEPT !.at = t]
  <2>2. r.op = "claim" /\ req'[t] = r BY <2>1, LookIs, Told
  <2>3. ~ing[m].has \/ ing[m].unclaimed BY <1>7 DEF Claims
  <2>4. rec \in Local /\ Desk(rec) /\ rec.at = t /\ (Tells(rec, r) <=> Tells(ing[m], r))
    BY <1>1, WaitsDesk
  <2>5. Tells(ing[m], r) BY <1>1, <2>2, <2>3 DEF Tells, Posture
  <2>6. ing' = [ing EXCEPT ![m] = rec] BY <2>1 DEF Ind, Floor
  <2>7. \A n \in Machines : ing[n].at # t BY <2>1, NobodyAt
  <2>8. Becomes(t, r) BY <2>1
  <2> HIDE DEF rec, r
  <2>9. Tells(rec, req'[rec.at]) BY <2>2, <2>4, <2>5
  <2> QED BY <2>4, <2>6, <2>7, <2>8, <2>9, DeskMoves
<1> QED BY <1>4, <1>5, <1>6, <1>7

LEMMA TurnedCheckpoint ==
    ASSUME Ind, Checkpoint, NEW t \in Requests, Turned(t), req[t].op = "claim" PROVE Checkpoint'
<1> DEFINE m == req[t].who
<1>1. m \in Machines /\ Becomes(t, Free) BY RequestAsked DEF Asked, Turned, Ends
<1>2. \A n \in Machines : ing[n].at = t => n = m BY RequestAsked, OneWaits
<1>3. IF ing[m].at = t THEN Refused(m) ELSE UNCHANGED ing BY DEF Turned
<1> HIDE DEF m
<1>4. CASE ing[m].at # t BY <1>1, <1>2, <1>3, <1>4, DeskStays
<1>5. CASE ing[m].at = t
  <2>1. ing[m] \in Local /\ Posture(ing[m]) BY <1>1, AtDesk
  <2>2. CASE ing[m].has
    <3>1. Forgot(m) \in Local /\ Forgot(m).at = Nobody /\ Desk(Forgot(m))
      BY <1>1, <2>1, ForgotIs, ForgotDesk
    <3> QED BY <1>1, <1>2, <1>3, <1>5, <2>2, <3>1, DeskMoves DEF Refused
  <2>3. CASE ~ing[m].has
    <3> DEFINE rec == [ing[m] EXCEPT !.at = Nobody]
    <3>1. /\ rec \in Local /\ rec.at = Nobody /\ rec.step = ing[m].step /\ rec.doing = ing[m].doing
          /\ rec.has = ing[m].has /\ rec.queue = ing[m].queue /\ rec.stage = ing[m].stage
          /\ rec.staged = ing[m].staged
      BY <2>1 DEF Local
    <3>2. ing' = [ing EXCEPT ![m] = rec] BY <1>1, <1>3, <1>5, <2>3 DEF Refused, Ind, Floor
    <3> HIDE DEF rec
    <3>3. Desk(rec) BY <2>1, <2>3, <3>1 DEF Desk, Posture
    <3> QED BY <1>1, <1>2, <3>1, <3>2, <3>3, DeskMoves
  <2> QED BY <2>2, <2>3
<1> QED BY <1>4, <1>5

\* A machine that is given its batch is at rest.
LEMMA TakesDesk ==
    ASSUME Ind, Checkpoint, NEW m \in Machines, ing[m].step = "idle", item' \in [Items -> ItemRows]
    PROVE  /\ Desk(Takes(m, ing[m])) /\ Takes(m, ing[m]).has
           /\ ing[m].has => /\ Takes(m, ing[m]).stage = ing[m].stage
                            /\ Takes(m, ing[m]).staged = ing[m].staged
           /\ ~ing[m].has => /\ Takes(m, ing[m]).staged = {}
                             /\ \A i \in Items : Takes(m, ing[m]).stage[i] = item'[i].state
<1>0. ing[m] \in Local /\ Posture(ing[m]) BY AtDesk
<1>1. CASE ing[m].has
  <2> DEFINE up == {i \in Items : ing[m].stage[i] = "uploading"}
             queue == up # {}
             rec == [ing[m] EXCEPT !.unclaimed = FALSE, !.at = Nobody, !.up = up, !.queue = queue]
  <2>1. Takes(m, ing[m]) = rec BY <1>1 DEF Takes
  <2> HIDE DEF up, queue
  <2>2. /\ rec.stage = ing[m].stage /\ rec.staged = ing[m].staged /\ rec.step = "idle"
        /\ rec.has = ing[m].has /\ ~rec.unclaimed
    BY <1>0 DEF Local
  <2> HIDE DEF rec
  <2>3. Desk(rec) BY <1>0, <1>1, <2>2 DEF Desk, Posture
  <2> QED BY <1>1, <2>1, <2>2, <2>3
<1>2. CASE ~ing[m].has
  <2> DEFINE stage == [i \in Items |-> item'[i].state]
             tries == [i \in Items |-> item'[i].tries]
             row == [i \in Items |-> item'[i].row]
             rec == [Forgot(m) EXCEPT !.has = TRUE, !.stage = stage, !.tries = tries, !.row = row]
  <2>1. Takes(m, ing[m]) = rec BY <1>2 DEF Takes, Manifest
  <2>2. Forgot(m) \in Local /\ Forgot(m).step = "idle" /\ Forgot(m).staged = {} /\ ~Forgot(m).unclaimed
    BY <1>0, ForgotIs, ForgotDesk
  <2>3. \A i \in Items : stage[i] = item'[i].state OBVIOUS
  <2> HIDE DEF stage, tries, row, Forgot
  <2>4. /\ rec.stage = stage /\ rec.staged = {} /\ rec.step = "idle" /\ rec.has /\ ~rec.unclaimed
    BY <2>2 DEF Local
  <2> HIDE DEF rec
  <2>5. Desk(rec) BY <2>4 DEF Desk, Posture
  <2> QED BY <1>2, <2>1, <2>3, <2>4, <2>5
<1> QED BY <1>1, <1>2

\* A claim goes on to its next step.
LEMMA GoesOnCheckpoint ==
    ASSUME Ind, Checkpoint, NEW t \in Requests, NEW r, req[t].op = "claim", r.op = "claim",
           Becomes(t, r), UNCHANGED ing
    PROVE  Checkpoint'
<1>1. ASSUME NEW n \in Machines, ing[n].at = t PROVE Tells(ing[n], r)
  <2>1. Tells(ing[n], req[t]) BY <1>1, AtDesk, NobodyIs
  <2> QED BY <2>1 DEF Tells
<1> QED BY <1>1, DeskStays

LEMMA ClaimsCheckpoint ==
    ASSUME Ind, Checkpoint, NEW t \in Requests, ClaimCheck(t) \/ ClaimItems(t) \/ ClaimNames(t)
    PROVE  Checkpoint'
<1>1. req[t].op = "claim" BY DEF ClaimCheck, ClaimItems, ClaimNames
<1>2. ASSUME NEW r, r.op = "claim", Becomes(t, r), UNCHANGED ing PROVE Checkpoint'
  BY <1>1, <1>2, GoesOnCheckpoint
<1>3. CASE ClaimCheck(t) BY <1>1, <1>2, <1>3, TurnedCheckpoint DEF ClaimCheck
<1>4. CASE ClaimItems(t) BY <1>2, <1>4 DEF ClaimItems
<1>5. CASE ClaimNames(t) BY <1>2, <1>5 DEF ClaimNames
<1> QED BY <1>3, <1>4, <1>5

\* What a claim that goes through changes: the machine that waits for it, if one
\* does, has had no batch to work on.
LEMMA MintStep ==
    ASSUME Ind, Checkpoint, NEW t \in Requests, ClaimMint(t),
           ~(Turned(t) /\ UNCHANGED <<ledger, hist>>)
    PROVE  LET m == req[t].who IN
           /\ m \in Machines /\ Ends(t) /\ item' \in [Items -> ItemRows]
           /\ \A i \in Items : item'[i].state = item[i].state
           /\ batch'.machine = m /\ batch'.state \in {"claimed", "running"}
           /\ \A n \in Machines : ing[n].at = t => n = m
           /\ IF ing[m].at = t
              THEN ing' = [ing EXCEPT ![m] = Takes(m, ing[m])] /\ Takes(m, ing[m]) \in Local
                   /\ Takes(m, ing[m]).at = Nobody
                   /\ (~ing[m].has \/ ing[m].unclaimed) /\ ing[m].step = "idle"
              ELSE UNCHANGED ing
           /\ hist'.late = (IF Outstanding \/ ing[m].at # t THEN Items ELSE hist.late)
           /\ hist'.apart = (IF ing[m].has /\ batch.machine # m THEN Items ELSE hist.apart)
<1> DEFINE r == req[t]
           m == r.who
           new == Minted(r.mint, r.taken)
<1>1. /\ r.op = "claim" /\ r.step = "mint"
      /\ \A i \in r.mint : \E k \in Suffixes : <<i, k>> \notin r.taken
      /\ rows' = [s \in Slots |-> IF s \in new THEN [NoRow EXCEPT !.status = "ingesting"]
                                  ELSE rows[s]]
      /\ item' = [i \in Items |-> IF i \in r.mint
                    THEN [item[i] EXCEPT !.row = Named(i, r.taken)] ELSE item[i]]
      /\ batch' = [batch EXCEPT !.state = IF @ = "running" THEN @ ELSE "claimed",
                                !.machine = m, !.lease = "live"]
      /\ Ends(t)
      /\ ing' = IF ing[m].at = t THEN [ing EXCEPT ![m] = Takes(m, @)] ELSE ing
      /\ hist' = [hist EXCEPT !.twice = @ \/ \E i \in r.mint : item[i].row # Nobody,
                              !.apart = IF ing[m].has /\ batch.machine # m THEN Items ELSE @,
                              !.late = IF Outstanding \/ ing[m].at # t THEN Items ELSE @]
  BY DEF ClaimMint
<1>2. m \in Machines /\ r.mint \in SUBSET Items /\ r.taken \in SUBSET Slots
  BY <1>1, RequestAsked DEF Asked
<1>3. Books /\ Floor /\ hist \in Ghosts BY RequestAsked
<1>4. item' \in [Items -> ItemRows] /\ \A i \in Items : item'[i].state = item[i].state
  BY <1>1, <1>2, <1>3, MintsIs
<1>5. batch'.machine = m /\ batch'.state \in {"claimed", "running"}
  BY <1>1, <1>3 DEF Books, Batches
<1>6. \A n \in Machines : ing[n].at = t => n = m BY <1>3, OneWaits
<1>7. /\ hist'.late = (IF Outstanding \/ ing[m].at # t THEN Items ELSE hist.late)
      /\ hist'.apart = (IF ing[m].has /\ batch.machine # m THEN Items ELSE hist.apart)
  <2> DEFINE late == IF Outstanding \/ ing[m].at # t THEN Items ELSE hist.late
             twice == hist.twice \/ \E i \in r.mint : item[i].row # Nobody
             apart == IF ing[m].has /\ batch.machine # m THEN Items ELSE hist.apart
  <2>1. hist' = [hist EXCEPT !.twice = twice, !.apart = apart, !.late = late]
    BY <1>1, <1>3 DEF Ghosts
  <2> HIDE DEF late, apart, twice
  <2>2. hist'.late = late /\ hist'.apart = apart BY <1>3, <2>1 DEF Ghosts
  <2> QED BY <2>2 DEF late, apart
<1>8. CASE ing[m].at = t
  <2>1. ing[m] \in Local /\ Busy(ing[m]) /\ Tells(ing[m], r) BY <1>2, <1>8, AtDesk, NobodyIs
  <2>2. Takes(m, ing[m]) \in Local /\ Takes(m, ing[m]).at = Nobody BY <1>2, <1>4, <2>1, TakesIs
  <2>3. [ing EXCEPT ![m] = Takes(m, @)] = [ing EXCEPT ![m] = Takes(m, ing[m])] BY Zenon
  <2>4. ~ing[m].has \/ ing[m].unclaimed BY <1>1, <2>1 DEF Tells
  <2>5. ing[m].step = "idle" BY <1>2, <2>4, AtDesk DEF Posture
  <2>6. ing' = [ing EXCEPT ![m] = Takes(m, ing[m])] BY <1>1, <1>8, <2>3
  <2> HIDE DEF m, r
  <2> QED BY <1>1, <1>2, <1>4, <1>5, <1>6, <1>7, <1>8, <2>2, <2>4, <2>5, <2>6 DEF m, r
<1>9. CASE ing[m].at # t
  <2>1. UNCHANGED ing BY <1>1, <1>9
  <2> QED BY <1>1, <1>2, <1>4, <1>5, <1>6, <1>7, <1>9, <2>1
<1> QED BY <1>8, <1>9

LEMMA MintCheckpoint == ASSUME Ind, Checkpoint, NEW t \in Requests, ClaimMint(t) PROVE Checkpoint'
<1>1. CASE Turned(t) /\ UNCHANGED <<ledger, hist>> BY <1>1, TurnedCheckpoint DEF ClaimMint
<1>2. CASE ~(Turned(t) /\ UNCHANGED <<ledger, hist>>)
  <2> DEFINE m == req[t].who
             rec == Takes(m, ing[m])
  <2>1. /\ m \in Machines /\ Becomes(t, Free) /\ item' \in [Items -> ItemRows]
        /\ \A n \in Machines : ing[n].at = t => n = m
        /\ IF ing[m].at = t
           THEN ing' = [ing EXCEPT ![m] = rec] /\ rec \in Local /\ rec.at = Nobody
                /\ ing[m].step = "idle"
           ELSE UNCHANGED ing
    BY <1>2, MintStep DEF Ends
  <2>2. ing[m].at = t => Desk(rec) BY <2>1, TakesDesk
  <2> HIDE DEF m, rec
  <2>3. CASE ing[m].at = t BY <2>1, <2>2, <2>3, DeskMoves
  <2>4. CASE ing[m].at # t BY <2>1, <2>4, DeskStays
  <2> QED BY <2>3, <2>4
<1> QED BY <1>1, <1>2

LEMMA UploadedCheckCheckpoint ==
    ASSUME Ind, Checkpoint, NEW t \in Requests, UploadedCheck(t) PROVE Checkpoint'
<1> DEFINE r == [req[t] EXCEPT !.op = "publish"]
<1>1. req[t].op = "uploaded" BY DEF UploadedCheck
<1>2. req[t] \in ItemAsks BY <1>1, ItemAsked DEF ItemOps
<1>3. CASE Becomes(t, r) /\ UNCHANGED ing
  <2>1. r.op = "publish" /\ r.i = req[t].i BY <1>2 DEF ItemAsks, Ask
  <2> HIDE DEF r
  <2>2. ASSUME NEW n \in Machines, ing[n].at = t PROVE Tells(ing[n], r)
    <3>1. Tells(ing[n], req[t]) BY <2>2, AtDesk, NobodyIs
    <3> QED BY <1>1, <2>1, <3>1 DEF Tells
  <2> QED BY <1>3, <2>2, DeskStays
<1>4. CASE Ends(t) /\ Answers(t, "no") BY <1>1, <1>4, AnsweredCheckpoint DEF ItemOps
<1> QED BY <1>3, <1>4 DEF UploadedCheck

\* Nobody waits for the browser's requests, a beat or a stop.
LEMMA UnheededCheckpoint ==
    ASSUME Ind, Checkpoint, NEW t \in Requests,
           \/ BeatWrite(t) \/ ListSweep(t) \/ CancelCheck(t) \/ CancelFlag(t) \/ CancelEnd(t)
           \/ RetryWrite(t) \/ (ReleaseWrite(t) /\ req[t].arg = "cancelled")
    PROVE  Checkpoint'
<1>0. UNCHANGED ing
  BY Zenon DEF BeatWrite, ListSweep, CancelCheck, CancelFlag, CancelEnd, RetryWrite, ReleaseWrite
<1>1. \/ req[t].op \in {"beat", "list", "cancel", "retry"}
      \/ req[t].op = "release" /\ req[t].arg = "cancelled"
  BY Zenon DEF BeatWrite, ListSweep, CancelCheck, CancelFlag, CancelEnd, RetryWrite, ReleaseWrite
<1>2. \A n \in Machines : ing[n].at # t BY <1>1, NobodyAt
<1>3. \E r : Becomes(t, r)
  <2>1. CASE CancelCheck(t) BY <2>1 DEF CancelCheck, Ends
  <2>2. CASE CancelFlag(t) BY <2>2 DEF CancelFlag, Ends
  <2> QED BY <2>1, <2>2 DEF BeatWrite, ListSweep, CancelEnd, RetryWrite, ReleaseWrite, Ends
<1>4. PICK r : Becomes(t, r) BY <1>3
<1> QED BY <1>0, <1>2, <1>4, DeskStays

LEMMA ServesCheckpoint ==
    ASSUME Ind, Checkpoint, NEW t \in Requests, Serves(t) PROVE Checkpoint'
<1>1. ASSUME NEW answer \in {"ok", "no"}, Ends(t), Answers(t, answer),
             req[t].op \in ItemOps \cup {"release"}
      PROVE  Checkpoint'
  BY <1>1, AnsweredCheckpoint
<1>2. CASE StatusWrite(t) BY <1>1, <1>2 DEF StatusWrite, ItemOps
<1>3. CASE ResultWrite(t) BY <1>1, <1>3 DEF ResultWrite, ItemOps
<1>4. CASE UploadedWrite(t) BY <1>1, <1>4 DEF UploadedWrite, ItemOps
<1>5. CASE ReleaseWrite(t) /\ req[t].arg # "cancelled" BY <1>1, <1>5 DEF ReleaseWrite
<1> QED BY <1>2, <1>3, <1>4, <1>5, ClaimsCheckpoint, MintCheckpoint, UploadedCheckCheckpoint,
    UnheededCheckpoint DEF Serves

LEMMA BrowserCheckpoint ==
    ASSUME Ind, Checkpoint, List \/ Cancel \/ Retry \/ Lapse PROVE Checkpoint'
<1>1. UNCHANGED ing BY DEF List, Cancel, Retry, Lapse
<1>2. UNCHANGED req \/ \E t \in Requests : \E r : req[t] = Free /\ Becomes(t, r)
  BY DEF List, Cancel, Retry, Lapse
<1> QED BY <1>1, <1>2, NobodyAt, DeskStays

LEMMA NextCheckpoint == Ind /\ Checkpoint /\ [Next]_vars => Checkpoint'
<1> SUFFICES ASSUME Ind, Checkpoint, [Next]_vars PROVE Checkpoint' OBVIOUS
<1>1. CASE UNCHANGED vars BY <1>1, DeskStays DEF vars
<1>2. ASSUME NEW m \in Machines,
             \/ Works(m) \/ GivesUpWaiting(m) \/ Beat(m) \/ StopHere(m) \/ Restart(m) \/ Claims(m)
      PROVE  Checkpoint'
  BY <1>2, WorksCheckpoint, GivesUpCheckpoint, IdlersCheckpoint
<1>3. ASSUME NEW m \in Machines, NEW i \in Items, Land(m, i) PROVE Checkpoint'
  BY <1>3, DeskStays DEF Land
<1> QED BY <1>1, <1>2, <1>3, ServesCheckpoint, BrowserCheckpoint DEF Next

LEMMA InitCheckpoint == Init => Checkpoint
<1> SUFFICES ASSUME Init, NEW m \in Machines PROVE Desk(ing[m]) /\ ing[m].at = Nobody
  BY DEF Checkpoint
<1>1. ing[m] = [has |-> FALSE, unclaimed |-> FALSE, stage |-> [i \in Items |-> "pending"],
                tries |-> [i \in Items |-> 0], row |-> [i \in Items |-> Nobody],
                told |-> {}, up |-> {}, staged |-> {}, refused |-> {}, queue |-> FALSE,
                doing |-> Nobody, step |-> "idle", at |-> Nobody]
  BY DEF Init
<1> QED BY <1>1 DEF Desk, Posture

-----------------------------------------------------------------------------
(* Checkpoint and ledger *)

\* Nothing more is to be done about clip i.
Settled(i) == item[i].state \in {"live", "cancelled", "failed", "proxies_live"}

\* That clip i failed, and that the batch is over.
Fails(r, i) == r.op = "status" /\ r.arg = "failed" /\ r.i = i
Quits(r) == r.op = "release" /\ r.arg # "cancelled"
Reports(r, i) == Fails(r, i) \/ Quits(r)
\* A machine that waits for t, or has no batch to work on.
Away(rec, t) == rec.at = t \/ ~rec.has \/ rec.unclaimed

\* A machine reports one thing at a time, and waits for the answer.
Awaited(i) == \A t \in Requests : Reports(req[t], i) => Away(ing[req[t].who], t)
\* What it takes for finished is settled in the ledger; a failure, or it is being
\* reported.
Known(i) == \A m \in Machines : ing[m].has /\ batch.machine = m =>
    /\ i \in ing[m].staged \/ ing[m].stage[i] \in ItemTerminal => Settled(i)
    /\ ing[m].stage[i] = "failed" =>
          Settled(i) \/ \E t \in Requests : Fails(req[t], i) /\ req[t].who = m
\* A failure that will be refused is one of a clip that is settled.
Firm(i) == \A t \in Requests :
    Fails(req[t], i) /\ req[t].was \in ItemTerminal /\ ing[req[t].who].has
      /\ batch.machine = req[t].who => Settled(i)
\* So is every clip of a batch that its holder calls over.
Closing(i) == \A t \in Requests :
    Quits(req[t]) /\ batch.machine = req[t].who /\ LeaseLive => Settled(i)
Whole(i) == batch.state = "done" => item[i].state \in ItemTerminal

Sure(i) == Awaited(i) /\ Known(i) /\ Firm(i) /\ Closing(i) /\ Whole(i)
Accord == \A i \in Items : i \in hist.late \cup hist.apart \/ Sure(i)

\* The steps that keep a clip sure, by what they do to requests, machines, ledger.
KeepsWords(i) == \A t \in Requests : Reports(req'[t], i) => req'[t] = req[t]
KeepsSaid(i) == \A t \in Requests : Fails(req[t], i) =>
    \/ req'[t] = req[t]
    \/ Settled(i)' \/ ~(ing'[req[t].who].has /\ batch.machine = req[t].who)
KeepsCallers(i) == \A t \in Requests : Reports(req[t], i) /\ req'[t] = req[t] =>
    (Away(ing[req[t].who], t) => Away(ing'[req[t].who], t))
KeepsDesk(rec, new, i) == new.has =>
    /\ rec.has
    /\ i \in new.staged \/ new.stage[i] \in ItemTerminal =>
         i \in rec.staged \/ rec.stage[i] \in ItemTerminal \/ Settled(i)'
    /\ new.stage[i] = "failed" => rec.stage[i] = "failed"
KeepsDesks(i) == \A m \in Machines : KeepsDesk(ing[m], ing'[m], i)
KeepsBook(i) ==
    /\ batch'.machine = batch.machine /\ (batch'.lease = "live" => batch.lease = "live")
    /\ Settled(i) => Settled(i)'
    /\ Whole(i) => Whole(i)'

LEMMA ReporterIs ==
    ASSUME Ind, NEW t \in Requests, NEW i, Reports(req[t], i) PROVE req[t].who \in Machines
BY RequestAsked DEF Reports, Fails, Quits, Asked, ItemOps, ItemAsks, Ask

LEMMA SureKept ==
    ASSUME Ind, NEW i \in Items, Sure(i), KeepsWords(i), KeepsSaid(i), KeepsCallers(i),
           KeepsDesks(i), KeepsBook(i)
    PROVE  Sure(i)'
<1>1. /\ batch'.machine = batch.machine /\ (batch'.lease = "live" => batch.lease = "live")
      /\ Settled(i) => Settled(i)'
  BY DEF KeepsBook
<1>2. \A t \in Requests : Reports(req'[t], i) => req'[t] = req[t] /\ req[t].who \in Machines
  BY ReporterIs DEF KeepsWords
<1>3. Awaited(i)'
  <2> SUFFICES ASSUME NEW t \in Requests, Reports(req'[t], i) PROVE Away(ing'[req'[t].who], t)
    BY DEF Awaited
  <2>1. req'[t] = req[t] BY <1>2
  <2>2. Away(ing[req[t].who], t) BY <2>1 DEF Sure, Awaited
  <2> QED BY <2>1, <2>2 DEF KeepsCallers
<1>4. Known(i)'
  <2> SUFFICES ASSUME NEW m \in Machines, ing'[m].has, batch'.machine = m
               PROVE  /\ i \in ing'[m].staged \/ ing'[m].stage[i] \in ItemTerminal => Settled(i)'
                      /\ ing'[m].stage[i] = "failed" =>
                           Settled(i)' \/ \E t \in Requests : Fails(req'[t], i) /\ req'[t].who = m
    BY DEF Known
  <2>1. KeepsDesk(ing[m], ing'[m], i) BY DEF KeepsDesks
  <2>2. /\ i \in ing[m].staged \/ ing[m].stage[i] \in ItemTerminal => Settled(i)
        /\ ing[m].stage[i] = "failed" =>
             Settled(i) \/ \E t \in Requests : Fails(req[t], i) /\ req[t].who = m
    BY <1>1, <2>1 DEF Sure, Known, KeepsDesk
  <2>3. ASSUME NEW t \in Requests, Fails(req[t], i), req[t].who = m
        PROVE  Settled(i)' \/ (Fails(req'[t], i) /\ req'[t].who = m)
    BY <1>1, <2>3 DEF KeepsSaid
  <2> QED BY <1>1, <2>1, <2>2, <2>3 DEF KeepsDesk
<1>5. Firm(i)'
  <2> SUFFICES ASSUME NEW t \in Requests, Fails(req'[t], i), req'[t].was \in ItemTerminal,
                      ing'[req'[t].who].has, batch'.machine = req'[t].who
               PROVE  Settled(i)'
    BY DEF Firm
  <2>1. req'[t] = req[t] /\ req[t].who \in Machines BY <1>2 DEF Reports
  <2>2. ing[req[t].who].has BY <2>1 DEF KeepsDesks, KeepsDesk
  <2> QED BY <1>1, <2>1, <2>2 DEF Sure, Firm
<1>6. Closing(i)'
  <2> SUFFICES ASSUME NEW t \in Requests, Quits(req'[t]), batch'.machine = req'[t].who,
                      batch'.lease = "live"
               PROVE  Settled(i)'
    BY DEF Closing, LeaseLive
  <2>1. req'[t] = req[t] BY <1>2 DEF Reports
  <2> QED BY <1>1, <2>1 DEF Sure, Closing, LeaseLive
<1>7. Whole(i)' BY DEF Sure, KeepsBook
<1> QED BY <1>3, <1>4, <1>5, <1>6, <1>7 DEF Sure

\* A request that reports nothing is posted, goes on or ends.
LEMMA WordsKept ==
    ASSUME Ind, NEW i \in Items, NEW t \in Requests, NEW r, Becomes(t, r), ~Reports(r, i),
           Fails(req[t], i) => Settled(i)' \/ ~(ing'[req[t].who].has /\ batch.machine = req[t].who)
    PROVE  KeepsWords(i) /\ KeepsSaid(i)
BY Told DEF KeepsWords, KeepsSaid

LEMMA SilenceKept ==
    ASSUME NEW i \in Items, UNCHANGED req PROVE KeepsWords(i) /\ KeepsSaid(i)
BY DEF KeepsWords, KeepsSaid

LEMMA DesksStay ==
    ASSUME NEW i \in Items, UNCHANGED ing PROVE KeepsCallers(i) /\ KeepsDesks(i)
BY DEF KeepsCallers, KeepsDesks, KeepsDesk

LEMMA DesksMove ==
    ASSUME Ind, NEW i \in Items, NEW m \in Machines, NEW rec, ing' = [ing EXCEPT ![m] = rec],
           KeepsDesk(ing[m], rec, i),
           \A t \in Requests : Reports(req[t], i) /\ req'[t] = req[t] /\ req[t].who = m =>
                                 (Away(ing[m], t) => Away(rec, t))
    PROVE  KeepsCallers(i) /\ KeepsDesks(i)
<1>1. ing'[m] = rec /\ \A n \in Machines : n # m => ing'[n] = ing[n] BY DEF Ind, Floor
<1>2. KeepsDesks(i) BY <1>1 DEF KeepsDesks, KeepsDesk
<1>3. KeepsCallers(i)
  <2> SUFFICES ASSUME NEW t \in Requests, Reports(req[t], i), req'[t] = req[t],
                      Away(ing[req[t].who], t)
               PROVE  Away(ing'[req[t].who], t)
    BY DEF KeepsCallers
  <2>1. req[t].who \in Machines BY ReporterIs
  <2> QED BY <1>1, <2>1
<1> QED BY <1>2, <1>3

LEMMA DesksForget ==
    ASSUME Ind, NEW i \in Items, NEW m \in Machines, ing' = [ing EXCEPT ![m] = Forgot(m)]
    PROVE  KeepsCallers(i) /\ KeepsDesks(i)
<1>1. ~Forgot(m).has BY AtEase, ForgotIs
<1> QED BY <1>1, DesksMove DEF KeepsDesk, Away

LEMMA BookStays == ASSUME NEW i \in Items, UNCHANGED <<batch, item>> PROVE KeepsBook(i)
BY DEF KeepsBook, Settled, Whole

\* A machine that is free to call has nothing else to report on the clip.
LEMMA NoOther ==
    ASSUME NEW m \in Machines, NEW i \in Items, Awaited(i), ing[m].has, ~ing[m].unclaimed,
           NEW t \in Requests, ing[m].at # t, req[t].who = m
    PROVE  ~Reports(req[t], i)
BY DEF Awaited, Away

\* What came apart or was overtaken stays so.
Outgrows == hist.late \subseteq hist'.late /\ hist.apart \subseteq hist'.apart

LEMMA AccordBy ==
    ASSUME Accord, Outgrows,
           \A i \in Items : i \notin hist'.late \cup hist'.apart /\ Sure(i) => Sure(i)'
    PROVE  Accord'
BY DEF Accord, Outgrows

\* What a machine makes of an answer it will not get, or of a refusal.
LEMMA AfterKeeps ==
    ASSUME Ind, Checkpoint, NEW i \in Items, NEW m \in Machines, NEW rec \in Local, NEW r,
           NEW answer \in {"ok", "no", "lost"}, r.op \in {"claim", "release"} \cup ItemOps,
           r.op \in ItemOps => r \in ItemAsks /\ rec.doing = r.i, Posture(rec), Tells(rec, r),
           NEW q \in After(m, rec, r, answer),
           answer = "ok" /\ r.op \in {"uploaded", "publish"} /\ r.i = i => Settled(i)'
    PROVE  KeepsDesk(rec, q, i) /\ (q.has => rec.has /\ q.unclaimed = rec.unclaimed /\ r.op # "release")
<1>1. /\ r.op = "release" => ~q.has
      /\ r.op # "release" =>
           /\ q.has = rec.has /\ q.unclaimed = rec.unclaimed
           /\ q.stage[i] = rec.stage[i] \/
                (r.op \in {"uploaded", "publish"} /\ i = r.i /\ answer = "ok" /\ r.arg /\ q.stage[i] = "live")
           /\ i \in q.staged => i \in rec.staged \/
                (r.op \in {"uploaded", "publish"} /\ i = r.i /\ answer = "ok" /\ ~r.arg)
  BY AfterDesk
<1> QED BY <1>1 DEF KeepsDesk

\* A call that m may make leaves what it says of its clips in order.
LEMMA CallsAccord ==
    ASSUME Ind, Checkpoint, Accord, Outgrows, NEW m \in Machines, NEW rec, NEW op, NEW k, NEW arg,
           Calls(m, rec, op, k, arg)
    PROVE  Accord'
<1> DEFINE r == Request(op, m, k, arg, rec)
<1> SUFFICES ASSUME NEW i \in Items, i \notin hist'.late \cup hist'.apart, Sure(i) PROVE Sure(i)'
  BY AccordBy
<1>1. /\ Callable(m, rec, op, k, arg) /\ Call(m, rec, op, k, arg) /\ Fits(rec, op, k, arg)
      /\ rec \in Local /\ Posture(rec) /\ Advances(ing[m], rec, op, k)
      /\ op \in {"status", "result", "uploaded", "release"} /\ (op = "release" => arg # "cancelled")
  BY DEF Calls, Callable, Fits
<1>2. ing[m].has /\ ~ing[m].unclaimed /\ ing[m].at = Nobody /\ UNCHANGED <<batch, item>>
  BY <1>1 DEF Call, ledger
<1>3. Tells(rec, r) /\ r.arg = arg /\ (op # "release" => r.was = item[i].state \/ k # i)
  BY <1>1, FitsTells
<1>4. /\ Awaits(rec, m, r) /\ Asked(r) /\ r.op = op /\ r.who = m
      /\ op # "release" => r \in ItemAsks /\ r.i = k
  BY <1>1, RequestIs
<1>5. KeepsBook(i) BY <1>2, BookStays
<1>6. KeepsDesk(ing[m], rec, i) \/ (op = "status" /\ k = i /\ arg = "failed")
  <2>1. rec.has = ing[m].has /\ rec.staged = ing[m].staged
        /\ (rec.stage[i] = ing[m].stage[i] \/ (op = "status" /\ i = k))
    BY <1>1 DEF Advances
  <2>2. op = "status" /\ k = i => rec.stage[i] = arg
                                        /\ i \notin rec.staged /\ arg \in {"describing", "uploading", "failed"}
    BY <1>1 DEF Fits, Callable, Args
  <2> QED BY <2>1, <2>2 DEF KeepsDesk, ItemTerminal
<1>7. \A t \in Requests : req[t].who = m => ~Reports(req[t], i)
  BY <1>2, NoOther, NobodyIs DEF Sure
<1> HIDE DEF r
<1>8. ASSUME NEW t \in Requests, req[t] = Free, Becomes(t, r), ing' = [ing EXCEPT ![m] = [rec EXCEPT !.at = t]]
      PROVE  Sure(i)'
  <2> DEFINE w == [rec EXCEPT !.at = t]
  <2>1. /\ ing'[m] = w /\ \A n \in Machines : n # m => ing'[n] = ing[n]
    BY <1>8 DEF Ind, Floor
  <2>2. w.at = t /\ w.has = rec.has /\ w.unclaimed = rec.unclaimed /\ w.stage = rec.stage /\ w.staged = rec.staged
    BY <1>1, WaitsDesk
  <2>3. req'[t] = r /\ \A u \in Requests : u # t => req'[u] = req[u] BY <1>8, Told
  <2>4. ~Reports(req[t], i) BY <1>8 DEF Reports, Fails, Quits, Free
  <2>5. ing' = [ing EXCEPT ![m] = w] BY <1>8
  <2> HIDE DEF w
  <2>6. CASE ~Reports(r, i)
    <3>1. KeepsDesk(ing[m], rec, i) BY <1>3, <1>4, <1>6, <2>6 DEF Reports, Fails
    <3>2. KeepsDesk(ing[m], w, i) BY <2>2, <3>1 DEF KeepsDesk
    <3>3. KeepsCallers(i) /\ KeepsDesks(i) BY <1>7, <2>5, <3>2, DesksMove
    <3>4. KeepsWords(i) /\ KeepsSaid(i)
      BY <1>8, <2>4, <2>6, WordsKept DEF Reports
    <3> QED BY <1>5, <3>3, <3>4, SureKept
  <2>7. CASE Reports(r, i)
    <3>1. \A u \in Requests : Reports(req[u], i) => u # t /\ req'[u] = req[u] /\ req[u].who # m
          /\ req[u].who \in Machines
      BY <1>7, <2>3, <2>4, ReporterIs
    <3>2. \A u \in Requests : Reports(req'[u], i) => u = t \/ (Reports(req[u], i) /\ req'[u] = req[u])
      BY <2>3
    <3>3. Settled(i)' <=> Settled(i) BY <1>2 DEF Settled
    <3>4. Awaited(i)'
      <4> SUFFICES ASSUME NEW u \in Requests, Reports(req'[u], i) PROVE Away(ing'[req'[u].who], u)
        BY DEF Awaited
      <4>1. CASE u = t BY <1>4, <2>1, <2>2, <2>3, <4>1 DEF Away
      <4>2. CASE u # t
        <5>1. Reports(req[u], i) /\ req'[u] = req[u] BY <3>2, <4>2
        <5> QED BY <2>1, <3>1, <5>1 DEF Sure, Awaited
      <4> QED BY <4>1, <4>2
    <3>5. Known(i)'
      <4> SUFFICES ASSUME NEW n \in Machines, ing'[n].has, batch'.machine = n
                   PROVE  /\ i \in ing'[n].staged \/ ing'[n].stage[i] \in ItemTerminal => Settled(i)'
                          /\ ing'[n].stage[i] = "failed" =>
                               Settled(i)' \/ \E u \in Requests : Fails(req'[u], i) /\ req'[u].who = n
        BY DEF Known
      <4>1. ing[n].has /\ batch.machine = n
        BY <1>1, <1>2, <2>1, <2>2 DEF Advances
      <4>2. /\ i \in ing[n].staged \/ ing[n].stage[i] \in ItemTerminal => Settled(i)
            /\ ing[n].stage[i] = "failed" =>
                 Settled(i) \/ \E u \in Requests : Fails(req[u], i) /\ req[u].who = n
        BY <4>1 DEF Sure, Known
      <4>3. CASE n # m
        <5>1. \A u \in Requests : Fails(req[u], i) /\ req[u].who = n => Fails(req'[u], i) /\ req'[u].who = n
          BY <3>1 DEF Reports
        <5> QED BY <2>1, <3>3, <4>2, <4>3, <5>1
      <4>4. CASE n = m /\ Quits(r)
        <5>1. op = "release" BY <1>4, <4>4 DEF Quits
        <5>2. rec.staged = ing[m].staged /\ rec.stage[i] = ing[m].stage[i]
          BY <1>1, <5>1 DEF Advances
        <5>3. \A u \in Requests : ~(Fails(req[u], i) /\ req[u].who = m) BY <1>7 DEF Reports
        <5> QED BY <2>1, <2>2, <3>3, <4>2, <4>4, <5>2, <5>3
      <4>5. CASE n = m /\ Fails(r, i)
        <5>1. op = "status" /\ k = i /\ arg = "failed" BY <1>3, <1>4, <4>5 DEF Fails
        <5>2. rec.stage[i] = "failed" /\ i \notin rec.staged BY <1>1, <5>1 DEF Fits
        <5>3. Fails(req'[t], i) /\ req'[t].who = m BY <1>4, <2>3, <4>5
        <5> QED BY <2>1, <2>2, <4>5, <5>2, <5>3 DEF ItemTerminal
      <4> QED BY <2>7, <4>3, <4>4, <4>5 DEF Reports
    <3>6. Firm(i)'
      <4> SUFFICES ASSUME NEW u \in Requests, Fails(req'[u], i), req'[u].was \in ItemTerminal,
                          ing'[req'[u].who].has, batch'.machine = req'[u].who
                   PROVE  Settled(i)'
        BY DEF Firm
      <4>1. CASE u = t
        <5>1. op # "release" /\ k = i BY <1>4, <2>3, <4>1 DEF Fails
        <5>2. item[i].state \in ItemTerminal BY <1>3, <2>3, <4>1, <5>1
        <5> QED BY <3>3, <5>2 DEF Settled, ItemTerminal
      <4>2. CASE u # t
        <5>1. Reports(req[u], i) /\ req'[u] = req[u] /\ req[u].who # m /\ req[u].who \in Machines
          BY <3>1, <3>2, <4>2 DEF Reports
        <5>2. ing[req[u].who].has /\ batch.machine = req[u].who BY <1>2, <2>1, <5>1
        <5> QED BY <3>3, <5>1, <5>2 DEF Sure, Firm
      <4> QED BY <4>1, <4>2
    <3>7. Closing(i)'
      <4> SUFFICES ASSUME NEW u \in Requests, Quits(req'[u]), batch'.machine = req'[u].who,
                          batch'.lease = "live"
                   PROVE  Settled(i)'
        BY DEF Closing, LeaseLive
      <4>1. CASE u = t
        <5>1. op = "release" /\ batch.machine = m BY <1>2, <1>4, <2>3, <4>1 DEF Quits
        <5>2. rec.stage[i] \in {"live", "cancelled", "failed"} BY <1>1, <5>1 DEF Fits
        <5>3. ing[m].stage[i] = rec.stage[i] BY <1>1, <5>1 DEF Advances
        <5>4. \A x \in Requests : ~(Fails(req[x], i) /\ req[x].who = m) BY <1>7 DEF Reports
        <5>5. Settled(i) BY <1>2, <5>1, <5>2, <5>3, <5>4 DEF Sure, Known, ItemTerminal
        <5> QED BY <3>3, <5>5
      <4>2. CASE u # t
        <5>1. Reports(req[u], i) /\ req'[u] = req[u] BY <3>2, <4>2 DEF Reports
        <5> QED BY <1>2, <3>3, <5>1 DEF Sure, Closing, LeaseLive
      <4> QED BY <4>1, <4>2
    <3>8. Whole(i)' BY <1>2 DEF Sure, Whole
    <3> QED BY <3>4, <3>5, <3>6, <3>7, <3>8 DEF Sure
  <2> QED BY <2>6, <2>7
<1>9. ASSUME UNCHANGED req, ing' = [ing EXCEPT ![m] = Forgot(m)] PROVE Sure(i)'
  BY <1>5, <1>9, DesksForget, SilenceKept, SureKept
<1>10. ASSUME UNCHANGED req, hist' = Unsaid(r), NEW q \in After(m, rec, r, "lost"),
              ing' = [ing EXCEPT ![m] = q]
       PROVE  Sure(i)'
  <2>1. r.op \in {"claim", "release"} \cup ItemOps /\ (r.op \in ItemOps => r \in ItemAsks /\ rec.doing = r.i)
    BY <1>4 DEF Awaits, Asked
  <2>2. KeepsDesk(rec, q, i) /\ (q.has => op # "release")
    BY <1>1, <1>3, <1>4, <1>10, <2>1, AfterKeeps
  <2>3. ~(op = "status" /\ k = i /\ arg = "failed")
    <3>1. hist.apart \in SUBSET Items BY DEF Ind, Ghosts
    <3>2. ASSUME op = "status", k = i, arg = "failed" PROVE i \in hist'.apart
      <4>1. Unsaid(r) = [hist EXCEPT !.apart = @ \cup {r.i}] BY <1>3, <1>4, <3>2 DEF Unsaid
      <4>2. hist'.apart = hist.apart \cup {r.i} BY <1>10, <4>1 DEF Ind, Ghosts
      <4> QED BY <1>4, <3>2, <4>2
    <3> QED BY <3>2
  <2>4. KeepsDesk(ing[m], q, i) BY <1>6, <2>2, <2>3 DEF KeepsDesk
  <2>5. KeepsCallers(i) /\ KeepsDesks(i) BY <1>7, <1>10, <2>4, DesksMove
  <2> QED BY <1>5, <1>10, <2>5, SilenceKept, SureKept
<1> QED BY <1>1, <1>8, <1>9, <1>10 DEF Call, r

LEMMA WorksAccord ==
    ASSUME Ind, Checkpoint, Accord, Outgrows, NEW m \in Machines, Works(m) PROVE Accord'
<1>1. Shaped(m) BY WorksShaped
<1>2. ASSUME NEW rec, Turns(m, rec) PROVE Accord'
  <2> SUFFICES ASSUME NEW i \in Items, i \notin hist'.late \cup hist'.apart, Sure(i) PROVE Sure(i)'
    BY AccordBy
  <2>1. /\ ing' = [ing EXCEPT ![m] = rec] /\ UNCHANGED <<batch, item, req>>
        /\ ing[m].at = Nobody /\ rec.has = ing[m].has /\ rec.unclaimed = ing[m].unclaimed
        /\ rec.staged = ing[m].staged
        /\ rec.stage[i] = ing[m].stage[i] \/ (i \in ing[m].staged /\ rec.stage[i] = "live")
    BY <1>2 DEF Turns, ledger
  <2>2. KeepsDesk(ing[m], rec, i) BY <2>1 DEF KeepsDesk
  <2>3. \A t \in Requests : Away(ing[m], t) => Away(rec, t) BY <2>1, NobodyIs DEF Away
  <2>4. KeepsCallers(i) /\ KeepsDesks(i) BY <2>1, <2>2, <2>3, DesksMove
  <2> QED BY <2>1, <2>4, SilenceKept, BookStays, SureKept
<1> QED BY <1>1, <1>2, CallsAccord DEF Shaped

LEMMA GivesUpAccord ==
    ASSUME Ind, Checkpoint, Accord, Outgrows, NEW m \in Machines, GivesUpWaiting(m) PROVE Accord'
<1> DEFINE u == ing[m].at
           r == req[u]
<1> SUFFICES ASSUME NEW i \in Items, i \notin hist'.late \cup hist'.apart, Sure(i) PROVE Sure(i)'
  BY AccordBy
<1>1. /\ ing[m] \in Local /\ u \in Requests /\ Awaits(ing[m], m, r) /\ Tells(ing[m], r)
      /\ Posture(ing[m])
  BY AtDesk DEF GivesUpWaiting
<1>2. /\ r.op \in {"claim", "release"} \cup ItemOps
      /\ r.op \in ItemOps => r \in ItemAsks /\ ing[m].doing = r.i
  BY <1>1 DEF Awaits, Ind, Floor, AllAsked, Asked
<1>3. PICK q \in After(m, ing[m], r, "lost") : ing' = [ing EXCEPT ![m] = q]
  BY DEF GivesUpWaiting
<1>4. UNCHANGED <<req, batch, item>> /\ hist' = Unsaid(r) BY DEF GivesUpWaiting, ledger
<1>5. ~Fails(r, i)
  <2>1. ASSUME Fails(r, i) PROVE i \in hist'.apart
    <3>1. Unsaid(r) = [hist EXCEPT !.apart = @ \cup {r.i}] BY <2>1 DEF Unsaid, Fails
    <3>2. hist'.apart = hist.apart \cup {r.i} BY <1>4, <3>1 DEF Ind, Ghosts
    <3> QED BY <2>1, <3>2 DEF Fails
  <2> QED BY <2>1
<1> HIDE DEF r
<1>6. /\ KeepsDesk(ing[m], q, i)
      /\ q.has => ing[m].has /\ q.unclaimed = ing[m].unclaimed /\ r.op # "release"
  BY <1>1, <1>2, <1>3, AfterKeeps
<1>7. ASSUME NEW t \in Requests, Reports(req[t], i), Away(ing[m], t) PROVE Away(q, t)
  <2>1. CASE t = u
    <3>1. r.op = "release" BY <1>5, <1>7, <2>1 DEF Reports, Quits, r
    <3> QED BY <1>6, <3>1 DEF Away
  <2>2. CASE t # u BY <1>6, <1>7, <2>2 DEF Away
  <2> QED BY <2>1, <2>2
<1>8. KeepsCallers(i) /\ KeepsDesks(i) BY <1>3, <1>6, <1>7, DesksMove
<1> QED BY <1>4, <1>8, SilenceKept, BookStays, SureKept

LEMMA IdlersAccord ==
    ASSUME Ind, Checkpoint, Accord, Outgrows, NEW m \in Machines,
           Beat(m) \/ StopHere(m) \/ Restart(m) \/ Claims(m)
    PROVE  Accord'
<1> SUFFICES ASSUME NEW i \in Items, i \notin hist'.late \cup hist'.apart, Sure(i) PROVE Sure(i)'
  BY AccordBy
<1>1. KeepsBook(i)
  <2>1. UNCHANGED <<batch, item>> BY DEF Beat, StopHere, Restart, Claims, ledger
  <2> QED BY <2>1, BookStays
<1>2. ASSUME NEW t \in Requests, NEW r, req[t] = Free, Becomes(t, r),
             r.op \in {"beat", "claim"} \/ (r.op = "release" /\ r.arg = "cancelled")
      PROVE  KeepsWords(i) /\ KeepsSaid(i)
  <2>1. ~Reports(r, i) /\ ~Fails(req[t], i) BY <1>2 DEF Reports, Fails, Quits, Free
  <2> QED BY <1>2, <2>1, WordsKept
<1>3. CASE Beat(m)
  <2>1. CASE Holds(m)
    <3>1. PICK t \in Requests : req[t] = Free /\ Becomes(t, [op |-> "beat", who |-> m])
      BY <1>3, <2>1 DEF Beat
    <3>2. UNCHANGED ing BY <1>3, <2>1 DEF Beat
    <3>3. KeepsWords(i) /\ KeepsSaid(i) BY <1>2, <3>1
    <3> QED BY <1>1, <3>2, <3>3, DesksStay, SureKept
  <2>2. CASE ~Holds(m)
    <3>1. ing' = [ing EXCEPT ![m] = Forgot(m)] /\ UNCHANGED req BY <1>3, <2>2 DEF Beat
    <3> QED BY <1>1, <3>1, DesksForget, SilenceKept, SureKept
  <2> QED BY <2>1, <2>2
<1>4. CASE StopHere(m)
  <2> DEFINE r == [op |-> "release", who |-> m, arg |-> "cancelled"]
  <2>1. /\ ing' = [ing EXCEPT ![m] = Forgot(m)]
        /\ UNCHANGED req \/ \E t \in Requests : req[t] = Free /\ Becomes(t, r)
    BY <1>4 DEF StopHere
  <2>2. r.op = "release" /\ r.arg = "cancelled" OBVIOUS
  <2> HIDE DEF r
  <2>3. KeepsWords(i) /\ KeepsSaid(i) BY <1>2, <2>1, <2>2, SilenceKept
  <2> QED BY <1>1, <2>1, <2>3, DesksForget, SureKept
<1>5. CASE Restart(m)
  <2> DEFINE rec == [Done(ing[m]) EXCEPT !.unclaimed = TRUE, !.up = {}, !.queue = FALSE]
  <2>1. ing' = [ing EXCEPT ![m] = rec] /\ UNCHANGED req BY <1>5 DEF Restart
  <2>2. /\ rec.unclaimed /\ rec.stage = ing[m].stage /\ rec.staged = ing[m].staged
        /\ rec.has = ing[m].has
    BY AtEase DEF Done, Local
  <2> HIDE DEF rec
  <2>3. KeepsDesk(ing[m], rec, i) /\ \A t : Away(rec, t) BY <2>2 DEF KeepsDesk, Away
  <2>4. KeepsCallers(i) /\ KeepsDesks(i) BY <2>1, <2>3, DesksMove
  <2> QED BY <1>1, <2>1, <2>4, SilenceKept, SureKept
<1>6. CASE Claims(m)
  <2>1. PICK t \in Requests : /\ req[t] = Free /\ Becomes(t, Look("claim", m))
                              /\ ing' = [ing EXCEPT ![m].at = t]
    BY <1>6 DEF Claims
  <2> DEFINE rec == [ing[m] EXCEPT !.at = t]
  <2>2. KeepsWords(i) /\ KeepsSaid(i) BY <1>2, <2>1, LookIs
  <2>3. ~ing[m].has \/ ing[m].unclaimed BY <1>6 DEF Claims
  <2>4. ing' = [ing EXCEPT ![m] = rec] BY <2>1 DEF Ind, Floor
  <2>5. /\ rec.stage = ing[m].stage /\ rec.staged = ing[m].staged /\ rec.has = ing[m].has
        /\ rec.unclaimed = ing[m].unclaimed
    BY AtEase DEF Local
  <2> HIDE DEF rec
  <2>6. KeepsDesk(ing[m], rec, i) /\ \A x : Away(rec, x) BY <2>3, <2>5 DEF KeepsDesk, Away
  <2>7. KeepsCallers(i) /\ KeepsDesks(i) BY <2>4, <2>6, DesksMove
  <2> QED BY <1>1, <2>2, <2>7, SureKept
<1> QED BY <1>3, <1>4, <1>5, <1>6

LEMMA BrowserAccord ==
    ASSUME Ind, Accord, Outgrows,
           \/ List \/ Cancel \/ Retry \/ Lapse
           \/ \E m \in Machines, i \in Items : Land(m, i)
    PROVE  Accord'
<1> SUFFICES ASSUME NEW i \in Items, i \notin hist'.late \cup hist'.apart, Sure(i) PROVE Sure(i)'
  BY AccordBy
<1>1. UNCHANGED ing /\ UNCHANGED item /\ (Lapse \/ UNCHANGED batch)
  BY DEF List, Cancel, Retry, Lapse, Land, ledger
<1>2. KeepsBook(i)
  <2>1. CASE UNCHANGED batch BY <1>1, <2>1, BookStays
  <2>2. CASE Lapse
    <3>1. batch' = [batch EXCEPT !.lease = "lapsed"] BY <2>2 DEF Lapse
    <3>2. batch'.lease = "lapsed" /\ batch'.machine = batch.machine /\ batch'.state = batch.state
      BY <3>1 DEF Ind, Books, Batches
    <3> QED BY <1>1, <3>2 DEF KeepsBook, Settled, Whole
  <2> QED BY <1>1, <2>1, <2>2
<1>3. KeepsWords(i) /\ KeepsSaid(i)
  <2>1. ASSUME NEW t \in Requests, NEW r, req[t] = Free, Becomes(t, r), r.op \in {"list", "cancel", "retry"}
        PROVE  KeepsWords(i) /\ KeepsSaid(i)
    <3>1. ~Reports(r, i) /\ ~Fails(req[t], i) BY <2>1 DEF Reports, Fails, Quits, Free
    <3> QED BY <2>1, <3>1, WordsKept
  <2>2. CASE List \/ Cancel BY <2>1, <2>2, LookIs DEF List, Cancel
  <2>3. CASE Retry BY <2>1, <2>3 DEF Retry
  <2>4. CASE UNCHANGED req BY <2>4, SilenceKept
  <2> QED BY <2>2, <2>3, <2>4 DEF Lapse, Land
<1> QED BY <1>1, <1>2, <1>3, DesksStay, SureKept

-----------------------------------------------------------------------------
(* The app's part *)

LEMMA CancelledBook ==
    ASSUME Books, NEW i \in Items, Finish("cancelled") PROVE KeepsBook(i)
<1>1. batch' = [batch EXCEPT !.state = "cancelled", !.lease = "none"]
  BY DEF Finish, Verdict
<1>2. batch'.state = "cancelled" /\ batch'.lease = "none" /\ batch'.machine = batch.machine
  BY <1>1 DEF Books, Batches
<1>3. item[i] \in ItemRows BY DEF Books
<1> DEFINE gone == {item[k].row : k \in Items} \cap HalfMade
<1>4. item' = [k \in Items |->
             [item[k] EXCEPT !.row = IF @ \in gone THEN Nobody ELSE @,
                             !.state = IF @ \in CancelKeeps THEN @ ELSE "cancelled"]]
  BY DEF Finish, Dropped
<1> HIDE DEF gone
<1>5. item'[i].state = IF item[i].state \in CancelKeeps THEN item[i].state ELSE "cancelled"
  BY <1>3, <1>4 DEF ItemRows
<1>6. Settled(i)' BY <1>5 DEF Settled, CancelKeeps
<1> QED BY <1>2, <1>6 DEF KeepsBook, Whole

LEMMA SweepBook ==
    ASSUME Books, NEW i \in Items, NEW r, Sweep(r) PROVE KeepsBook(i)
<1>1. CASE r.stopped BY <1>1, CancelledBook DEF Sweep
<1>2. CASE ~r.stopped
  <2>1. UNCHANGED item /\ batch' \in {batch, [batch EXCEPT !.state = "queued", !.lease = "none"]}
    BY <1>2 DEF Sweep
  <2>2. /\ batch'.machine = batch.machine /\ batch'.lease \in {"none", batch.lease}
        /\ batch'.state \in {"queued", batch.state}
    BY <2>1 DEF Books, Batches
  <2> QED BY <2>1, <2>2 DEF KeepsBook, Settled, Whole
<1> QED BY <1>1, <1>2

LEMMA TurnedKeeps ==
    ASSUME Ind, NEW i \in Items, NEW t \in Requests, Turned(t), req[t].op = "claim"
    PROVE  KeepsWords(i) /\ KeepsSaid(i) /\ KeepsCallers(i) /\ KeepsDesks(i)
<1> DEFINE m == req[t].who
<1>1. m \in Machines /\ Becomes(t, Free) BY RequestAsked DEF Asked, Turned, Ends
<1>2. IF ing[m].at = t THEN Refused(m) ELSE UNCHANGED ing BY DEF Turned
<1> HIDE DEF m
<1>3. KeepsWords(i) /\ KeepsSaid(i)
  <2>1. ~Reports(Free, i) /\ ~Fails(req[t], i) BY DEF Reports, Fails, Quits, Free
  <2> QED BY <1>1, <2>1, WordsKept
<1>4. CASE ing[m].at # t BY <1>2, <1>3, <1>4, DesksStay
<1>5. CASE ing[m].at = t /\ ing[m].has
  BY <1>1, <1>2, <1>3, <1>5, DesksForget DEF Refused
<1>6. CASE ing[m].at = t /\ ~ing[m].has
  <2> DEFINE rec == [ing[m] EXCEPT !.at = Nobody]
  <2>1. ~rec.has BY <1>1, <1>6, AtEase DEF Local
  <2>2. ing' = [ing EXCEPT ![m] = rec] BY <1>1, <1>2, <1>6 DEF Refused, Ind, Floor
  <2> HIDE DEF rec
  <2> QED BY <1>1, <1>3, <2>1, <2>2, DesksMove DEF KeepsDesk, Away
<1> QED BY <1>4, <1>5, <1>6

\* A request that reports nothing ends or goes on, and no machine moves.
LEMMA UnheededKeeps ==
    ASSUME Ind, NEW i \in Items, NEW t \in Requests, NEW r, Becomes(t, r), ~Reports(r, i),
           ~Fails(req[t], i), UNCHANGED ing
    PROVE  KeepsWords(i) /\ KeepsSaid(i) /\ KeepsCallers(i) /\ KeepsDesks(i)
BY WordsKept, DesksStay

\* Whoever waits for the answer goes on.
LEMMA AnswerKeeps ==
    ASSUME Ind, Checkpoint, NEW i \in Items, NEW t \in Requests, NEW answer \in {"ok", "no"},
           Ends(t), Answers(t, answer), req[t].op \in ItemOps \cup {"release"},
           answer = "ok" /\ req[t].op \in {"uploaded", "publish"} /\ req[t].i = i => Settled(i)'
    PROVE  KeepsWords(i) /\ KeepsCallers(i) /\ KeepsDesks(i)
<1> DEFINE r == req[t]
           m == r.who
<1>1. Becomes(t, Free) /\ m \in Machines
  BY RequestAsked DEF Ends, Asked, ItemAsks, Ask
<1>2. ~Reports(Free, i) BY DEF Reports, Fails, Quits, Free
<1>3. req'[t] = Free /\ \A u \in Requests : u # t => req'[u] = req[u] BY <1>1, Told
<1>4. KeepsWords(i) BY <1>2, <1>3 DEF KeepsWords
<1>5. CASE ing[m].at # t BY <1>4, <1>5, DesksStay DEF Answers
<1>6. CASE ing[m].at = t
  <2>1. PICK q \in After(m, ing[m], r, answer) : ing' = [ing EXCEPT ![m] = q]
    BY <1>6 DEF Answers
  <2>2. /\ ing[m] \in Local /\ Awaits(ing[m], m, r) /\ Tells(ing[m], r) /\ Posture(ing[m])
    BY <1>1, <1>6, AtDesk, NobodyIs
  <2>3. r.op \in ItemOps => r \in ItemAsks /\ ing[m].doing = r.i
    BY <2>2, RequestAsked DEF Awaits, Asked
  <2>4. answer = "ok" /\ r.op \in {"uploaded", "publish"} /\ r.i = i => Settled(i)' OBVIOUS
  <2>5. r.op \in {"claim", "release"} \cup ItemOps OBVIOUS
  <2> HIDE DEF r, m
  <2>6. KeepsDesk(ing[m], q, i) /\ (q.has => ing[m].has /\ q.unclaimed = ing[m].unclaimed)
    BY <1>1, <2>1, <2>2, <2>3, <2>4, <2>5, AfterKeeps
  <2>7. ASSUME NEW u \in Requests, Reports(req[u], i), req'[u] = req[u], Away(ing[m], u)
        PROVE  Away(q, u)
    <3>1. u # t BY <1>2, <1>3, <2>7
    <3> QED BY <1>6, <2>6, <2>7, <3>1 DEF Away
  <2> QED BY <1>1, <1>4, <2>1, <2>6, <2>7, DesksMove
<1> QED BY <1>5, <1>6

\* With its answer a request is forgotten.
LEMMA SaidKept ==
    ASSUME Ind, NEW i \in Items, NEW t \in Requests, Ends(t),
           Fails(req[t], i) => Settled(i)' \/ ~(ing'[req[t].who].has /\ batch.machine = req[t].who)
    PROVE  KeepsSaid(i)
BY Told DEF Ends, KeepsSaid

LEMMA SweepsAccord ==
    ASSUME Ind, Accord, Outgrows, NEW t \in Requests,
           \/ ClaimCheck(t) \/ ListSweep(t) \/ CancelCheck(t) \/ CancelFlag(t) \/ CancelEnd(t)
           \/ ClaimItems(t) \/ ClaimNames(t) \/ (ClaimMint(t) /\ Turned(t) /\ UNCHANGED <<ledger, hist>>)
    PROVE  Accord'
<1> SUFFICES ASSUME NEW i \in Items, i \notin hist'.late \cup hist'.apart, Sure(i) PROVE Sure(i)'
  BY AccordBy
<1>0. Books BY DEF Ind
<1>1. req[t].op \in {"claim", "list", "cancel"} /\ ~Fails(req[t], i)
  BY DEF ClaimCheck, ListSweep, CancelCheck, CancelFlag, CancelEnd, ClaimItems, ClaimNames,
         ClaimMint, Fails
<1>2. KeepsBook(i)
  <2>1. CASE ClaimCheck(t) \/ ListSweep(t) \/ CancelCheck(t)
    <3>1. Sweep(req[t]) BY <2>1 DEF ClaimCheck, ListSweep, CancelCheck
    <3> QED BY <1>0, <3>1, SweepBook
  <2>2. CASE CancelFlag(t)
    <3>1. UNCHANGED item /\ batch' = [batch EXCEPT !.cancel = TRUE] BY <2>2 DEF CancelFlag
    <3>2. /\ batch'.machine = batch.machine /\ batch'.lease = batch.lease
          /\ batch'.state = batch.state
      BY <1>0, <3>1 DEF Books, Batches
    <3> QED BY <3>1, <3>2 DEF KeepsBook, Settled, Whole
  <2>3. CASE CancelEnd(t) BY <1>0, <2>3, CancelledBook DEF CancelEnd
  <2>4. CASE ClaimItems(t) \/ ClaimNames(t) BY <2>4, BookStays DEF ClaimItems, ClaimNames, ledger
  <2>5. CASE UNCHANGED <<ledger, hist>> BY <2>5, BookStays DEF ledger
  <2> QED BY <2>1, <2>2, <2>3, <2>4, <2>5
<1>3. KeepsWords(i) /\ KeepsSaid(i) /\ KeepsCallers(i) /\ KeepsDesks(i)
  <2>1. ASSUME NEW r, Becomes(t, r), r.op \in {"claim", "cancel", "none"}, UNCHANGED ing
        PROVE  KeepsWords(i) /\ KeepsSaid(i) /\ KeepsCallers(i) /\ KeepsDesks(i)
    <3>1. ~Reports(r, i) BY <2>1 DEF Reports, Fails, Quits
    <3> QED BY <1>1, <2>1, <3>1, UnheededKeeps
  <2>2. Free.op = "none" BY DEF Free
  <2>3. CASE ClaimCheck(t) \/ (ClaimMint(t) /\ Turned(t))
    <3>1. req[t].op = "claim" BY <2>3 DEF ClaimCheck, ClaimMint
    <3> QED BY <2>1, <2>3, <3>1, TurnedKeeps DEF ClaimCheck
  <2>4. CASE ListSweep(t) \/ CancelEnd(t) BY <2>1, <2>2, <2>4 DEF ListSweep, CancelEnd, Ends
  <2>5. CASE CancelCheck(t) BY <2>1, <2>2, <2>5 DEF CancelCheck, Ends
  <2>6. CASE CancelFlag(t)
    <3>1. req[t] \in Marks BY <2>6, RequestAsked DEF CancelFlag, Asked
    <3>2. [req[t] EXCEPT !.step = "end"].op = "cancel" BY <3>1 DEF Marks
    <3> QED BY <2>1, <2>2, <2>6, <3>2 DEF CancelFlag, Ends
  <2>7. CASE ClaimItems(t) \/ ClaimNames(t) BY <2>1, <2>7 DEF ClaimItems, ClaimNames
  <2> QED BY <2>3, <2>4, <2>5, <2>6, <2>7
<1> QED BY <1>2, <1>3, SureKept

\* A state that is over is left for one that is not only from "failed".
LEMMA OnlyFailed ==
    ASSUME NEW old \in {"live", "cancelled", "failed", "proxies_live"},
           NEW new \in {"describing", "indexed", "uploading"}, Legal(old, new)
    PROVE  old = "failed"
<1>1. DOMAIN Progress = 1..6 BY DEF Progress
<1>2. /\ Progress[1] = "pending" /\ Progress[2] = "describing" /\ Progress[3] = "indexed"
      /\ Progress[4] = "uploading" /\ Progress[5] = "proxies_live" /\ Progress[6] = "live"
  BY DEF Progress
<1>3. \A k \in 1..6 : k = 1 \/ k = 2 \/ k = 3 \/ k = 4 \/ k = 5 \/ k = 6 OBVIOUS
<1>4. ASSUME NEW n \in 1..6 PROVE Rank(Progress[n]) = n
  <2>1. \A k \in 1..6 : Progress[k] = Progress[n] <=> k = n BY <1>2, <1>3
  <2> QED BY <1>1, <2>1 DEF Rank
<1>5. Rank("describing") = 2 /\ Rank("indexed") = 3 /\ Rank("uploading") = 4 /\ Rank("proxies_live") = 5
  <2>1. Rank(Progress[2]) = 2 /\ Rank(Progress[3]) = 3 /\ Rank(Progress[4]) = 4 /\ Rank(Progress[5]) = 5
    BY <1>4
  <2> QED BY <1>2, <2>1
<1> QED BY <1>5 DEF Legal, ItemTerminal

\* A failed clip that is tried again by the machine whose call still stands: that
\* machine has said nothing else of it.
LEMMA Reopened ==
    ASSUME Ind, Checkpoint, NEW i \in Items, Sure(i), NEW t \in Requests, Ends(t),
           req[t].op \in {"status", "result"}, req[t].op = "status" => req[t].arg # "failed",
           req[t].i = i, Holds(req[t].who), ing[req[t].who].at = t, Answers(t, "ok"),
           batch'.machine = batch.machine, batch'.state # "done"
    PROVE  Sure(i)'
<1> DEFINE m == req[t].who
<1>0. m \in Machines /\ t # Nobody BY ItemAsked, NobodyIs DEF ItemOps
<1>1. /\ ing[m] \in Local /\ Awaits(ing[m], m, req[t]) /\ Tells(ing[m], req[t]) /\ Posture(ing[m])
  BY <1>0, AtDesk
<1>2. PICK q \in After(m, ing[m], req[t], "ok") : ing' = [ing EXCEPT ![m] = q] BY DEF Answers
<1>3. /\ req[t].op = "status" => req[t].arg \in {"describing", "uploading"} /\ req[t] \in ItemAsks
      /\ req[t].op = "result" => req[t] \in ItemAsks
  BY ItemAsked DEF ItemOps
<1>4. /\ ing[m].has /\ ~ing[m].unclaimed /\ i \notin ing[m].staged
      /\ ing[m].stage[i] \in {"describing", "uploading"}
  <2>1. ing[m].has /\ ~ing[m].unclaimed BY <1>1 DEF Tells, Local
  <2>2. CASE req[t].op = "status" BY <1>1, <1>3, <2>1, <2>2 DEF Tells
  <2>3. CASE req[t].op = "result"
    <3>1. ing[m].stage[i] = "describing" BY <1>1, <2>3 DEF Tells
    <3> QED BY <1>1, <2>1, <3>1 DEF Posture
  <2> QED BY <2>2, <2>3
<1>5. q.stage[i] = ing[m].stage[i] /\ (i \in q.staged => i \in ing[m].staged)
  <2>1. req[t].op \in {"claim", "release"} \cup ItemOps
        /\ (req[t].op \in ItemOps => req[t] \in ItemAsks /\ ing[m].doing = req[t].i)
    BY <1>1, <1>3 DEF Awaits, ItemOps
  <2> HIDE DEF m
  <2> QED BY <1>0, <1>1, <1>2, <2>1, AfterDesk
<1>6. ing'[m] = q /\ batch.machine = m BY <1>0, <1>2 DEF Ind, Floor, Holds
<1>7. req'[t] = Free /\ \A u \in Requests : u # t => req'[u] = req[u] BY Told DEF Ends
<1>8. ~Reports(Free, i) BY DEF Reports, Fails, Quits, Free
<1>9. ASSUME NEW u \in Requests, Reports(req'[u], i)
      PROVE  req'[u] = req[u] /\ u # t /\ req[u].who # m
  <2>1. u # t /\ req'[u] = req[u] BY <1>7, <1>8, <1>9
  <2>2. ing[m].at # u BY <2>1
  <2> QED BY <1>0, <1>4, <1>9, <2>1, <2>2, NoOther DEF Sure
<1>10. Awaited(i)'
  <2>1. KeepsCallers(i) BY AnswerKeeps DEF ItemOps
  <2>2. \A u \in Requests : Reports(req'[u], i) => req'[u] = req[u] BY <1>9
  <2> QED BY <2>1, <2>2 DEF Sure, Awaited, KeepsCallers
<1>11. Known(i)' BY <1>4, <1>5, <1>6 DEF Known, ItemTerminal
<1>12. Firm(i)' BY <1>6, <1>9 DEF Firm, Reports
<1>13. Closing(i)' BY <1>6, <1>9 DEF Closing, Reports
<1>14. Whole(i)' BY DEF Whole
<1> QED BY <1>10, <1>11, <1>12, <1>13, <1>14 DEF Sure

\* A write of one clip: to a state that is over, to one that is not, or of
\* another clip.
LEMMA WriteSure ==
    ASSUME Ind, Checkpoint, NEW i \in Items, Sure(i), NEW t \in Requests, Ends(t), Answers(t, "ok"),
           req[t].op \in {"status", "result", "publish"}, i \notin hist'.late \cup hist'.apart,
           Overtaken(req[t]) => req[t].i \in hist'.late,
           req[t].op # "publish" => /\ Legal(req[t].was, item'[req[t].i].state)
                                    /\ Outrun(t) => req[t].i \in hist'.apart,
           item'[req[t].i].state = CASE req[t].op = "status" -> req[t].arg
                                     [] req[t].op = "result" -> "indexed"
                                     [] OTHER -> IF req[t].arg THEN "live" ELSE "proxies_live",
           i # req[t].i => item'[i].state = item[i].state,
           batch'.machine = batch.machine, batch'.lease = batch.lease,
           batch'.state \in {batch.state, "running"}
    PROVE  Sure(i)'
<1> DEFINE r == req[t]
<1>1. r.i \in Items /\ r.who \in Machines /\ r.op \in ItemOps
      /\ (r.op = "status" => r.arg \in {"describing", "uploading", "failed"})
  BY ItemAsked DEF ItemOps
<1>2. ASSUME r.op = "publish", r.i = i PROVE Settled(i)' BY <1>2 DEF Settled
<1>3. KeepsWords(i) /\ KeepsCallers(i) /\ KeepsDesks(i) BY <1>1, <1>2, AnswerKeeps
<1>4. Fails(r, i) => Settled(i)' BY DEF Fails, Settled
<1>5. KeepsSaid(i) BY <1>4, SaidKept
<1>6. CASE i # r.i
  <2>1. KeepsBook(i) BY <1>6 DEF KeepsBook, Settled, Whole
  <2> QED BY <1>3, <1>5, <2>1, SureKept
<1>7. CASE i = r.i
  <2>1. Holds(r.who) /\ item[i].state = r.was BY <1>7 DEF Overtaken
  <2>2. batch'.state # "done" BY <2>1 DEF Holds, Over, BatchTerminal
  <2>3. CASE Settled(i) => Settled(i)'
    <3>1. KeepsBook(i) BY <2>2, <2>3 DEF KeepsBook, Whole
    <3> QED BY <1>3, <1>5, <3>1, SureKept
  <2>4. CASE Settled(i) /\ ~Settled(i)'
    <3>1. r.op \in {"status", "result"} /\ (r.op = "status" => r.arg # "failed")
      BY <1>2, <1>7, <2>4 DEF Settled
    <3>2. item'[i].state \in {"describing", "indexed", "uploading"} BY <1>1, <1>7, <3>1
    <3>3. item[i].state = "failed" BY <1>7, <2>1, <2>4, <3>1, <3>2, OnlyFailed DEF Settled
    <3>4. ing[r.who].at = t BY <1>7, <3>1, <3>3 DEF Outrun
    <3> QED BY <1>7, <2>1, <2>2, <3>1, <3>4, Reopened
  <2> QED BY <2>3, <2>4
<1> QED BY <1>6, <1>7

LEMMA StatusWriteAccord ==
    ASSUME Ind, Checkpoint, Accord, Outgrows, NEW t \in Requests, StatusWrite(t) PROVE Accord'
<1> DEFINE r == req[t]
<1> SUFFICES ASSUME NEW i \in Items, i \notin hist'.late \cup hist'.apart, Sure(i) PROVE Sure(i)'
  BY AccordBy
<1>1. r.op = "status" /\ Ends(t) BY DEF StatusWrite
<1>2. /\ r \in ItemAsks /\ r.i \in Items /\ r.tries \in Nat /\ r.was \in ItemStates
      /\ r.arg \in {"describing", "uploading", "failed"}
  BY <1>1, ItemAsked, StatesAre DEF ItemOps
<1>3. Books /\ hist \in Ghosts BY RequestAsked
<1>4. CASE Legal(r.was, r.arg)
  <2>1. /\ item' = [item EXCEPT ![r.i].state = r.arg, ![r.i].tries = r.tries]
        /\ Running(r) /\ Noting(t) /\ Answers(t, "ok") /\ UNCHANGED rows
    BY <1>4 DEF StatusWrite
  <2>2. item' = [item EXCEPT ![r.i] = [item[r.i] EXCEPT !.state = r.arg, !.tries = r.tries]]
    BY <1>2, <1>3, <2>1 DEF Books, ItemRows
  <2>3. r.arg \in ItemStates BY <1>2, StatesAre
  <2>4. item'[r.i].state = r.arg /\ \A k \in Items : k # r.i => item'[k].state = item[k].state
    <3>1. rows' \in [Slots -> Videos] /\ \A s \in Slots : rows[s].status # "absent" => rows'[s].status # "absent"
      BY <1>3, <2>1 DEF Books
    <3> HIDE DEF r
    <3>2. /\ item'[r.i].state = r.arg
          /\ \A k \in Items : item'[k].row = item[k].row /\ (k # r.i => item'[k].state = item[k].state)
      BY <1>2, <1>3, <2>2, <2>3, <3>1, WriteIs
    <3> QED BY <3>2
  <2>5. /\ Overtaken(r) => r.i \in hist'.late
        /\ Outrun(t) => r.i \in hist'.apart
    BY <1>2, <1>3, <2>1, NotingIs DEF Books
  <2>6. /\ batch'.machine = batch.machine /\ batch'.lease = batch.lease
        /\ batch'.state \in {batch.state, "running"}
    BY <1>3, <2>1, RunningIs DEF Books
  <2> QED BY <1>1, <1>4, <2>1, <2>4, <2>5, <2>6, WriteSure
<1>5. CASE ~Legal(r.was, r.arg)
  <2>1. Answers(t, "no") /\ UNCHANGED <<batch, item>> BY <1>5 DEF StatusWrite
  <2>2. KeepsWords(i) /\ KeepsCallers(i) /\ KeepsDesks(i)
    BY <1>1, <2>1, AnswerKeeps DEF ItemOps
  <2>3. KeepsBook(i) BY <2>1, BookStays
  <2>4. Fails(r, i) => Settled(i)' \/ ~(ing'[r.who].has /\ batch.machine = r.who)
    <3>1. SUFFICES ASSUME Fails(r, i), ing'[r.who].has, batch.machine = r.who PROVE Settled(i)'
      OBVIOUS
    <3>2. r.who \in Machines BY <1>1, ItemAsked DEF ItemOps
    <3>3. ing[r.who].has BY <2>2, <3>1, <3>2 DEF KeepsDesks, KeepsDesk
    <3>4. r.was \in ItemTerminal BY <1>5, <3>1 DEF Legal, Fails
    <3> QED BY <2>3, <3>1, <3>3, <3>4 DEF Sure, Firm, KeepsBook
  <2>5. KeepsSaid(i) BY <1>1, <2>4, SaidKept
  <2> QED BY <2>2, <2>3, <2>5, SureKept
<1> QED BY <1>4, <1>5

LEMMA ResultWriteAccord ==
    ASSUME Ind, Checkpoint, Accord, Outgrows, NEW t \in Requests, ResultWrite(t) PROVE Accord'
<1> DEFINE r == req[t]
<1> SUFFICES ASSUME NEW i \in Items, i \notin hist'.late \cup hist'.apart, Sure(i) PROVE Sure(i)'
  BY AccordBy
<1>1. r.op = "result" /\ Ends(t) BY DEF ResultWrite
<1>2. r \in ItemAsks /\ r.i \in Items BY <1>1, ItemAsked DEF ItemOps
<1>3. Books /\ hist \in Ghosts BY RequestAsked
<1>4. ASSUME rows' = [rows EXCEPT ![r.row].described = TRUE],
             item' = [item EXCEPT ![r.i].state = "indexed"], Legal(r.was, "indexed"),
             Running(r), Noting(t), Answers(t, "ok")
      PROVE  Sure(i)'
  <2>1. item' = [item EXCEPT ![r.i] = [item[r.i] EXCEPT !.state = "indexed", !.tries = item[r.i].tries]]
    BY <1>2, <1>3, <1>4 DEF Books, ItemRows
  <2>2. /\ rows' \in [Slots -> Videos]
        /\ \A s \in Slots : rows[s].status # "absent" => rows'[s].status # "absent"
    BY <1>3, <1>4 DEF Books, Videos
  <2>3. item[r.i].tries \in Nat BY <1>2, <1>3 DEF Books, ItemRows
  <2>4. item'[r.i].state = "indexed" /\ \A k \in Items : k # r.i => item'[k].state = item[k].state
    <3>1. "indexed" \in ItemStates BY StatesAre
    <3> HIDE DEF r
    <3>2. /\ item'[r.i].state = "indexed"
          /\ \A k \in Items : item'[k].row = item[k].row /\ (k # r.i => item'[k].state = item[k].state)
      BY <1>2, <1>3, <2>1, <2>2, <2>3, <3>1, WriteIs
    <3> QED BY <3>2
  <2>5. /\ Overtaken(r) => r.i \in hist'.late
        /\ Outrun(t) => r.i \in hist'.apart
    BY <1>2, <1>3, <1>4, NotingIs DEF Books
  <2>6. /\ batch'.machine = batch.machine /\ batch'.lease = batch.lease
        /\ batch'.state \in {batch.state, "running"}
    BY <1>3, <1>4, RunningIs DEF Books
  <2> QED BY <1>1, <1>4, <2>4, <2>5, <2>6, WriteSure
<1>5. ASSUME Answers(t, "no"), UNCHANGED ledger PROVE Sure(i)'
  <2>1. KeepsWords(i) /\ KeepsCallers(i) /\ KeepsDesks(i)
    BY <1>1, <1>5, AnswerKeeps DEF ItemOps
  <2>2. KeepsBook(i) BY <1>5, BookStays DEF ledger
  <2>3. KeepsSaid(i) BY <1>1, SaidKept DEF Fails
  <2> QED BY <2>1, <2>2, <2>3, SureKept
<1> QED BY <1>4, <1>5 DEF ResultWrite

LEMMA UploadedWriteAccord ==
    ASSUME Ind, Checkpoint, Accord, Outgrows, NEW t \in Requests, UploadedWrite(t) PROVE Accord'
<1> DEFINE r == req[t]
           late == IF Overtaken(r) THEN hist.late \cup {r.i} ELSE hist.late
<1> SUFFICES ASSUME NEW i \in Items, i \notin hist'.late \cup hist'.apart, Sure(i) PROVE Sure(i)'
  BY AccordBy
<1>1. r.op = "publish" /\ Ends(t) /\ Answers(t, "ok") /\ UNCHANGED batch BY DEF UploadedWrite
<1>2. r \in ItemAsks /\ r.i \in Items /\ \A k \in Items : k # r.i => item'[k].state = item[k].state
  BY PublishIs
<1>3. item'[r.i].state = IF r.arg THEN "live" ELSE "proxies_live"
  <2>1. item' = [item EXCEPT ![r.i].state = IF r.arg THEN "live" ELSE "proxies_live"]
    BY DEF UploadedWrite
  <2>2. item[r.i] \in ItemRows BY <1>2 DEF Ind, Books
  <2> QED BY <1>2, <2>1, <2>2 DEF Ind, Books, ItemRows
<1>4. Overtaken(r) => r.i \in hist'.late
  <2>1. hist' = [hist EXCEPT !.late = late] BY DEF UploadedWrite, Ind, Ghosts
  <2>2. hist'.late = late BY <2>1 DEF Ind, Ghosts
  <2> QED BY <2>2
<1> QED BY <1>1, <1>2, <1>3, <1>4, WriteSure

LEMMA UploadedCheckAccord ==
    ASSUME Ind, Checkpoint, Accord, Outgrows, NEW t \in Requests, UploadedCheck(t) PROVE Accord'
<1> SUFFICES ASSUME NEW i \in Items, i \notin hist'.late \cup hist'.apart, Sure(i) PROVE Sure(i)'
  BY AccordBy
<1>1. req[t].op = "uploaded" /\ UNCHANGED <<batch, item>> BY DEF UploadedCheck, ledger
<1>2. KeepsBook(i) /\ ~Fails(req[t], i) BY <1>1, BookStays DEF Fails
<1>3. CASE Becomes(t, [req[t] EXCEPT !.op = "publish"]) /\ UNCHANGED ing
  <2> DEFINE r == [req[t] EXCEPT !.op = "publish"]
  <2>1. r.op = "publish" BY <1>1, ItemAsked DEF ItemOps, ItemAsks, Ask
  <2>2. Becomes(t, r) BY <1>3
  <2> HIDE DEF r
  <2>3. ~Reports(r, i) BY <2>1 DEF Reports, Fails, Quits
  <2> QED BY <1>2, <1>3, <2>2, <2>3, UnheededKeeps, SureKept
<1>4. CASE Ends(t) /\ Answers(t, "no")
  <2>1. KeepsWords(i) /\ KeepsCallers(i) /\ KeepsDesks(i)
    BY <1>1, <1>4, AnswerKeeps DEF ItemOps
  <2>2. KeepsSaid(i) BY <1>2, <1>4, SaidKept
  <2> QED BY <1>2, <2>1, <2>2, SureKept
<1> QED BY <1>3, <1>4 DEF UploadedCheck

LEMMA BeatWriteAccord ==
    ASSUME Ind, Accord, Outgrows, NEW t \in Requests, BeatWrite(t) PROVE Accord'
<1> DEFINE late == IF Holds(req[t].who) THEN hist.late ELSE Items
<1> SUFFICES ASSUME NEW i \in Items, i \notin hist'.late \cup hist'.apart, Sure(i) PROVE Sure(i)'
  BY AccordBy
<1>1. /\ req[t].op = "beat" /\ Becomes(t, Free) /\ UNCHANGED <<item, ing>>
      /\ batch' = [batch EXCEPT !.lease = "live"]
  BY DEF BeatWrite, Ends
<1>2. Holds(req[t].who)
  <2>1. hist' = [hist EXCEPT !.late = late] BY DEF BeatWrite, Ind, Ghosts
  <2>2. hist'.late = late BY <2>1 DEF Ind, Ghosts
  <2> QED BY <2>2
<1>3. batch'.machine = batch.machine /\ batch'.state = batch.state /\ batch.lease = "live"
  BY <1>1, <1>2 DEF Ind, Books, Batches, Holds, LeaseLive
<1>4. KeepsBook(i) BY <1>1, <1>3 DEF KeepsBook, Settled, Whole
<1>5. ~Reports(Free, i) /\ ~Fails(req[t], i) BY <1>1 DEF Reports, Fails, Quits, Free
<1> QED BY <1>1, <1>4, <1>5, UnheededKeeps, SureKept

\* The holder that calls the batch done has every clip settled.
LEMMA ReleaseWriteAccord ==
    ASSUME Ind, Checkpoint, Accord, Outgrows, NEW t \in Requests, ReleaseWrite(t) PROVE Accord'
<1> DEFINE r == req[t]
           late == IF r.arg # "cancelled" /\ ~Holds(r.who) THEN Items ELSE hist.late
<1> SUFFICES ASSUME NEW i \in Items, i \notin hist'.late \cup hist'.apart, Sure(i) PROVE Sure(i)'
  BY AccordBy
<1>1. /\ r.op = "release" /\ Ends(t) /\ Becomes(t, Free) /\ Finish(r.arg)
      /\ r.arg \in {"done", "failed", "cancelled"}
  BY RequestAsked DEF ReleaseWrite, Ends, Asked
<1>2. ~Fails(r, i) /\ ~Reports(Free, i) BY <1>1 DEF Reports, Fails, Quits, Free
<1>3. CASE r.arg = "cancelled"
  <2>1. UNCHANGED ing BY <1>3 DEF ReleaseWrite
  <2>2. KeepsBook(i) BY <1>1, <1>3, CancelledBook DEF Ind
  <2> QED BY <1>1, <1>2, <2>1, <2>2, UnheededKeeps, SureKept
<1>4. CASE r.arg # "cancelled"
  <2>1. Answers(t, "ok") BY <1>4 DEF ReleaseWrite
  <2>2. KeepsWords(i) /\ KeepsCallers(i) /\ KeepsDesks(i) BY <1>1, <2>1, AnswerKeeps
  <2>3. KeepsSaid(i) BY <1>1, <1>2, SaidKept
  <2>4. Holds(r.who)
    <3>1. hist' = [hist EXCEPT !.late = late] BY DEF ReleaseWrite, Ind, Ghosts
    <3>2. hist'.late = late BY <3>1 DEF Ind, Ghosts
    <3> QED BY <1>4, <3>2
  <2>5. /\ UNCHANGED item /\ batch' = [batch EXCEPT !.state = Verdict(r.arg), !.lease = "none"]
    BY <1>1, <1>4 DEF Finish, Dropped
  <2>6. batch'.state = Verdict(r.arg) /\ batch'.lease = "none" /\ batch'.machine = batch.machine
    BY <2>5 DEF Ind, Books, Batches
  <2>7. Settled(i) BY <1>1, <1>4, <2>4 DEF Sure, Closing, Quits, Holds
  <2>8. ASSUME batch'.state = "done" PROVE item[i].state \in ItemTerminal
    <3>1. ~Owed BY <1>1, <1>4, <2>6, <2>8 DEF Verdict
    <3> QED BY <2>7, <3>1 DEF Owed, Settled, ItemTerminal
  <2>9. KeepsBook(i) BY <2>5, <2>6, <2>8 DEF KeepsBook, Settled, Whole
  <2> QED BY <2>2, <2>3, <2>9, SureKept
<1> QED BY <1>3, <1>4

LEMMA RetryWriteAccord ==
    ASSUME Ind, Accord, Outgrows, NEW t \in Requests, RetryWrite(t) PROVE Accord'
<1> DEFINE owed == {i \in Items : item[i].state \in {"failed", "proxies_live"}}
           again == hist.again \cup {i \in owed : Published(i)}
           late == IF \E m \in Machines : ing[m].has THEN hist.late \cup owed ELSE hist.late
<1> SUFFICES ASSUME NEW i \in Items, i \notin hist'.late \cup hist'.apart, Sure(i) PROVE Sure(i)'
  BY AccordBy
<1>0. Books /\ hist \in Ghosts BY DEF Ind
<1>1. /\ req[t].op = "retry" /\ Becomes(t, Free) /\ UNCHANGED ing
      /\ item' = [k \in Items |-> IF k \in owed THEN [item[k] EXCEPT !.state = "pending"] ELSE item[k]]
      /\ batch' = IF owed = {} THEN batch
                  ELSE [batch EXCEPT !.state = "queued", !.lease = "none", !.cancel = FALSE]
  BY DEF RetryWrite, Ends
<1>2. /\ batch'.machine = batch.machine /\ batch'.lease \in {"none", batch.lease}
      /\ batch'.state \in {"queued", batch.state}
      /\ owed # {} => batch'.state = "queued" /\ batch'.lease = "none"
  BY <1>0, <1>1 DEF Books, Batches
<1>3. hist'.late = late
  <2>1. hist' = [hist EXCEPT !.again = again, !.late = late] BY <1>0 DEF RetryWrite, Ghosts
  <2> HIDE DEF again, late
  <2> QED BY <1>0, <2>1 DEF Ghosts
<1>4. ~Reports(Free, i) /\ ~Fails(req[t], i) BY <1>1 DEF Reports, Fails, Quits, Free
<1>5. /\ KeepsWords(i) /\ KeepsSaid(i) /\ KeepsCallers(i) /\ KeepsDesks(i)
  BY <1>1, <1>4, UnheededKeeps
<1>6. CASE i \notin owed
  <2>1. item'[i] = item[i] BY <1>1, <1>6
  <2>2. KeepsBook(i) BY <1>2, <2>1 DEF KeepsBook, Settled, Whole
  <2> QED BY <1>5, <2>2, SureKept
<1>7. CASE i \in owed
  <2>1. \A m \in Machines : ~ing[m].has BY <1>3, <1>7
  <2>2. batch'.state = "queued" /\ batch'.lease = "none" BY <1>2, <1>7
  <2>3. \A u \in Requests : Reports(req'[u], i) => req'[u] = req[u] /\ req[u].who \in Machines
    BY <1>5, ReporterIs DEF KeepsWords
  <2>4. Awaited(i)' BY <1>1, <2>1, <2>3 DEF Awaited, Away
  <2>5. Known(i)' BY <1>1, <2>1 DEF Known
  <2>6. Firm(i)' BY <1>1, <2>1, <2>3 DEF Firm, Reports
  <2>7. Closing(i)' /\ Whole(i)' BY <2>2 DEF Closing, LeaseLive, Whole
  <2> QED BY <2>4, <2>5, <2>6, <2>7 DEF Sure
<1> QED BY <1>6, <1>7

\* A claim that goes through finds nothing said that is not written, and gives
\* the machine what the ledger says, unless it has it from before.
LEMMA MintAccord ==
    ASSUME Ind, Checkpoint, Accord, Outgrows, NEW t \in Requests, ClaimMint(t),
           ~(Turned(t) /\ UNCHANGED <<ledger, hist>>)
    PROVE  Accord'
<1> DEFINE m == req[t].who
           rec == Takes(m, ing[m])
<1> SUFFICES ASSUME NEW i \in Items, i \notin hist'.late \cup hist'.apart, Sure(i) PROVE Sure(i)'
  BY AccordBy
<1>1. /\ m \in Machines /\ Ends(t) /\ item' \in [Items -> ItemRows]
      /\ item'[i].state = item[i].state
      /\ batch'.machine = m /\ batch'.state \in {"claimed", "running"}
      /\ ing[m].at = t => ing' = [ing EXCEPT ![m] = rec] /\ (~ing[m].has \/ ing[m].unclaimed)
                            /\ ing[m].step = "idle"
      /\ hist'.late = (IF Outstanding \/ ing[m].at # t THEN Items ELSE hist.late)
      /\ hist'.apart = (IF ing[m].has /\ batch.machine # m THEN Items ELSE hist.apart)
  BY MintStep
<1>2. ~Outstanding /\ ing[m].at = t /\ (ing[m].has => batch.machine = m) BY <1>1
<1>3. \A u \in Requests : ~Reports(req[u], i) /\ ~Reports(req'[u], i)
  <2>1. \A u \in Requests : ~Reports(req[u], i) BY <1>2 DEF Outstanding, Reports, Fails, Quits
  <2>2. ~Reports(Free, i) BY DEF Reports, Fails, Quits, Free
  <2> QED BY <1>1, <2>1, <2>2, Told DEF Ends
<1>4. Awaited(i)' /\ Firm(i)' /\ Closing(i)' BY <1>3 DEF Awaited, Firm, Closing, Reports
<1>5. ing'[m] = rec BY <1>1, <1>2 DEF Ind, Floor
<1>6. /\ ing[m].has => rec.stage = ing[m].stage /\ rec.staged = ing[m].staged
      /\ ~ing[m].has => rec.staged = {} /\ rec.stage[i] = item'[i].state
  BY <1>1, <1>2, TakesDesk
<1> HIDE DEF m, rec
<1>7. Known(i)'
  <2>1. \A u \in Requests : ~Fails(req[u], i) BY <1>3 DEF Reports
  <2>2. CASE ing[m].has
    <3>1. /\ i \in ing[m].staged \/ ing[m].stage[i] \in ItemTerminal => Settled(i)
          /\ ing[m].stage[i] = "failed" => Settled(i)
      BY <1>1, <1>2, <2>1, <2>2 DEF Sure, Known
    <3> QED BY <1>1, <1>5, <1>6, <2>2, <3>1 DEF Known, Settled
  <2>3. CASE ~ing[m].has
    BY <1>1, <1>5, <1>6, <2>3 DEF Known, Settled, ItemTerminal
  <2> QED BY <2>2, <2>3
<1>8. Whole(i)' BY <1>1 DEF Whole
<1> QED BY <1>4, <1>7, <1>8 DEF Sure

LEMMA CallOutgrows ==
    ASSUME Ind, NEW m, NEW rec, NEW op, NEW i, NEW arg, Callable(m, rec, op, i, arg),
           Call(m, rec, op, i, arg)
    PROVE  Outgrows
<1> DEFINE r == Request(op, m, i, arg, rec)
<1>1. r.op \in ItemOps => r.i \in Items BY RequestIs DEF Callable, ItemOps
<1>2. UNCHANGED hist \/ hist' = Unsaid(r) BY DEF Call
<1> HIDE DEF r
<1> QED BY <1>1, <1>2, UnsaidIs DEF Ind, Outgrows

LEMMA MachinesOutgrow ==
    ASSUME Ind, Checkpoint, NEW m \in Machines,
           \/ Works(m) \/ GivesUpWaiting(m) \/ Beat(m) \/ StopHere(m) \/ Restart(m) \/ Claims(m)
    PROVE  Outgrows
<1>1. CASE UNCHANGED hist BY <1>1 DEF Outgrows
<1>2. CASE Works(m)
  <2>1. Shaped(m) BY <1>2, WorksShaped
  <2> QED BY <1>1, <2>1, CallOutgrows DEF Shaped, Calls, Turns
<1>3. CASE GivesUpWaiting(m)
  <2>1. hist' = Unsaid(req[ing[m].at]) BY <1>3 DEF GivesUpWaiting
  <2>2. ing[m].at \in Requests BY <1>3, AtDesk DEF GivesUpWaiting
  <2>3. req[ing[m].at].op \in ItemOps => req[ing[m].at].i \in Items BY <2>2, ItemAsked
  <2> QED BY <2>1, <2>3, UnsaidIs DEF Ind, Outgrows
<1> QED BY <1>1, <1>2, <1>3 DEF Beat, StopHere, Restart, Claims

LEMMA ServesOutgrow ==
    ASSUME Ind, Checkpoint, NEW t \in Requests, Serves(t) PROVE Outgrows
<1>0. Books /\ hist \in Ghosts /\ batch \in Batches BY DEF Ind, Books
<1>1. CASE UNCHANGED hist BY <1>1 DEF Outgrows
<1>2. ASSUME NEW late \in SUBSET Items, hist.late \subseteq late,
             hist' = [hist EXCEPT !.late = late]
      PROVE  Outgrows
  BY <1>0, <1>2, LateIs DEF Outgrows
<1>3. ASSUME req[t].op \in ItemOps, Noting(t) PROVE Outgrows
  BY <1>0, <1>3, ItemAsked, NotingIs DEF Outgrows
<1>4. CASE ClaimCheck(t) \/ ListSweep(t) \/ CancelCheck(t)
  <2>1. /\ Sweep(req[t]) /\ req[t].op \in {"claim", "list", "cancel"}
        /\ req[t].step = "sweep" \/ req[t].op = "list"
    BY <1>4 DEF ClaimCheck, ListSweep, CancelCheck
  <2>2. req[t].stale \in BOOLEAN /\ req[t].stopped \in BOOLEAN
    BY <2>1, RequestAsked DEF Asked
  <2> QED BY <1>0, <2>1, <2>2, SweepIs DEF Outgrows
<1>5. CASE ClaimMint(t) /\ ~(Turned(t) /\ UNCHANGED <<ledger, hist>>)
  <2>1. /\ hist'.late = (IF Outstanding \/ ing[req[t].who].at # t THEN Items ELSE hist.late)
        /\ hist'.apart = (IF ing[req[t].who].has /\ batch.machine # req[t].who THEN Items ELSE hist.apart)
    BY <1>5, MintStep
  <2> QED BY <1>0, <2>1 DEF Outgrows, Ghosts
<1>6. CASE StatusWrite(t) BY <1>1, <1>3, <1>6 DEF StatusWrite, ItemOps
<1>7. CASE ResultWrite(t) BY <1>1, <1>3, <1>7 DEF ResultWrite, ItemOps
<1>8. CASE UploadedWrite(t)
  <2> DEFINE late == IF Overtaken(req[t]) THEN hist.late \cup {req[t].i} ELSE hist.late
  <2>1. hist' = [hist EXCEPT !.late = late] BY <1>0, <1>8 DEF UploadedWrite, Ghosts
  <2>2. req[t].i \in Items BY <1>8, PublishIs
  <2>3. late \in SUBSET Items /\ hist.late \subseteq late BY <1>0, <2>2 DEF Ghosts
  <2> HIDE DEF late
  <2> QED BY <1>2, <2>1, <2>3
<1>9. CASE BeatWrite(t)
  <2> DEFINE late == IF Holds(req[t].who) THEN hist.late ELSE Items
  <2>1. hist' = [hist EXCEPT !.late = late] BY <1>0, <1>9 DEF BeatWrite, Ghosts
  <2>2. late \in SUBSET Items /\ hist.late \subseteq late BY <1>0 DEF Ghosts
  <2> HIDE DEF late
  <2> QED BY <1>2, <2>1, <2>2
<1>10. CASE ReleaseWrite(t)
  <2> DEFINE late == IF req[t].arg # "cancelled" /\ ~Holds(req[t].who) THEN Items ELSE hist.late
  <2>1. hist' = [hist EXCEPT !.late = late] BY <1>0, <1>10 DEF ReleaseWrite, Ghosts
  <2>2. late \in SUBSET Items /\ hist.late \subseteq late BY <1>0 DEF Ghosts
  <2> HIDE DEF late
  <2> QED BY <1>2, <2>1, <2>2
<1>11. CASE CancelFlag(t)
  <2> DEFINE wedged == hist.wedged \/ (~req[t].end /\ batch.state = "queued")
  <2>1. hist' = [hist EXCEPT !.wedged = wedged] BY <1>0, <1>11 DEF CancelFlag, Ghosts
  <2> HIDE DEF wedged
  <2>2. hist'.late = hist.late /\ hist'.apart = hist.apart BY <1>0, <2>1 DEF Ghosts
  <2> QED BY <2>2 DEF Outgrows
<1>12. CASE RetryWrite(t)
  <2> DEFINE owed == {i \in Items : item[i].state \in {"failed", "proxies_live"}}
             again == hist.again \cup {i \in owed : Published(i)}
             late == IF \E m \in Machines : ing[m].has THEN hist.late \cup owed ELSE hist.late
  <2>1. hist' = [hist EXCEPT !.again = again, !.late = late] BY <1>0, <1>12 DEF RetryWrite, Ghosts
  <2>2. hist.late \subseteq late OBVIOUS
  <2> HIDE DEF again, late
  <2>3. hist'.late = late /\ hist'.apart = hist.apart BY <1>0, <2>1 DEF Ghosts
  <2> QED BY <2>2, <2>3 DEF Outgrows
<1>13. CASE \/ ClaimItems(t) \/ ClaimNames(t) \/ UploadedCheck(t) \/ CancelEnd(t)
            \/ (ClaimMint(t) /\ Turned(t) /\ UNCHANGED <<ledger, hist>>)
  BY <1>1, <1>13 DEF ClaimItems, ClaimNames, UploadedCheck, CancelEnd
<1> QED BY <1>4, <1>5, <1>6, <1>7, <1>8, <1>9, <1>10, <1>11, <1>12, <1>13 DEF Serves

LEMMA NextAccord == Ind /\ Checkpoint /\ Accord /\ [Next]_vars => Accord'
<1> SUFFICES ASSUME Ind, Checkpoint, Accord, [Next]_vars PROVE Accord' OBVIOUS
<1>1. CASE UNCHANGED vars
  <2>1. UNCHANGED <<batch, item, req, ing, hist>> BY <1>1 DEF vars, ledger
  <2>2. Outgrows BY <2>1 DEF Outgrows
  <2> QED BY <2>1, <2>2, AccordBy, BookStays, SilenceKept, DesksStay, SureKept
<1>2. ASSUME NEW m \in Machines,
             \/ Works(m) \/ GivesUpWaiting(m) \/ Beat(m) \/ StopHere(m) \/ Restart(m) \/ Claims(m)
      PROVE  Accord'
  BY <1>2, MachinesOutgrow, WorksAccord, GivesUpAccord, IdlersAccord
<1>3. CASE \/ List \/ Cancel \/ Retry \/ Lapse
           \/ \E m \in Machines, i \in Items : Land(m, i)
  <2>1. UNCHANGED hist BY <1>3 DEF List, Cancel, Retry, Lapse, Land
  <2> QED BY <1>3, <2>1, BrowserAccord DEF Outgrows
<1>4. ASSUME NEW t \in Requests, Serves(t) PROVE Accord'
  <2>1. Outgrows BY <1>4, ServesOutgrow
  <2> QED BY <1>4, <2>1, SweepsAccord, MintAccord, StatusWriteAccord, ResultWriteAccord,
      UploadedCheckAccord, UploadedWriteAccord, BeatWriteAccord, ReleaseWriteAccord,
      RetryWriteAccord DEF Serves
<1> QED BY <1>1, <1>2, <1>3, <1>4 DEF Next

LEMMA InitAccord == Init => Accord
<1> SUFFICES ASSUME Init, NEW i \in Items PROVE Sure(i) BY DEF Accord
<1>1. \A t \in Requests : ~Reports(req[t], i) BY DEF Init, Free, Reports, Fails, Quits
<1>2. \A m \in Machines : ~ing[m].has BY DEF Init
<1>3. batch.state = "queued" BY DEF Init
<1> QED BY <1>1, <1>2, <1>3 DEF Sure, Awaited, Known, Firm, Closing, Whole, Reports

-----------------------------------------------------------------------------
(* What is proved of the batch *)

\* Every state a run can reach is of its type, however requests, sweeps, claims
\* and restarts cross: each clip's row is its own and exists, and a machine that
\* waits waits for a request that is being served.
THEOREM TypeCorrect == Spec => []TypeOK
<1>1. Init => Ind BY InitHolds
<1>2. Ind /\ [Next]_vars => Ind' BY NextKeeps
<1>3. Ind => TypeOK BY TypesGiveTypeOK
<1> QED BY <1>1, <1>2, <1>3, PTL DEF Spec

\* A published clip keeps its row, in the archive, and is never called cancelled,
\* up to the exceptions that the property names.
THEOREM PublishedStays == Spec => []PublishedStands
<1>1. Init => Ind /\ Archive BY InitHolds, InitArchive
<1>2. Ind /\ Archive /\ [Next]_vars => Ind' /\ Archive' BY NextKeeps, NextArchive
<1>3. Ind /\ Archive => PublishedStands
  <2> SUFFICES ASSUME Ind, Archive, NEW i \in Items, i \notin hist.late \cup hist.again, ~hist.twice
               PROVE  /\ Published(i) => item[i].row # Nobody /\ rows[item[i].row].status = "indexed"
                      /\ item[i].state = "cancelled" => \A s \in Slots : s[1] = i => rows[s].status # "indexed"
    BY DEF PublishedStands
  <2> QED BY DEF Archive, Ledger, InArchive, Published
<1> QED BY <1>1, <1>2, <1>3, PTL DEF Spec

\* A cancelled batch leaves no half-made row, unless two claims named one clip:
\* the rows that go are those the items name, and there are no others.
THEOREM NothingHaunts == Spec => []NoGhosts
<1>1. Init => Ind /\ Archive BY InitHolds, InitArchive
<1>2. Ind /\ Archive /\ [Next]_vars => Ind' /\ Archive' BY NextKeeps, NextArchive
<1>3. Archive => NoGhosts BY DEF Archive, Ledger
<1> QED BY <1>1, <1>2, <1>3, PTL DEF Spec

\* "done" is never said of a batch over a clip that failed, owes its original or
\* was not finished, up to the exceptions that the property names: what the holder
\* takes for finished is settled in the ledger, and it says nothing twice.
THEOREM DoneMeansWhole == Spec => []DoneIsWhole
<1>1. Init => Ind /\ Checkpoint /\ Accord BY InitHolds, InitCheckpoint, InitAccord
<1>2. Ind /\ Checkpoint /\ Accord /\ [Next]_vars => Ind' /\ Checkpoint' /\ Accord'
  BY NextKeeps, NextCheckpoint, NextAccord
<1>3. Accord => DoneIsWhole BY DEF Accord, Sure, Whole, DoneIsWhole
<1> QED BY <1>1, <1>2, <1>3, PTL DEF Spec

=============================================================================
