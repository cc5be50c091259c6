---------------------------- MODULE JobLifecycle ----------------------------
(***************************************************************************)
(* What the fleet job queue promises about one unit of work, with the       *)
(* database, the handlers and their races taken away: a job waits, is       *)
(* granted to one machine at a time, is granted no more often than its kind *)
(* allows, may be handed to the house once the fleet has spent its tries,   *)
(* and once over it stays over until it is forgotten.                       *)
(*                                                                          *)
(* db.py states this in the comments over the queue (the compare-and-set,   *)
(* "POSSESSION EXPIRES", "RETRY UNTIL THE BUDGET, THEN ABANDON", "THE PIN   *)
(* IS ONE-WAY").                                                            *)
(***************************************************************************)
EXTENDS Naturals

CONSTANTS Jobs, Machines, Tries, HouseJobs, NoOne

VARIABLES
    phase,       \* job -> where it is in its life
    owner,       \* job -> the machine it is granted to
    granted      \* job -> how often it has been granted

life == <<phase, owner, granted>>

Same(j) == /\ phase'[j] = phase[j]
           /\ owner'[j] = owner[j]
           /\ granted'[j] = granted[j]

Goes(j, from, to) ==
    /\ phase[j] \in from
    /\ phase'[j] = to

Submit(j) == /\ Goes(j, {"none"}, "waiting")
             /\ owner'[j] = NoOne
             /\ granted'[j] = 0

\* A machine is granted one job at a time.  A job taken back from a machine that
\* went quiet may be granted again in the same step.
Grant(j, m) ==
    /\ Goes(j, {"waiting", "granted"}, "granted")
    /\ granted[j] < Tries[j]
    /\ owner'[j] = m
    /\ granted'[j] = granted[j] + 1
    /\ \A i \in Jobs \ {j} : owner'[i] # m

GiveBack(j) == /\ Goes(j, {"granted"}, "waiting")
               /\ granted[j] < Tries[j]
               /\ owner'[j] = NoOne
               /\ granted'[j] = granted[j]

\* Taken in house only once every try is spent.
HandOver(j) == /\ Goes(j, {"granted"}, "house")
               /\ j \in HouseJobs
               /\ granted[j] >= Tries[j]
               /\ owner'[j] = NoOne
               /\ granted'[j] = granted[j]

\* Over is final; how often a job was granted no longer matters.
End(j) == /\ Goes(j, {"waiting", "granted", "house"}, "over")
          /\ owner'[j] = NoOne
          /\ granted'[j] = 0

Forget(j) == /\ Goes(j, {"over"}, "forgotten")
             /\ owner'[j] = NoOne
             /\ granted'[j] = 0

Moves(j) == \/ Submit(j) \/ GiveBack(j) \/ HandOver(j) \/ End(j) \/ Forget(j)
            \/ \E m \in Machines : Grant(j, m)

Init == /\ phase = [j \in Jobs |-> "none"]
        /\ owner = [j \in Jobs |-> NoOne]
        /\ granted = [j \in Jobs |-> 0]

\* One sweep moves many jobs at once, and a claim may follow it in the same
\* transaction, so a step moves any set of jobs.
Next == \A j \in Jobs : Same(j) \/ Moves(j)

Spec == Init /\ [][Next]_life
=============================================================================
