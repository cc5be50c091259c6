----------------------------- MODULE MCJobQueue -----------------------------
(* Instances of JobQueue for TLC. *)
EXTENDS JobQueue, TLC

CONSTANTS m1, m2, t1, t2, j1, j2

MCMachines == {m1, m2}
MCOneMachine == {m1}
MCThreads == {t1, t2}
MCKinds == {"media", "whisper"}
MCPinnable == {"media"}
MCNoJobs == {}

\* A media job and a forced whisper job: two tries, then the pin; one try.
MCJobs == 1..2
MCMixedKindOf == [j \in MCJobs |-> IF j = 1 THEN "media" ELSE "whisper"]
MCMixedBudget == [k \in MCKinds |-> IF k = "media" THEN 2 ELSE 1]
MCForced == {2}
MCAble == [m \in MCMachines |-> MCJobs]
MCWideCap == [k \in MCKinds |-> 2]

\* Two alike media jobs tried once each, under a fleet cap of one.
MCAlike == {j1, j2}
MCKindOf == [j \in MCAlike |-> "media"]
MCAlikeAble == [m \in MCMachines |-> MCAlike]
MCOnce == [k \in MCKinds |-> 1]
MCCap == [k \in MCKinds |-> 1]

\* One media job.
MCOneJob == {1}
MCOneKindOf == [j \in MCOneJob |-> "media"]
MCOneAble == [m \in MCOneMachine |-> MCOneJob]

MCAlikeSymmetry ==
    Permutations(MCMachines) \cup Permutations(MCThreads) \cup Permutations(MCAlike)
MCSymmetry == Permutations(MCMachines) \cup Permutations(MCThreads)
=============================================================================
