------------------------------ MODULE BenchNode ------------------------------
(***************************************************************************)
(* The two ends of a bench job below its queue: the operator's command, on *)
(* one machine, and the box the job runs on, another.  They meet in the    *)
(* job's record and the peer channel, which are the subject of BenchQueue  *)
(* and BenchJournal; neither reads the other's state.                      *)
(***************************************************************************)
EXTENDS BenchCommand

CONSTANTS Commit, Name, Started, Faults, MaxFaults, ServeReuse, AllowUnpublished,
          KeepBuilds, MaxJobs

VARIABLES agent, worker, queue, repo, tree, known, cargo, lock, target, cache, kept,
          proc, lease, file, spent, judged

Box == INSTANCE BenchBox WITH job <- queue

ASSUME BoxAssumption == Box!BoxAssumption

\* What a job hands back was written by its own gate, built from its commit.
ResultIsOfTheCommit == Box!ResultIsOfTheCommit

\* Nothing that was in the way of a gate runs beside it, and no server is ended
\* under it.
GateHasTheBox == Box!GateHasTheBox

\* A job whose build is not in the cache any more is built again.
NotCachedIsRebuilt == Box!NotCachedIsRebuilt
=============================================================================
