---------------------------- MODULE MCBenchLives ----------------------------
(***************************************************************************)
(* The lives of two jobs, and a crowd at a box that stays busy, explored   *)
(* apart in one run.                                                       *)
(***************************************************************************)
EXTENDS BenchQueue

\* Who meets the queue: one request at a time, or several at once.
VARIABLE met

Someone == CHOOSE r \in Req : TRUE
SomeKey == CHOOSE k \in Key : TRUE

\* One request at a time, under one key, and two jobs; the agent restarts.
AloneNext ==
  \/ minted < 2 /\ \E s \in JobSpec : SubmitLookup(Someone, SomeKey, s)
  \/ SubmitDepth(Someone) \/ SubmitRefuse(Someone) \/ SubmitCreate(Someone) \/ SubmitIndex(Someone)
  \/ Cancel(Someone)
  \/ RecoverNext \/ PickJob \/ BoxBusy \/ Execute \/ RunJob
  \/ \E j \in Job : ChildExits(j)
  \/ Restart

\* The box is another's: jobs are submitted and cancelled, picked and put back.
CrowdNext ==
  \/ \E r \in Req : Submit(r) \/ Cancel(r)
  \/ RecoverNext \/ PickJob \/ BoxBusy

MetNext ==
  \/ met = "alone" /\ AloneNext /\ UNCHANGED met
  \/ met = "crowd" /\ CrowdNext /\ UNCHANGED met

MetSpec == Init /\ met \in {"alone", "crowd"} /\ [][MetNext]_<<vars, met>>
=============================================================================
