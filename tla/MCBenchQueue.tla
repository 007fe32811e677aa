---------------------------- MODULE MCBenchQueue ----------------------------
(***************************************************************************)
(* A few jobs under one or two keys, one request at a time.                *)
(***************************************************************************)
EXTENDS BenchQueue

\* Nobody cancels a job that is still queued, which would only shorten the
\* queue: what is left is smaller and has every restart in it.
PatientNext ==
  \/ \E r \in Req : Submit(r) \/ CancelSignal(r)
  \/ \E r \in Req, j \in Job \ InState("queued") : CancelLoad(r, j)
  \/ RecoverNext \/ PickJob \/ BoxBusy \/ Execute \/ RunJob
  \/ \E j \in Job : ChildExits(j)
  \/ Restart

PatientSpec == Init /\ [][PatientNext]_vars /\ Fairness
=============================================================================
