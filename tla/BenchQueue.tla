----------------------------- MODULE BenchQueue -----------------------------
(***************************************************************************)
(* One machine's bench queue (crates/atlasctl-agent/src/bench): jobs kept  *)
(* on disk, requests that submit and cancel them, and the one worker that  *)
(* runs them and, after a restart of the agent, recovers them.             *)
(*                                                                         *)
(* Requests are served on threads of their own and the worker runs on      *)
(* another; what they share is the disk (`record`, `keyed`, `journal`) and *)
(* the cancel flags.  None of it is locked across two accesses, so every   *)
(* read or write of the disk is a step.  A restart takes the worker, the   *)
(* flags and the requests; the disk and the gate processes stay.           *)
(*                                                                         *)
(* A write succeeds and is whole: BenchJournal is about the torn ones.  A  *)
(* job's id is its place in the order of creation.                         *)
(***************************************************************************)
EXTENDS Naturals, FiniteSets, Sequences

CONSTANTS Key,         \* idempotency keys that submitters choose
          JobSpec,     \* what a submission asks for
          Req,         \* slots for requests in progress
          None,        \* no value
          QueueDepth,  \* queue_depth of bench.yaml
          MaxJobs,     \* BOUND: jobs ever created
          MaxRestarts, \* BOUND: restarts of the agent
          LogLines     \* BOUND: lines a gate prints

ASSUME BoundsAreNat == {QueueDepth, MaxJobs, MaxRestarts, LogLines} \subseteq Nat
ASSUME RequestsAreFinite == IsFiniteSet(Req) /\ Req # {}

Job     == 1..MaxJobs
Outcome == {"completed", "failed", "timed_out", "cancelled", "orphaned"}
State   == {"queued", "preparing", "building", "running", "collecting", "done"}
\* What a journal holds: the child's output and, written as the outcome it
\* carries, Done.  The events that tell how far a job has come are left out.
Event   == {"log"} \cup Outcome

\* The record of a job; terminal means Done, and Done says how it ended.
JobRecord ==
  {r \in [key: Key, spec: JobSpec, state: State, outcome: Outcome \cup {None}] :
     r.state = "done" <=> r.outcome # None}

\* The gate process of a job; a recordless one has exited 0 and left no record.
Child == {"none", "up", "recordless", "ended"}

Recovering == {"list", "recover"}
Stage == Recovering \cup
         {"idle", "picked", "begin", "preparing", "prepared", "building", "built",
          "checked", "spawned", "wait", "killing", "collecting", "finish", "record", "retain"}
\* What the worker has in hand: the job, how it is to end, whether the wait is
\* a resumed one, and how far it has read the child's log.
Worker == [at: Stage, job: Job \cup {None}, end: Outcome \cup {None},
           recovering: BOOLEAN, resumed: BOOLEAN, tailed: 0..LogLines]

Request ==
  [at: {"depth", "create", "index"}, key: Key, spec: JobSpec,
   job: Job \cup {None}]
  \cup [at: {"signal", "append", "save"}, job: Job]

ASSUME NoneIsFresh ==
  /\ None \notin Job /\ None \notin Outcome
  /\ None \notin JobRecord /\ None \notin Request

VARIABLES
  record,    \* [Job -> job.json]
  keyed,     \* [Key -> the job by-key/<key> names]
  journal,   \* [Job -> events.ndjson]
  child,     \* [Job -> the gate process]
  flag,      \* [Job -> the cancel flag the worker registered, if it has]
  worker,
  todo,      \* the jobs recovery has yet to look at
  requests,  \* [Req -> the request in that slot]
  minted,    \* how many jobs were ever created
  restarts   \* how often the agent has restarted

disk   == <<record, keyed, journal, minted>>
memory == <<flag, worker, todo>>
vars   == <<record, keyed, journal, child, flag, worker, todo, requests, minted, restarts>>

TypeOK ==
  /\ record   \in [Job -> JobRecord \cup {None}]
  /\ keyed    \in [Key -> Job \cup {None}]
  /\ journal  \in [Job -> Seq(Event)]
  /\ child    \in [Job -> Child]
  /\ flag     \in [Job -> {"none", "clear", "set"}]
  /\ worker   \in Worker
  /\ todo     \subseteq Job
  /\ requests \in [Req -> Request \cup {None}]
  /\ minted   \in 0..MaxJobs
  /\ restarts \in 0..MaxRestarts

AtStart == [at |-> "list", job |-> None, end |-> None,
            recovering |-> TRUE, resumed |-> FALSE, tailed |-> 0]

Init ==
  /\ record   = [j \in Job |-> None]
  /\ keyed    = [k \in Key |-> None]
  /\ journal  = [j \in Job |-> <<>>]
  /\ child    = [j \in Job |-> "none"]
  /\ flag     = [j \in Job |-> "none"]
  /\ worker   = AtStart
  /\ todo     = {}
  /\ requests = [r \in Req |-> None]
  /\ minted   = 0
  /\ restarts = 0

-----------------------------------------------------------------------------
(* The disk *)

OnDisk   == {j \in Job : record[j] # None}
InState(s) == {j \in OnDisk : record[j].state = s}
Unfinished == OnDisk \ (InState("queued") \cup InState("done"))
Oldest(S) == CHOOSE j \in S : \A i \in S : j <= i
Newest(S) == CHOOSE j \in S : \A i \in S : i <= j
Up       == {j \in Job : child[j] = "up"}

\* job.json is rewritten whole, from the copy in the writer's hands.
Save(j, state, outcome) ==
  record' = [record EXCEPT ![j] = [@ EXCEPT !.state = state, !.outcome = outcome]]

Journal(j, event) == journal' = [journal EXCEPT ![j] = Append(@, event)]

-----------------------------------------------------------------------------
(* submit: the key, the depth of the queue, the record, the index          *)

Arrive(r, q) == requests[r] = None /\ requests' = [requests EXCEPT ![r] = q]
At(r, stage) == requests[r] # None /\ requests[r].at = stage
Answer(r)    == requests' = [requests EXCEPT ![r] = None]
Advance(r, stage) == requests' = [requests EXCEPT ![r] = [@ EXCEPT !.at = stage]]

\* The key is new.  (A key that names a job is answered with that job, or with
\* a conflict when the request differs; neither changes anything.)
SubmitLookup(r, k, s) ==
  /\ keyed[k] = None
  /\ Arrive(r, [at |-> "depth", key |-> k, spec |-> s, job |-> None])
  /\ UNCHANGED <<disk, memory, child, restarts>>

\* Seeded fault: a full queue takes one more.
SubmitDepthWhenFull(r) ==
  /\ At(r, "depth")
  /\ IF Cardinality(InState("queued")) > QueueDepth THEN Answer(r) ELSE Advance(r, "create")
  /\ UNCHANGED <<disk, memory, child, restarts>>

SubmitDepth(r) ==
  /\ At(r, "depth")
  /\ IF Cardinality(InState("queued")) >= QueueDepth
     THEN Answer(r)                                    \* QueueFull
     ELSE Advance(r, "create")
  /\ UNCHANGED <<disk, memory, child, restarts>>

\* Too little disk, or a job of this sender with this key in this very second.
SubmitRefuse(r) ==
  /\ At(r, "create")
  /\ Answer(r)
  /\ UNCHANGED <<disk, memory, child, restarts>>

SubmitCreate(r) ==
  /\ At(r, "create")
  /\ minted < MaxJobs
  /\ LET j == minted + 1
     IN  /\ minted' = j
         /\ record' = [record EXCEPT ![j] =
                         [key |-> requests[r].key, spec |-> requests[r].spec,
                          state |-> "queued", outcome |-> None]]
         /\ requests' = [requests EXCEPT ![r] = [@ EXCEPT !.at = "index", !.job = j]]
  /\ UNCHANGED <<keyed, journal, memory, child, restarts>>

\* The key is indexed, the worker woken, the submitter answered.
SubmitIndex(r) ==
  /\ At(r, "index")
  /\ keyed' = [keyed EXCEPT ![requests[r].key] = requests[r].job]
  /\ Answer(r)
  /\ UNCHANGED <<record, journal, minted, memory, child, restarts>>

-----------------------------------------------------------------------------
(* cancel: the record decides, and is not looked at again *)

\* A terminal job is answered with its state, an unknown one refused.
CancelLoad(r, j) ==
  /\ j \in OnDisk \ InState("done")
  /\ Arrive(r, [at |-> IF j \in InState("queued") THEN "append" ELSE "signal",
                job |-> j])
  /\ UNCHANGED <<disk, memory, child, restarts>>

CancelSignal(r) ==
  /\ At(r, "signal")
  /\ flag' = [flag EXCEPT ![requests[r].job] = IF @ = "none" THEN "none" ELSE "set"]
  /\ Answer(r)
  /\ UNCHANGED <<disk, worker, todo, child, restarts>>

CancelAppend(r) ==
  /\ At(r, "append")
  /\ IF requests[r].job \in OnDisk THEN Journal(requests[r].job, "cancelled")
     ELSE UNCHANGED journal
  /\ Advance(r, "save")
  /\ UNCHANGED <<record, keyed, minted, memory, child, restarts>>

CancelSave(r) ==
  /\ At(r, "save")
  /\ IF requests[r].job \in OnDisk THEN Save(requests[r].job, "done", "cancelled")
     ELSE UNCHANGED record
  /\ Answer(r)
  /\ UNCHANGED <<keyed, journal, minted, memory, child, restarts>>

-----------------------------------------------------------------------------
(* The worker starts: recovery *)

mine == worker.job
Go(stage) == worker' = [worker EXCEPT !.at = stage]
End(o)    == worker' = [worker EXCEPT !.at = "finish", !.end = o]

\* Seeded fault: a job that died collecting is taken for done.
ListRecordsButCollecting ==
  /\ worker.at = "list"
  /\ todo' = Unfinished \ InState("collecting")
  /\ Go("recover")
  /\ UNCHANGED <<disk, child, flag, requests, restarts>>

ListRecords ==
  /\ worker.at = "list"
  /\ todo' = Unfinished
  /\ Go("recover")
  /\ UNCHANGED <<disk, child, flag, requests, restarts>>

\* The next job recovery looks at, newest first.
Recover(j) == worker.at = "recover" /\ todo # {} /\ j = Newest(todo) /\ todo' = todo \ {j}

\* The child the record names is still that process: wait for it.
ResumeRunning(j) ==
  /\ Recover(j)
  /\ j \in InState("running") /\ j \in Up
  /\ flag' = [flag EXCEPT ![j] = "clear"]
  /\ \/ worker' = [worker EXCEPT !.at = "wait", !.job = j, !.resumed = TRUE]
     \/ \* its worktree cannot be had
        worker' = [worker EXCEPT !.at = "finish", !.job = j, !.end = "orphaned"]
  /\ UNCHANGED <<disk, child, requests, restarts>>

\* Seeded fault: a job that died with the agent is queued again.
OrphanRequeues(j) ==
  /\ Recover(j)
  /\ ~(j \in InState("running") /\ j \in Up)
  /\ Save(j, "queued", None)
  /\ UNCHANGED <<keyed, journal, minted, child, flag, worker, requests, restarts>>

Orphan(j) ==
  /\ Recover(j)
  /\ ~(j \in InState("running") /\ j \in Up)
  /\ worker' = [worker EXCEPT !.at = "finish", !.job = j, !.end = "orphaned"]
  /\ UNCHANGED <<disk, child, flag, requests, restarts>>

Recovered ==
  /\ worker.at = "recover"
  /\ todo = {}
  /\ worker' = [worker EXCEPT !.at = "idle", !.recovering = FALSE]
  /\ UNCHANGED <<disk, child, flag, todo, requests, restarts>>

-----------------------------------------------------------------------------
(* The worker takes a job and runs it *)

PickJob ==
  /\ worker.at = "idle"
  /\ InState("queued") # {}
  /\ worker' = [AtStart EXCEPT !.at = "picked", !.recovering = FALSE,
                               !.job = Oldest(InState("queued"))]
  /\ UNCHANGED <<disk, child, flag, todo, requests, restarts>>

\* Another spark runs, or the GPU, the memory or the disk is taken.
BoxBusy ==
  /\ worker.at = "picked"
  /\ worker' = [worker EXCEPT !.at = "idle", !.job = None]
  /\ UNCHANGED <<disk, child, flag, todo, requests, restarts>>

\* Seeded fault: the box is not looked at.
ExecuteUnprobed ==
  /\ worker.at = "picked"
  /\ flag' = [flag EXCEPT ![mine] = "clear"]
  /\ Go("begin")
  /\ UNCHANGED <<disk, child, todo, requests, restarts>>

\* Seeded fault: the cancel flag is not registered.
ExecuteUnregistered ==
  /\ worker.at = "picked"
  /\ Up = {}
  /\ Go("begin")
  /\ UNCHANGED <<disk, child, flag, todo, requests, restarts>>

\* No spark runs: the job is the worker's, and its flag is registered.
Execute ==
  /\ worker.at = "picked"
  /\ Up = {}
  /\ flag' = [flag EXCEPT ![mine] = "clear"]
  /\ Go("begin")
  /\ UNCHANGED <<disk, child, todo, requests, restarts>>

BeginPreparing ==
  /\ worker.at = "begin"
  /\ Save(mine, "preparing", None)
  /\ Go("preparing")
  /\ UNCHANGED <<keyed, journal, minted, child, flag, todo, requests, restarts>>

\* The commit is here and published.
CommitReady ==
  /\ worker.at = "preparing"
  /\ Go("prepared")
  /\ UNCHANGED <<disk, child, flag, todo, requests, restarts>>

BeginBuilding ==
  /\ worker.at = "prepared"
  /\ flag[mine] # "set"
  /\ Save(mine, "building", None)
  /\ Go("building")
  /\ UNCHANGED <<keyed, journal, minted, child, flag, todo, requests, restarts>>

\* From the cache, or built; then the record names the binary.
BinaryReady ==
  /\ worker.at = "building"
  /\ Save(mine, "building", None)
  /\ Go("built")
  /\ UNCHANGED <<keyed, journal, minted, child, flag, todo, requests, restarts>>

\* The commit, the worktree, the build, the gate, its params, the spawn or the
\* collection fails.
StageFails ==
  /\ worker.at \in {"preparing", "prepared", "building", "checked", "collecting"}
  /\ End("failed")
  /\ UNCHANGED <<disk, child, flag, todo, requests, restarts>>

\* The flag is looked at between the stages, and by the build itself.
CancelSeen ==
  /\ worker.at \in {"prepared", "building", "built"}
  /\ flag[mine] = "set"
  /\ End("cancelled")
  /\ UNCHANGED <<disk, child, flag, todo, requests, restarts>>

\* The last look at the flag; a cancel from here on is for the wait.
NotCancelled ==
  /\ worker.at = "built"
  /\ flag[mine] # "set"
  /\ Go("checked")
  /\ UNCHANGED <<disk, child, flag, todo, requests, restarts>>

\* The binary knows the gate and takes its params.
Spawn ==
  /\ worker.at = "checked"
  /\ child' = [child EXCEPT ![mine] = "up"]
  /\ Go("spawned")
  /\ UNCHANGED <<disk, flag, todo, requests, restarts>>

RecordRunning ==
  /\ worker.at = "spawned"
  /\ Save(mine, "running", None)
  /\ Go("wait")
  /\ UNCHANGED <<keyed, journal, minted, child, flag, todo, requests, restarts>>

-----------------------------------------------------------------------------
(* The worker waits for the child, collects, and finishes *)

\* What the child has printed is journaled, from the start of its log.
TailLog ==
  /\ worker.at \in {"wait", "killing"}
  /\ worker.tailed < LogLines
  /\ Journal(mine, "log")
  /\ worker' = [worker EXCEPT !.tailed = @ + 1]
  /\ UNCHANGED <<record, keyed, minted, child, flag, todo, requests, restarts>>

WaitEnds ==
  /\ worker.at = "wait"
  /\ mine \notin Up
  /\ Save(mine, "collecting", None)
  /\ Go("collecting")
  /\ UNCHANGED <<keyed, journal, minted, child, flag, todo, requests, restarts>>

\* Seeded fault: only a cancel ends the wait for a child that does not.
KillOnlyOnCancel ==
  /\ worker.at = "wait"
  /\ mine \in Up
  /\ flag[mine] = "set"
  /\ worker' = [worker EXCEPT !.at = "killing", !.end = "cancelled"]
  /\ UNCHANGED <<disk, child, flag, todo, requests, restarts>>

\* A cancel, or max_run_s or the stall limit.
Kill ==
  /\ worker.at = "wait"
  /\ mine \in Up
  /\ worker' = [worker EXCEPT !.at = "killing",
                  !.end = IF flag[mine] = "set" THEN "cancelled" ELSE "timed_out"]
  /\ UNCHANGED <<disk, child, flag, todo, requests, restarts>>

\* SIGTERM to the group, SIGKILL after the grace.
Killed ==
  /\ worker.at = "killing"
  /\ mine \in Up
  /\ child' = [child EXCEPT ![mine] = "ended"]
  /\ UNCHANGED <<disk, flag, worker, todo, requests, restarts>>

KillingEnds ==
  /\ worker.at = "killing"
  /\ mine \notin Up
  /\ Go("finish")
  /\ UNCHANGED <<disk, child, flag, todo, requests, restarts>>

\* A run that waited for its own child knows how it exited; a resumed one only
\* knows that it has.
Collect ==
  /\ worker.at = "collecting"
  /\ IF child[mine] = "recordless" /\ ~worker.resumed THEN End("failed")
     ELSE End("completed")
  /\ UNCHANGED <<disk, child, flag, todo, requests, restarts>>

\* Seeded fault: a journal that has an outcome gets no second one.
AppendDoneUnlessThere ==
  /\ worker.at = "finish"
  /\ IF \E i \in DOMAIN journal[mine] : journal[mine][i] \in Outcome THEN UNCHANGED journal
     ELSE Journal(mine, worker.end)
  /\ Go("record")
  /\ UNCHANGED <<record, keyed, minted, child, flag, todo, requests, restarts>>

AppendDone ==
  /\ worker.at = "finish"
  /\ Journal(mine, worker.end)
  /\ Go("record")
  /\ UNCHANGED <<record, keyed, minted, child, flag, todo, requests, restarts>>

RecordDone ==
  /\ worker.at = "record"
  /\ Save(mine, "done", worker.end)
  /\ flag' = [flag EXCEPT ![mine] = "none"]
  /\ worker' = [AtStart EXCEPT !.recovering = worker.recovering,
                  !.at = IF worker.recovering THEN "recover" ELSE "retain"]
  /\ UNCHANGED <<keyed, journal, minted, child, todo, requests, restarts>>

\* Any finished jobs may be too many or too old.  The index of the key goes
\* with the job, whatever job it names.
Retain ==
  /\ worker.at = "retain"
  /\ \E gone \in SUBSET InState("done") :
       /\ record'  = [j \in Job |-> IF j \in gone THEN None ELSE record[j]]
       /\ journal' = [j \in Job |-> IF j \in gone THEN <<>> ELSE journal[j]]
       /\ keyed'   = [k \in Key |-> IF \E j \in gone : record[j].key = k THEN None
                                    ELSE keyed[k]]
  /\ Go("idle")
  /\ UNCHANGED <<minted, child, flag, todo, requests, restarts>>

-----------------------------------------------------------------------------
(* The environment *)

\* The gate ends by itself.
ChildExits(j) ==
  /\ j \in Up
  /\ \E how \in {"recordless", "ended"} : child' = [child EXCEPT ![j] = how]
  /\ UNCHANGED <<disk, memory, requests, restarts>>

Restart ==
  /\ restarts < MaxRestarts
  /\ restarts' = restarts + 1
  /\ worker'   = AtStart
  /\ todo'     = {}
  /\ flag'     = [j \in Job |-> "none"]
  /\ requests' = [r \in Req |-> None]
  /\ UNCHANGED <<disk, child>>

-----------------------------------------------------------------------------

Submit(r) ==
  \/ \E k \in Key, s \in JobSpec : SubmitLookup(r, k, s)
  \/ SubmitDepth(r) \/ SubmitRefuse(r) \/ SubmitCreate(r)
  \/ SubmitIndex(r)

Cancel(r) ==
  \/ \E j \in Job : CancelLoad(r, j)
  \/ CancelSignal(r) \/ CancelAppend(r) \/ CancelSave(r)

RecoverNext == ListRecords \/ Recovered \/ \E j \in Job : ResumeRunning(j) \/ Orphan(j)

\* A step of the job in hand.
RunJob ==
  \/ BeginPreparing \/ CommitReady \/ BeginBuilding \/ BinaryReady \/ StageFails
  \/ CancelSeen \/ NotCancelled \/ Spawn \/ RecordRunning \/ TailLog \/ WaitEnds
  \/ Kill \/ Killed \/ KillingEnds \/ Collect \/ AppendDone \/ RecordDone \/ Retain

Next ==
  \/ \E r \in Req : Submit(r) \/ Cancel(r)
  \/ RecoverNext \/ PickJob \/ BoxBusy \/ Execute \/ RunJob
  \/ \E j \in Job : ChildExits(j)
  \/ Restart

Spec == Init /\ [][Next]_vars

\* The worker goes on, and finds the box free if it is free again and again.
\* Nobody has to submit or cancel, and a gate need not end unless the worker
\* kills it.
Fairness == WF_vars(RecoverNext) /\ WF_vars(PickJob) /\ WF_vars(RunJob) /\ SF_vars(Execute)

FairSpec == Spec /\ Fairness

-----------------------------------------------------------------------------
(* What the queue promises *)

\* Two gates never run on the box at once, also when the agent dies between
\* starting one and recording it, and comes back with the next job in hand.
\* (runner.rs: "one job at a time is the point".)
OneGateAtATime == Cardinality(Up) <= 1

\* No restart, at whatever step, makes a job's gate run a second time.
NoJobRunsTwice ==
  [][\A j \in Job : child[j] # "up" /\ child'[j] = "up" => child[j] = "none"]_vars

\* Once recovery is over, a job that has begun and not ended is the one the
\* worker has in hand: whatever step the agent died at, every other such job
\* was resumed or orphaned.  (runner.rs: "any other non-terminal job is
\* orphaned".)
NothingLeftBehind == worker.at \notin Recovering => Unfinished \subseteq {mine} \cup todo

\* How a job ended is in its journal before it is in its record, so a follower
\* that is told the job is over has been sent the outcome or can replay it.
\* (machine.rs: "a restart finds the truth on disk".)
OutcomeIsJournaled ==
  \A j \in InState("done") : \E i \in DOMAIN journal[j] : journal[j][i] = record[j].outcome

\* The depth of the queue is read and the job created later: requests served
\* at once may overshoot the limit, each by one job and no more.
DepthRespected == Cardinality(InState("queued")) < QueueDepth + Cardinality(Req)

\* A cancel that answers for a job whose gate is up has set the flag its
\* worker looks at, unless the agent has restarted and not yet come to that
\* job.  (host.rs: "a running one is signalled to its worker".)
CancelIsHeard ==
  [][\A r \in Req : At(r, "signal") /\ requests'[r] = None /\ restarts' = restarts
                    => \/ requests[r].job \notin InState("running") \cap Up
                       \/ flag'[requests[r].job] = "set"
                       \/ worker.at \in Recovering]_vars

\* Done is for good.  (docs/BENCH.md: "a job cancelled while queued is
\* terminal at once".)
DoneIsForGood ==
  [][\A j \in InState("done") : record'[j] \in {record[j], None}]_vars

\* A queued job is run or cancelled in the end, whatever the jobs before it
\* do, unless a gate runs whose job is over or gone: such a gate holds the box
\* as long as it likes.  (runner.rs: "how long a busy box is left before the
\* next probe".)
EveryJobEnds ==
  \A j \in Job : j \in InState("queued")
                 ~> j \notin OnDisk \ InState("done") \/ ~(Up \subseteq Unfinished)

=============================================================================
