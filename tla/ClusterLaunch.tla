--------------------------- MODULE ClusterLaunch ---------------------------
(***************************************************************************)
(* Launching a model across machines: the ClusterDriver of each head       *)
(* (crates/atlasctl-agent/src/clusterdriver) drives prepare, commit,       *)
(* abort, stop and supervise over the rank services of RankService.        *)
(*                                                                         *)
(* A task is one thread of control at a head: a browser tab, whose session *)
(* handles one message at a time, or the supervision loop.  Tasks of one   *)
(* head share its driver and interleave at every await.  A task asks one   *)
(* rank at a time; a remote rank may be out of reach, and the head may     *)
(* give up on an answer while the rank's handler runs on.                  *)
(***************************************************************************)
EXTENDS RankService, FiniteSetsExt, Functions

CONSTANTS HeadNode,    \* the machines that drive launches
          Tab, Watch,  \* tasks: browser tabs and supervision loops
          Home,        \* [Tab \cup Watch -> HeadNode]
          Recipe,      \* recipes; rank i of recipe r runs as <<r, i>>
          Roster,      \* the selections an operator may launch on, head first
          Faults,      \* the kinds of fault a run admits
          MaxFaults    \* BOUND: how many faults a behaviour has

Task == Tab \cup Watch

FaultKinds == {"unreachable", "give_up", "refuse", "run_fails", "rm_fails",
               "dies", "expire", "restart"}

ASSUME LaunchAssumption ==
  /\ HeadNode \subseteq Node
  /\ Home \in [Task -> HeadNode]
  /\ \A ranks \in Roster :
       /\ ranks \in Seq(Node)
       /\ Len(ranks) >= 2
       /\ IsInjective(ranks)
       /\ \A r \in Recipe, i \in 1..Len(ranks) : <<r, i>> \in Name
  /\ Faults \subseteq FaultKinds
  /\ MaxFaults \in Nat

VARIABLES
  pending,   \* [HeadNode -> the prepare waiting for its commit]
  running,   \* [HeadNode -> the cluster this head started]
  task,      \* [Task -> the ceremony the task is in, or None]
  issued,    \* history: [Epoch -> the launch attempt it names, or None]
  doubtful,  \* history: machines that may hold what no head knows of
  lapsed,    \* history: machines whose reservation may change unknown to a head:
             \* it ran out, a restart lost it, or a late prepare is at work there
  faults     \* how many faults have happened

driverVars == <<pending, running, task, issued, doubtful, lapsed, faults>>
vars == <<rankVars, driverVars>>

\* A launch attempt: what `resolve` pins before any machine is asked.
Attempt == [head: HeadNode, recipe: Recipe, ranks: Roster]
Ranks(e) == issued[e].ranks
Everyone(e) == 1..Len(Ranks(e))
ContainerOf(e, i) == <<issued[e].recipe, i>>

Ceremony == [op: {"prepare", "commit", "abort", "stop", "supervise"},
             stage: {"ask", "start", "settle", "unstart", "release",
                     "watch", "reread", "halt", "clear"},
             epoch: Epoch,           \* the launch it is about
             todo: SUBSET Nat,       \* ranks still to call in this stage
             good: SUBSET Nat,       \* accepted, or started
             bad: SUBSET Nat,        \* found dead, or not stopped
             call: Call \cup {None}] \* the request it is waiting for

\* What a head remembers of the cluster it started.
Cluster == [epoch: Epoch, started: SUBSET Nat]

ASSUME LaunchNoneIsFresh == None \notin Call \cup Attempt \cup Ceremony \cup Cluster

LaunchTypeOK ==
  /\ TypeOK
  /\ pending \in [HeadNode -> Epoch \cup {None}]
  /\ running \in [HeadNode -> Cluster \cup {None}]
  /\ task \in [Task -> Ceremony \cup {None}]
  /\ issued \in [Epoch -> Attempt \cup {None}]
  /\ doubtful \in SUBSET Node
  /\ lapsed \in SUBSET Node
  /\ faults \in 0..MaxFaults

LaunchInit ==
  /\ RankInit
  /\ pending = [h \in HeadNode |-> None]
  /\ running = [h \in HeadNode |-> None]
  /\ task = [t \in Task |-> None]
  /\ issued = [e \in Epoch |-> None]
  /\ doubtful = {}
  /\ lapsed = {}
  /\ faults = 0

-----------------------------------------------------------------------------
(* Ceremonies and their stages *)

At(t, stage) == task[t] # None /\ task[t].stage = stage
StageOver(t, stage) == At(t, stage) /\ task[t].todo = {} /\ task[t].call = None

Begin(t, op, stage, e, todo) ==
  /\ task[t] = None
  /\ task' = [task EXCEPT ![t] =
                [op |-> op, stage |-> stage, epoch |-> e, todo |-> todo,
                 good |-> {}, bad |-> {}, call |-> None]]

Return(t) == task' = [task EXCEPT ![t] = None]

\* A stage with nothing left to ask moves on, or ends the ceremony, when that
\* touches nothing shared: after the last start the cluster settles, after the
\* last stop of a failed commit the ranks that never started are released,
\* after a look at a whole cluster supervision is over.
Onward(k) ==
  IF k.todo # {} THEN k
  ELSE CASE k.stage = "start" -> [k EXCEPT !.stage = "settle", !.todo = k.good]
         [] k.stage = "unstart" /\ k.good # Everyone(k.epoch) ->
              [k EXCEPT !.stage = "release", !.todo = Everyone(k.epoch) \ k.good]
         [] k.stage = "watch" /\ k.bad # {} -> [k EXCEPT !.stage = "reread"]
         [] k.stage \in {"ask", "settle", "halt"} -> k
         [] OTHER -> None

\* Seeded fault: a stop that failed is not counted.
LearnMissesFailedStop(k, yes) ==
  LET i    == Min(k.todo)
      next == [k EXCEPT !.todo = @ \ {i}, !.call = None]
  IN  Onward(
        CASE k.stage \in {"ask", "start"} /\ yes ->
               [next EXCEPT !.good = @ \cup {i}]
          [] k.stage = "start" /\ ~yes ->
               [next EXCEPT !.stage = "unstart", !.todo = k.good]
          [] k.stage \in {"settle", "watch"} /\ ~yes ->
               [next EXCEPT !.bad = @ \cup {i}]
          [] OTHER -> next)

\* Seeded fault: a rank that is not up is asked again instead of given up on.
LearnWaitsForRank(k, yes) ==
  LET i    == Min(k.todo)
      next == [k EXCEPT !.todo = @ \ {i}, !.call = None]
  IN  Onward(
        CASE k.stage \in {"ask", "start"} /\ yes ->
               [next EXCEPT !.good = @ \cup {i}]
          [] k.stage = "start" /\ ~yes ->
               [next EXCEPT !.stage = "unstart", !.todo = k.good]
          [] k.stage \in {"settle", "watch", "halt"} /\ ~yes ->
               [k EXCEPT !.call = None]
          [] OTHER -> next)

\* What a ceremony makes of one rank's answer.
Learn(k, yes) ==
  LET i    == Min(k.todo)
      next == [k EXCEPT !.todo = @ \ {i}, !.call = None]
  IN  Onward(
        CASE k.stage \in {"ask", "start"} /\ yes ->
               [next EXCEPT !.good = @ \cup {i}]
          [] k.stage = "start" /\ ~yes ->
               [next EXCEPT !.stage = "unstart", !.todo = k.good]
          [] k.stage \in {"settle", "watch", "halt"} /\ ~yes ->
               [next EXCEPT !.bad = @ \cup {i}]
          [] OTHER -> next)

-----------------------------------------------------------------------------
(* Asking a rank *)

RankOp(stage) ==
  CASE stage = "ask"                   -> "prepare"
    [] stage = "start"                 -> "commit"
    [] stage = "release"               -> "abort"
    [] stage \in {"settle", "watch"}   -> "alive"
    [] stage \in {"unstart", "halt"}   -> "stop"

Asked(t)    == Ranks(task[t].epoch)[Min(task[t].todo)]
IsRemote(t) == Asked(t) # Home[t]
Fault(kind) == kind \in Faults /\ faults < MaxFaults /\ faults' = faults + 1

ToAsk(t)   == task[t] # None /\ task[t].todo # {} /\ task[t].call = None
Waiting(t) == task[t] # None /\ task[t].call # None

Ask(t) ==
  /\ ToAsk(t)
  /\ LET k  == task[t]
         op == RankOp(k.stage)
         c  == CHOOSE x \in Call : calls[x] = None
     IN  /\ \E x \in Call : calls[x] = None
         /\ Request(c, op, Asked(t),
                    IF op \in {"prepare", "commit", "abort"} THEN k.epoch ELSE None,
                    IF op \in {"prepare", "alive", "stop"}
                      THEN ContainerOf(k.epoch, Min(k.todo)) ELSE None)
         /\ task' = [task EXCEPT ![t] = [@ EXCEPT !.call = c]]
  /\ UNCHANGED <<pending, running, issued, doubtful, lapsed, faults>>

\* How an answer reads at the head.  A peer acknowledges a stop whatever
\* docker said; a broken connection is a failure.
Heard(t) ==
  LET c == calls[task[t].call]
  IN  c.reply = "yes" \/ (c.op = "stop" /\ IsRemote(t) /\ c.reply = "no")

\* After a failure here the ceremony goes on as if the rank held nothing.
Forgets(k) == \/ k.stage \in {"unstart", "release"}
              \/ k.stage = "halt" /\ k.op = "supervise"

Answer(t) ==
  /\ Waiting(t)
  /\ task' = [task EXCEPT ![t] = Learn(task[t], Heard(t))]
  /\ Collect(task[t].call)
  /\ doubtful' = IF Forgets(task[t]) /\ ~Heard(t)
                 THEN doubtful \cup {Asked(t)} ELSE doubtful
  /\ UNCHANGED <<pending, running, issued, lapsed, faults>>

\* No connection: the rank never hears of it.
Unreachable(t) ==
  /\ ToAsk(t) /\ IsRemote(t)
  /\ Fault("unreachable")
  /\ task' = [task EXCEPT ![t] = Learn(task[t], FALSE)]
  /\ doubtful' = IF Forgets(task[t]) THEN doubtful \cup {Asked(t)} ELSE doubtful
  /\ UNCHANGED <<rankVars, pending, running, issued, lapsed>>

\* The time for an answer is up; the rank's handler runs on regardless.
GiveUp(t) ==
  /\ Waiting(t) /\ IsRemote(t)
  /\ Fault("give_up")
  /\ task' = [task EXCEPT ![t] = Learn(task[t], FALSE)]
  /\ doubtful' = IF Forgets(task[t]) \/ task[t].stage \in {"ask", "start"}
                 THEN doubtful \cup {Asked(t)} ELSE doubtful
  /\ lapsed' = IF task[t].stage = "ask" THEN lapsed \cup {Asked(t)} ELSE lapsed
  /\ UNCHANGED <<rankVars, pending, running, issued>>

-----------------------------------------------------------------------------
(* The ceremonies.  Mine(t) is the driver a task works with. *)

Mine(t) == Home[t]

\* Seeded fault: a new cluster is prepared beside the running one.
BeginPrepareAnyway(t) ==
  /\ t \in Tab
  /\ \E e \in Epoch, r \in Recipe, ranks \in Roster :
       /\ issued[e] = None
       /\ issued' = [issued EXCEPT ![e] =
                       [head |-> Mine(t), recipe |-> r, ranks |-> ranks]]
       /\ Begin(t, "prepare", "ask", e, 1..Len(ranks))
  /\ UNCHANGED <<rankVars, pending, running, doubtful, lapsed, faults>>

\* An epoch is drawn at random and names one attempt only.
BeginPrepare(t) ==
  /\ t \in Tab
  /\ running[Mine(t)] = None
  /\ \E e \in Epoch, r \in Recipe, ranks \in Roster :
       /\ issued[e] = None
       /\ issued' = [issued EXCEPT ![e] =
                       [head |-> Mine(t), recipe |-> r, ranks |-> ranks]]
       /\ Begin(t, "prepare", "ask", e, 1..Len(ranks))
  /\ UNCHANGED <<rankVars, pending, running, doubtful, lapsed, faults>>

\* Seeded fault: one accepting rank is enough.
EndPrepareOnAnyYes(t) ==
  /\ StageOver(t, "ask")
  /\ pending' = IF task[t].good = {} THEN pending
                ELSE [pending EXCEPT ![Mine(t)] = task[t].epoch]
  /\ Return(t)
  /\ UNCHANGED <<rankVars, running, issued, doubtful, lapsed, faults>>

EndPrepare(t) ==
  /\ StageOver(t, "ask")
  /\ LET k == task[t]
     IN  \/ /\ k.good = Everyone(k.epoch)
            /\ pending' = [pending EXCEPT ![Mine(t)] = k.epoch]
            /\ Return(t)
         \/ /\ k.good # Everyone(k.epoch)
            /\ task' = [task EXCEPT ![t] =
                          Onward([k EXCEPT !.stage = "release",
                                           !.todo = k.good])]
            /\ UNCHANGED pending
  /\ UNCHANGED <<rankVars, running, issued, doubtful, lapsed, faults>>

\* Seeded fault: the pending prepare is borrowed, not taken.
BorrowPending(t, e) ==
  /\ t \in Tab
  /\ pending[Mine(t)] = e
  /\ UNCHANGED pending

\* The tab names an epoch; any but the pending one is refused.
TakePending(t, e) ==
  /\ t \in Tab
  /\ pending[Mine(t)] = e
  /\ pending' = [pending EXCEPT ![Mine(t)] = None]

BeginCommit(t) ==
  /\ \E e \in Epoch : TakePending(t, e) /\ Begin(t, "commit", "start", e, Everyone(e))
  /\ UNCHANGED <<rankVars, running, issued, doubtful, lapsed, faults>>

\* Seeded fault: only the ranks found dead are stopped.
EndCommitStopsTheDead(t) ==
  /\ StageOver(t, "settle")
  /\ LET k == task[t]
     IN  \/ /\ k.bad = {}
            /\ running' = [running EXCEPT ![Mine(t)] =
                             [epoch |-> k.epoch, started |-> k.good]]
            /\ Return(t)
         \/ /\ k.bad # {}
            /\ task' = [task EXCEPT ![t] = [k EXCEPT !.stage = "unstart",
                                                     !.todo = k.bad]]
            /\ UNCHANGED running
  /\ UNCHANGED <<rankVars, pending, issued, doubtful, lapsed, faults>>

EndCommit(t) ==
  /\ StageOver(t, "settle")
  /\ LET k == task[t]
     IN  \/ /\ k.bad = {}
            /\ running' = [running EXCEPT ![Mine(t)] =
                             [epoch |-> k.epoch, started |-> k.good]]
            /\ Return(t)
         \/ /\ k.bad # {}
            /\ task' = [task EXCEPT ![t] = [k EXCEPT !.stage = "unstart",
                                                     !.todo = k.good]]
            /\ UNCHANGED running
  /\ UNCHANGED <<rankVars, pending, issued, doubtful, lapsed, faults>>

BeginAbort(t) ==
  /\ \E e \in Epoch : TakePending(t, e) /\ Begin(t, "abort", "release", e, Everyone(e))
  /\ UNCHANGED <<rankVars, running, issued, doubtful, lapsed, faults>>

BeginStop(t) ==
  /\ t \in Tab
  /\ running[Mine(t)] # None
  /\ Begin(t, "stop", "halt", running[Mine(t)].epoch, running[Mine(t)].started)
  /\ UNCHANGED <<rankVars, pending, running, issued, doubtful, lapsed, faults>>

\* What could not be stopped is written back for a retry, over whatever the
\* record says by now.  Supervision goes on to forget that too.
EndHalt(t) ==
  /\ StageOver(t, "halt")
  /\ LET k == task[t]
     IN  /\ running' = [running EXCEPT ![Mine(t)] =
                          IF k.bad = {} THEN None
                          ELSE [epoch |-> k.epoch, started |-> k.bad]]
         /\ task' = [task EXCEPT ![t] =
                       IF k.op = "stop" THEN None ELSE [k EXCEPT !.stage = "clear"]]
  /\ UNCHANGED <<rankVars, pending, issued, doubtful, lapsed, faults>>

BeginSupervise(t) ==
  /\ t \in Watch
  /\ running[Mine(t)] # None
  /\ Begin(t, "supervise", "watch", running[Mine(t)].epoch, running[Mine(t)].started)
  /\ UNCHANGED <<rankVars, pending, running, issued, doubtful, lapsed, faults>>

\* Seeded fault: supervision stops the dead ranks and leaves the survivors.
RereadStopsTheDead(t) ==
  /\ At(t, "reread")
  /\ task' = [task EXCEPT ![t] =
       IF running[Mine(t)] = None THEN [@ EXCEPT !.stage = "clear"]
       ELSE [@ EXCEPT !.stage = "halt", !.bad = {},
                      !.epoch = running[Mine(t)].epoch, !.todo = task[t].bad]]
  /\ UNCHANGED <<rankVars, pending, running, issued, doubtful, lapsed, faults>>

\* Something was dead: stop the cluster, as the record names it now.
Reread(t) ==
  /\ At(t, "reread")
  /\ task' = [task EXCEPT ![t] =
       IF running[Mine(t)] = None THEN [@ EXCEPT !.stage = "clear"]
       ELSE [@ EXCEPT !.stage = "halt", !.bad = {},
                      !.epoch = running[Mine(t)].epoch,
                      !.todo = running[Mine(t)].started]]
  /\ UNCHANGED <<rankVars, pending, running, issued, doubtful, lapsed, faults>>

ClearRecord(t) ==
  /\ At(t, "clear")
  /\ running' = [running EXCEPT ![Mine(t)] = None]
  /\ Return(t)
  /\ UNCHANGED <<rankVars, pending, issued, doubtful, lapsed, faults>>

-----------------------------------------------------------------------------
(* The ranks at work, and what can go wrong with them *)

Works(c) ==
  /\ \/ PrepareCheck(c) \/ PrepareHold(c)
     \/ CommitTake(c) \/ CommitRefuse(c) \/ CommitClear(c) \/ CommitRun(c)
     \/ CommitRunFails(c) /\ containers[calls[c].node][calls[c].name] # None
     \/ Abort(c) \/ Alive(c) \/ Stop(c)
     \/ Collect(c) /\ \A t \in Task : task[t] # None => task[t].call # c
  /\ UNCHANGED driverVars

Fails(c) ==
  /\ \/ PrepareRefuse(c) /\ Fault("refuse")
     \/ CommitClearFails(c) /\ Fault("rm_fails")
     \/ CommitRunFails(c) /\ Fault("run_fails")
  /\ UNCHANGED <<pending, running, task, issued, doubtful, lapsed>>

\* A stop that docker refuses; a remote one is acknowledged all the same.
StopRefused(c) ==
  /\ StopFails(c) /\ Fault("rm_fails")
  /\ doubtful' = IF \E t \in Task : Waiting(t) /\ task[t].call = c /\ IsRemote(t)
                 THEN doubtful \cup {calls[c].node} ELSE doubtful
  /\ UNCHANGED <<pending, running, task, issued, lapsed>>

RankDies(n, m) ==
  /\ Dies(n, m) /\ Fault("dies")
  /\ UNCHANGED <<pending, running, task, issued, doubtful, lapsed>>

ReservationExpires(n) ==
  /\ Expire(n) /\ Fault("expire")
  /\ lapsed' = lapsed \cup {n}
  /\ UNCHANGED <<pending, running, task, issued, doubtful>>

\* A head that restarts has forgotten its driver and its tasks; whatever it
\* was asking for goes on at the other machines.
AgentRestarts(n) ==
  /\ Restart(n) /\ Fault("restart")
  /\ pending' = [h \in HeadNode |-> IF h = n THEN None ELSE pending[h]]
  /\ running' = [h \in HeadNode |-> IF h = n THEN None ELSE running[h]]
  /\ task' = [t \in Task |-> IF Mine(t) = n THEN None ELSE task[t]]
  /\ lapsed' = IF n \in HeadNode THEN Node ELSE lapsed \cup {n}
  /\ doubtful' = IF n \in HeadNode THEN Node ELSE doubtful
  /\ UNCHANGED issued

\* All attempts made, nothing held and nobody at work: the model ends here.
AtRest ==
  /\ \A e \in Epoch : issued[e] # None
  /\ \A h \in HeadNode : pending[h] = None /\ running[h] = None
  /\ \A t \in Task : task[t] = None
  /\ \A c \in Call : calls[c] = None
  /\ UNCHANGED vars

Drive(t) ==
  \/ Ask(t) \/ Answer(t)
  \/ EndPrepare(t) \/ EndCommit(t) \/ EndHalt(t) \/ Reread(t) \/ ClearRecord(t)

Operate(t) ==
  BeginPrepare(t) \/ BeginCommit(t) \/ BeginAbort(t) \/ BeginStop(t)

LaunchNext ==
  \/ \E t \in Task : \/ Operate(t) \/ BeginSupervise(t) \/ Drive(t)
                     \/ Unreachable(t) \/ GiveUp(t)
  \/ \E c \in Call : Works(c) \/ Fails(c) \/ StopRefused(c)
  \/ \E n \in Node : ReservationExpires(n) \/ AgentRestarts(n)
  \/ \E n \in Node, m \in Name : RankDies(n, m)
  \/ AtRest

LaunchSpec == LaunchInit /\ [][LaunchNext]_vars

\* The ceremonies of one head taken in turn, its supervision among them.  Nothing
\* in the driver sees to that; what depends on it says so.
OneAtATime ==
  \A t, u \in Task :
    task[t] # None /\ task[u] # None /\ Home[t] = Home[u] => t = u

LaunchInTurn == LaunchInit /\ [][LaunchNext /\ OneAtATime']_vars

\* Calls are bounded in time at the head and handlers run to completion, and
\* the supervision loop ticks; what the operator does is up to the operator.
LaunchFairness ==
  /\ \A t \in Task : WF_vars(Drive(t))
  /\ \A t \in Watch : WF_vars(BeginSupervise(t))
  /\ \A c \in Call : WF_vars(Works(c))

FairLaunchSpec == LaunchSpec /\ LaunchFairness
-----------------------------------------------------------------------------
(* Properties *)

Quiet(h) == \A t \in Task : Mine(t) = h => task[t] = None

\* Rank i of launch e is up, in the container launch e started.
RankUp(e, i) ==
  LET n == Ranks(e)[i]
      m == ContainerOf(e, i)
  IN  IsUp(n, m) /\ containers[n][m].epoch = e

\* A cluster is whole or absent: when no ceremony is in progress at the head
\* that launched it, a rank that is up belongs to the cluster the head's
\* record names, unless its machine is one the head lost touch with while
\* releasing or starting it.  Refusals, failed starts, ranks that die while
\* the cluster settles and stops that fail are rolled back without a residue.
\* (clusterdriver.rs: "a cluster is either whole or absent, never partial".)
NoOrphanRank ==
  \A e \in Epoch : issued[e] # None /\ Quiet(issued[e].head) =>
    \A i \in Everyone(e) : RankUp(e, i) /\ Ranks(e)[i] \notin doubtful =>
      LET r == running[issued[e].head]
      IN  r # None /\ r.epoch = e /\ i \in r.started

\* Nothing starts until every machine of the launch has agreed: a container of
\* a launch exists anywhere only if each of its machines granted that launch
\* the rank it was assigned.
\* (clusterdriver.rs: "nothing starts until all of them have said yes".)
NothingStartsUntilAllAgreed ==
  \A n \in Node, m \in Name : containers[n][m] # None =>
    LET e == containers[n][m].epoch
    IN  \A i \in Everyone(e) :
          \E g \in 1..Len(granted[Ranks(e)[i]]) :
            granted[Ranks(e)[i]][g] = [epoch |-> e, name |-> ContainerOf(e, i)]

\* What the page offers to commit can be committed: every machine of a pending
\* launch holds its reservation, unless one ran out, went down with its agent,
\* or was exposed to a prepare the head had given up on.  In particular a late
\* abort of an earlier attempt releases nothing of this one.
\* (abort_inner: "an abort for a stale epoch arriving late must not release a
\* prepare made since".)
PendingIsBacked ==
  \A h \in HeadNode : pending[h] # None =>
    \A i \in Everyone(pending[h]) :
      LET n == Ranks(pending[h])[i]
      IN  n \notin lapsed => /\ reserved[n] # None
                             /\ reserved[n].epoch = pending[h]

\* A prepare is used up by one ceremony: no two tasks commit or abort the same
\* launch, and a launch being committed or aborted is no longer pending.
\* (commit_inner: "a commit consumes its prepare, so a replayed commit starts
\* nothing a second time".)
OneCeremonyTakesAPrepare ==
  \A t \in Task : task[t] # None /\ task[t].op \in {"commit", "abort"} =>
    /\ \A h \in HeadNode : pending[h] # task[t].epoch
    /\ \A u \in Task \ {t} :
         task[u] # None /\ task[u].op \in {"commit", "abort"}
           => task[u].epoch # task[t].epoch

\* The record of a running cluster is never replaced by another cluster's.
\* (prepare_inner: "Committing a second cluster was destructive both ways: ...
\* the second commit overwrote the record of the first".)
RunningNeverReplaced ==
  [][\A h \in HeadNode :
       running[h] # None /\ running'[h] # None
         => running'[h].epoch = running[h].epoch]_vars

\* An operator told that the cluster has stopped has no rank of it running.
\* (transport.rs: stop "used to return `()` and swallow both, so `stop_cluster`
\* reported every rank stopped while an unreachable machine kept its
\* container".)
StopMeansGone ==
  \A t \in Task :
    StageOver(t, "halt") /\ task[t].op = "stop" /\ task[t].bad = {} =>
      \A i \in Everyone(task[t].epoch) : ~RankUp(task[t].epoch, i)

\* A ceremony comes to its end whatever refuses, dies or cannot be reached.
CeremoniesEnd == \A t \in Task : task[t] # None ~> task[t] = None

IsHalf(e) ==
  /\ issued[e] # None
  /\ running[issued[e].head] # None
  /\ running[issued[e].head].epoch = e
  /\ \E i \in running[issued[e].head].started : ~RankUp(e, i)

TornDown(e) ==
  /\ issued[e] # None
  /\ running[issued[e].head] = None
  /\ \A i \in Everyone(e) : RankUp(e, i) => Ranks(e)[i] \in doubtful

\* After a Stop that failed in part the record names what is still up, and the
\* operator has been told to stop that again.
PartlyStopped(e) ==
  /\ issued[e] # None
  /\ running[issued[e].head] # None
  /\ running[issued[e].head].started # Everyone(e)

\* A cluster that lost a rank is torn down: its survivors are stopped wherever
\* they can be reached, and its record stops standing in the way of the next
\* launch -- or an operator's Stop has taken over.
\* (commands/agent.rs: "a rank that dies during model build passes it and
\* leaves its peers holding GPUs and serving nothing".)
HalfClusterIsTornDown ==
  \A e \in Epoch : IsHalf(e) ~> TornDown(e) \/ PartlyStopped(e)
=============================================================================
