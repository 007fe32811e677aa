---------------------------- MODULE RankService ----------------------------
(***************************************************************************)
(* A machine acting as one rank of somebody's cluster: the reservation it  *)
(* keeps between prepare and commit, and the containers it starts from it  *)
(* (crates/atlasctl/src/rankservice).  Every machine of the fleet runs one *)
(* such service.                                                           *)
(*                                                                         *)
(* A request is served on a task of its own, so several requests are in    *)
(* progress at one machine at a time; `calls` holds one record per request *)
(* and `at` says how far its handler has come.  A handler's steps are cut  *)
(* where it releases the reservation lock or runs a docker command.        *)
(*                                                                         *)
(* The environment is open here: any caller may send any request at any    *)
(* moment.  ClusterLaunch closes it with the heads that really send them.  *)
(***************************************************************************)
EXTENDS Integers, Sequences

CONSTANTS Node,       \* the machines
          Epoch,      \* identities of launch attempts
          Name,       \* container names, atlas-{recipe}-rank{n}
          Call,       \* slots for requests in progress
          None,       \* no value
          MaxGrants   \* BOUND: no prepare arrives at a machine that granted this many

Reservation == [epoch: Epoch, name: Name, grant: Nat, expired: BOOLEAN]
Container   == [epoch: Epoch, grant: Nat, up: BOOLEAN]
Op          == {"prepare", "commit", "abort", "alive", "stop"}
Stage       == {"start", "verify", "clear", "run", "done"}
CallRecord  == [op: Op, node: Node, epoch: Epoch \cup {None},
                name: Name \cup {None}, at: Stage, grant: Nat,
                reply: {"none", "yes", "no", "lost"}]

ASSUME NoneIsFresh == None \notin Reservation \cup Container \cup CallRecord
                                   \cup Epoch \cup Name
ASSUME BoundIsNat  == MaxGrants \in Nat

VARIABLES
  reserved,    \* [Node -> the reservation slot]
  containers,  \* [Node -> [Name -> what docker holds under that name]]
  calls,       \* [Call -> the request in that slot]
  granted      \* history: [Node -> what each granted prepare rendered, in order]

rankVars == <<reserved, containers, calls, granted>>

TypeOK ==
  /\ reserved   \in [Node -> Reservation \cup {None}]
  /\ containers \in [Node -> [Name -> Container \cup {None}]]
  /\ calls      \in [Call -> CallRecord \cup {None}]
  /\ granted    \in [Node -> Seq([epoch: Epoch, name: Name])]

RankInit ==
  /\ reserved   = [n \in Node |-> None]
  /\ containers = [n \in Node |-> [m \in Name |-> None]]
  /\ calls      = [c \in Call |-> None]
  /\ granted    = [n \in Node |-> <<>>]

-----------------------------------------------------------------------------
(* Requests and replies *)

InStage(c, op, at) == calls[c] # None /\ calls[c].op = op /\ calls[c].at = at

\* The request reaches the machine and its handler is about to run.
Request(c, op, n, e, m) ==
  /\ calls[c] = None
  /\ op = "prepare" => Len(granted[n]) < MaxGrants
  /\ calls' = [calls EXCEPT ![c] =
                 [op |-> op, node |-> n, epoch |-> e, name |-> m,
                  at |-> "start", grant |-> 0, reply |-> "none"]]
  /\ UNCHANGED <<reserved, containers, granted>>

Finish(c, answer) ==
  calls' = [calls EXCEPT ![c] = [@ EXCEPT !.at = "done", !.reply = answer]]

GoTo(c, stage) == calls' = [calls EXCEPT ![c] = [@ EXCEPT !.at = stage]]

\* The caller has the reply, or nobody waits for it any more.
Collect(c) ==
  /\ calls[c] # None
  /\ calls[c].at = "done"
  /\ calls' = [calls EXCEPT ![c] = None]
  /\ UNCHANGED <<reserved, containers, granted>>

-----------------------------------------------------------------------------
(* prepare: look at the slot, verify without the lock, then fill the slot *)

HeldByAnother(n, e) == reserved[n] # None /\ reserved[n].epoch # e

\* Seeded fault: another epoch's binding reservation is not a refusal.
PrepareCheckIgnoresHolder(c) ==
  /\ InStage(c, "prepare", "start")
  /\ calls' = [calls EXCEPT ![c] = [@ EXCEPT !.at = "verify",
                                   !.grant = Len(granted[calls[c].node])]]
  /\ UNCHANGED <<reserved, containers, granted>>

PrepareCheck(c) ==
  /\ InStage(c, "prepare", "start")
  /\ LET n == calls[c].node
         e == calls[c].epoch
     IN  \/ /\ HeldByAnother(n, e)
            /\ ~reserved[n].expired
            /\ Finish(c, "no")
            /\ UNCHANGED reserved
         \/ /\ HeldByAnother(n, e) => reserved[n].expired
            /\ reserved' = [reserved EXCEPT ![n] =
                              IF HeldByAnother(n, e) THEN None ELSE @]
            \* history: how many grants there had been when it looked
            /\ calls' = [calls EXCEPT ![c] = [@ EXCEPT !.at = "verify",
                                                       !.grant = Len(granted[n])]]
  /\ UNCHANGED <<containers, granted>>

\* This machine cannot launch, docker does not answer, the rendezvous is out
\* of reach, or the assignment cannot be rendered here.
PrepareRefuse(c) ==
  /\ InStage(c, "prepare", "start") \/ InStage(c, "prepare", "verify")
  /\ Finish(c, "no")
  /\ UNCHANGED <<reserved, containers, granted>>

\* Seeded fault: an occupied slot gets the new epoch and keeps the old plan.
PrepareHoldKeepsOldPlan(c) ==
  /\ InStage(c, "prepare", "verify")
  /\ LET n == calls[c].node
         new == [epoch |-> calls[c].epoch, name |-> calls[c].name]
     IN  /\ reserved' = [reserved EXCEPT ![n] =
                           IF @ # None THEN [@ EXCEPT !.epoch = new.epoch]
                           ELSE [epoch |-> new.epoch, name |-> new.name,
                                 grant |-> Len(granted[n]) + 1, expired |-> FALSE]]
         /\ granted' = [granted EXCEPT ![n] = Append(@, new)]
  /\ Finish(c, "yes")
  /\ UNCHANGED containers

PrepareHold(c) ==
  /\ InStage(c, "prepare", "verify")
  /\ LET n == calls[c].node
     IN  /\ reserved' = [reserved EXCEPT ![n] =
                           [epoch |-> calls[c].epoch, name |-> calls[c].name,
                            grant |-> Len(granted[n]) + 1, expired |-> FALSE]]
         /\ granted'  = [granted EXCEPT ![n] =
                           Append(@, [epoch |-> calls[c].epoch,
                                      name  |-> calls[c].name])]
  /\ Finish(c, "yes")
  /\ UNCHANGED containers

-----------------------------------------------------------------------------
(* commit: take the reservation, remove a container of that name, run *)

\* Seeded fault: the reservation is borrowed, not taken.
CommitBorrows(c) ==
  /\ InStage(c, "commit", "start")
  /\ LET r == reserved[calls[c].node]
     IN  /\ r # None
         /\ r.epoch = calls[c].epoch
         /\ calls' = [calls EXCEPT ![c] = [@ EXCEPT !.at = "clear", !.name = r.name,
                                                    !.grant = r.grant]]
  /\ UNCHANGED <<reserved, containers, granted>>

CommitTake(c) ==
  /\ InStage(c, "commit", "start")
  /\ LET n == calls[c].node
     IN  /\ reserved[n] # None
         /\ reserved[n].epoch = calls[c].epoch
         /\ reserved' = [reserved EXCEPT ![n] = None]
         /\ calls' = [calls EXCEPT ![c] = [@ EXCEPT !.at = "clear",
                                                    !.name = reserved[n].name,
                                                    !.grant = reserved[n].grant]]
  /\ UNCHANGED <<containers, granted>>

CommitRefuse(c) ==
  /\ InStage(c, "commit", "start")
  /\ reserved[calls[c].node] = None \/ HeldByAnother(calls[c].node, calls[c].epoch)
  /\ Finish(c, "no")
  /\ UNCHANGED <<reserved, containers, granted>>

\* `docker rm -f name`, whose failure is not looked at.
CommitClear(c) ==
  /\ InStage(c, "commit", "clear")
  /\ containers' = [containers EXCEPT ![calls[c].node][calls[c].name] = None]
  /\ GoTo(c, "run")
  /\ UNCHANGED <<reserved, granted>>

CommitClearFails(c) ==
  /\ InStage(c, "commit", "clear")
  /\ GoTo(c, "run")
  /\ UNCHANGED <<reserved, containers, granted>>

\* `docker run -d --name name`: docker refuses a name that is in use.
CommitRun(c) ==
  /\ InStage(c, "commit", "run")
  /\ LET n == calls[c].node
         m == calls[c].name
     IN  /\ containers[n][m] = None
         /\ containers' = [containers EXCEPT ![n][m] =
                             [epoch |-> calls[c].epoch, grant |-> calls[c].grant,
                              up |-> TRUE]]
  /\ Finish(c, "yes")
  /\ UNCHANGED <<reserved, granted>>

CommitRunFails(c) ==
  /\ InStage(c, "commit", "run")
  /\ Finish(c, "no")
  /\ UNCHANGED <<reserved, containers, granted>>

-----------------------------------------------------------------------------
(* abort, alive, stop *)

\* Seeded fault: an abort releases whatever is held.
AbortReleasesAny(c) ==
  /\ InStage(c, "abort", "start")
  /\ reserved' = [reserved EXCEPT ![calls[c].node] = None]
  /\ Finish(c, "yes")
  /\ UNCHANGED <<containers, granted>>

Abort(c) ==
  /\ InStage(c, "abort", "start")
  /\ LET n == calls[c].node
     IN  reserved' = [reserved EXCEPT ![n] =
                        IF @ # None /\ ~HeldByAnother(n, calls[c].epoch)
                        THEN None ELSE @]
  /\ Finish(c, "yes")
  /\ UNCHANGED <<containers, granted>>

IsUp(n, m) == containers[n][m] # None /\ containers[n][m].up

\* A docker that cannot be asked counts as "not running" at every caller.
Alive(c) ==
  /\ InStage(c, "alive", "start")
  /\ Finish(c, IF IsUp(calls[c].node, calls[c].name) THEN "yes" ELSE "no")
  /\ UNCHANGED <<reserved, containers, granted>>

\* A container that is already gone is a success.
Stop(c) ==
  /\ InStage(c, "stop", "start")
  /\ containers' = [containers EXCEPT ![calls[c].node][calls[c].name] = None]
  /\ Finish(c, "yes")
  /\ UNCHANGED <<reserved, granted>>

StopFails(c) ==
  /\ InStage(c, "stop", "start")
  /\ Finish(c, "no")
  /\ UNCHANGED <<reserved, containers, granted>>

-----------------------------------------------------------------------------
(* What happens to a machine *)

\* RESERVATION_TTL passes for the reservation held now.
Expire(n) ==
  /\ reserved[n] # None
  /\ ~reserved[n].expired
  /\ reserved' = [reserved EXCEPT ![n] = [@ EXCEPT !.expired = TRUE]]
  /\ UNCHANGED <<containers, calls, granted>>

\* The workload in a container ends by itself.
Dies(n, m) ==
  /\ IsUp(n, m)
  /\ containers' = [containers EXCEPT ![n][m] = [@ EXCEPT !.up = FALSE]]
  /\ UNCHANGED <<reserved, calls, granted>>

\* The agent restarts: the slot and the handlers are gone, and with
\* them the connections their callers wait on; docker is not.
Restart(n) ==
  /\ reserved' = [reserved EXCEPT ![n] = None]
  /\ calls' = [c \in Call |->
                 IF calls[c] # None /\ calls[c].node = n /\ calls[c].at # "done"
                 THEN [calls[c] EXCEPT !.at = "done", !.reply = "lost"]
                 ELSE calls[c]]
  /\ UNCHANGED <<containers, granted>>

-----------------------------------------------------------------------------
Serve(c) ==
  \/ PrepareCheck(c) \/ PrepareRefuse(c) \/ PrepareHold(c)
  \/ CommitTake(c) \/ CommitRefuse(c) \/ CommitClear(c)
  \/ CommitClearFails(c) \/ CommitRun(c) \/ CommitRunFails(c)
  \/ Abort(c) \/ Alive(c) \/ Stop(c) \/ StopFails(c)

\* What a caller puts into a frame: an epoch and an assignment to prepare, an
\* epoch to commit or abort, a container name to ask about or stop.
Arrive(c) ==
  \E n \in Node :
    \/ \E e \in Epoch, m \in Name : Request(c, "prepare", n, e, m)
    \/ \E op \in {"commit", "abort"}, e \in Epoch : Request(c, op, n, e, None)
    \/ \E op \in {"alive", "stop"}, m \in Name : Request(c, op, n, None, m)

RankNext ==
  \/ \E c \in Call : Arrive(c) \/ Serve(c) \/ Collect(c)
  \/ \E n \in Node : Expire(n) \/ Restart(n)
  \/ \E n \in Node, m \in Name : Dies(n, m)

RankSpec == RankInit /\ [][RankNext]_rankVars

-----------------------------------------------------------------------------
(* Properties *)

\* The grants that are in use at a machine by something that could still
\* start a container, or has: the slot, a commit in progress, a container.
Committing(c) == InStage(c, "commit", "clear") \/ InStage(c, "commit", "run")

\* Grant g of machine n was made to launch e, for a container named m.
Rendered(n, g, e, m) ==
  /\ g \in 1..Len(granted[n])
  /\ granted[n][g] = [epoch |-> e, name |-> m]

\* A reservation is spent by one commit.  No grant is both still in the slot
\* and in a commit's hands or in a container, no two commits work from one
\* grant, and no container was started from a grant a commit has yet to run:
\* a replayed commit frame, a second caller with the same epoch, or a commit
\* that raced a restart cannot start the same rank twice.
\* (rankservice/mod.rs: "Taken, not borrowed".)
GrantSpentOnce ==
  /\ \A n \in Node : reserved[n] # None =>
       /\ \A c \in Call : Committing(c) /\ calls[c].node = n
                            => calls[c].grant # reserved[n].grant
       /\ \A m \in Name : containers[n][m] # None
                            => containers[n][m].grant # reserved[n].grant
  /\ \A c, d \in Call :
       Committing(c) /\ Committing(d) /\ c # d /\ calls[c].node = calls[d].node
         => calls[c].grant # calls[d].grant
  /\ \A c \in Call : Committing(c) =>
       \A m \in Name : containers[calls[c].node][m] # None
         => containers[calls[c].node][m].grant # calls[c].grant
  /\ \A n \in Node : \A m1, m2 \in Name :
       /\ containers[n][m1] # None
       /\ containers[n][m2] # None
       /\ m1 # m2
       => containers[n][m1].grant # containers[n][m2].grant

\* What runs is what was rendered at prepare time: every container, every
\* commit in progress and the slot carry exactly the epoch and the name of one
\* grant this machine made, however prepares, commits and aborts interleave
\* and whatever the head sent afterwards.
\* (rankservice/mod.rs: "`commit` runs what was kept, and takes only an epoch".)
RunsWhatWasRendered ==
  /\ \A n \in Node : reserved[n] # None =>
       Rendered(n, reserved[n].grant, reserved[n].epoch, reserved[n].name)
  /\ \A c \in Call : Committing(c) =>
       Rendered(calls[c].node, calls[c].grant, calls[c].epoch, calls[c].name)
  /\ \A n \in Node, m \in Name : containers[n][m] # None =>
       Rendered(n, containers[n][m].grant, containers[n][m].epoch, m)

\* The check of a prepare is out of date only because of a prepare that raced
\* it: if another epoch holds the slot while a prepare is past its check, that
\* reservation was granted after the check.  So prepares that do not overlap
\* never displace each other, whatever expires, aborts or restarts between.
\* (rankservice/mod.rs: "One reservation at a time, deliberately".)
DisplacedOnlyInTheWindow ==
  \A c \in Call : InStage(c, "prepare", "verify") =>
    LET n == calls[c].node
    IN  HeldByAnother(n, calls[c].epoch) => reserved[n].grant > calls[c].grant

=============================================================================
