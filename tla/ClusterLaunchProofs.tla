------------------------ MODULE ClusterLaunchProofs ------------------------
(***************************************************************************)
(* What a machine serving ranks guarantees to every caller, for any number *)
(* of machines, launches, names and requests in progress; and, on top of   *)
(* it, what the heads of a fleet guarantee, for any number of heads, tabs, *)
(* supervision loops, recipes and faults.                                  *)
(***************************************************************************)
EXTENDS ClusterLaunch, SequenceTheorems, TLAPS, WellFoundedInduction

-----------------------------------------------------------------------------
(* The rank service: RankService *)

\* A request in progress carries what its handler will read: an epoch where a
\* reservation is made or released, a name where docker is asked.
RequestsComplete ==
  \A c \in Call : calls[c] # None =>
    /\ calls[c].op \in {"prepare", "commit", "abort"} => calls[c].epoch \in Epoch
    /\ calls[c].op \in {"prepare", "alive", "stop"} => calls[c].name \in Name
    /\ Committing(c) => calls[c].name \in Name

\* A prepare past its check remembers a number of grants already made.
ChecksLookBack ==
  \A c \in Call : InStage(c, "prepare", "verify") =>
    calls[c].grant <= Len(granted[calls[c].node])

\* Types, and what every handler finds in its request.
WellTyped == TypeOK /\ RequestsComplete

\* The inductive invariant.  GrantSpentOnce needs RunsWhatWasRendered (a new
\* grant has a number no old one has), DisplacedOnlyInTheWindow needs
\* ChecksLookBack (a new grant is later than every check in progress).
GrantInv ==
  /\ WellTyped
  /\ ChecksLookBack
  /\ RunsWhatWasRendered
  /\ GrantSpentOnce
  /\ DisplacedOnlyInTheWindow

LEMMA InitGrantInv == RankInit => GrantInv
  BY NoneIsFresh DEF RankInit, GrantInv, WellTyped, TypeOK, RequestsComplete,
     ChecksLookBack, RunsWhatWasRendered, Rendered, GrantSpentOnce,
     DisplacedOnlyInTheWindow, InStage, Committing, HeldByAnother

-----------------------------------------------------------------------------
(* What a handler's step does to its own record, and to no other *)

Moved(c, stage) ==
  /\ calls' \in [Call -> CallRecord \cup {None}]
  /\ \A d \in Call : d # c => calls'[d] = calls[d]
  /\ calls'[c] # None
  /\ calls'[c].op = calls[c].op
  /\ calls'[c].node = calls[c].node
  /\ calls'[c].epoch = calls[c].epoch
  /\ calls'[c].at = stage

LEMMA SetMoves ==
  ASSUME TypeOK, NEW c \in Call, calls[c] # None, NEW stage \in Stage,
         NEW k \in CallRecord, calls' = [calls EXCEPT ![c] = k],
         k.op = calls[c].op, k.node = calls[c].node, k.epoch = calls[c].epoch,
         k.at = stage
  PROVE  Moved(c, stage) /\ calls'[c] = k
  BY NoneIsFresh DEF Moved, TypeOK

\* A handler that answers is done, whatever it was doing.
LEMMA FinishMoves ==
  ASSUME TypeOK, NEW c \in Call, calls[c] # None,
         NEW a \in {"none", "yes", "no", "lost"}, Finish(c, a)
  PROVE  Moved(c, "done") /\ calls'[c].name = calls[c].name
<1> DEFINE k == [calls[c] EXCEPT !.at = "done", !.reply = a]
<1>1. /\ k \in CallRecord
      /\ k.op = calls[c].op /\ k.node = calls[c].node /\ k.epoch = calls[c].epoch
      /\ k.at = "done" /\ k.name = calls[c].name
  BY DEF TypeOK, CallRecord, Stage
<1>2. calls' = [calls EXCEPT ![c] = k]
  BY DEF Finish
<1> HIDE DEF k
<1> QED
  BY <1>1, <1>2, SetMoves DEF Stage

\* A handler that goes on keeps the whole request.
LEMMA GoToMoves ==
  ASSUME TypeOK, NEW c \in Call, calls[c] # None, NEW stage \in Stage,
         GoTo(c, stage)
  PROVE  /\ Moved(c, stage)
         /\ calls'[c].name = calls[c].name
         /\ calls'[c].grant = calls[c].grant
<1> DEFINE k == [calls[c] EXCEPT !.at = stage]
<1>1. /\ k \in CallRecord
      /\ k.op = calls[c].op /\ k.node = calls[c].node /\ k.epoch = calls[c].epoch
      /\ k.at = stage /\ k.name = calls[c].name /\ k.grant = calls[c].grant
  BY DEF TypeOK, CallRecord, Stage
<1>2. calls' = [calls EXCEPT ![c] = k]
  BY DEF GoTo
<1> HIDE DEF k
<1> QED
  BY <1>1, <1>2, SetMoves

\* A prepare that is let through remembers how many grants there were.
LEMMA CheckMoves ==
  ASSUME TypeOK, NEW c \in Call, calls[c] # None, NEW g \in Nat,
         calls' = [calls EXCEPT ![c] = [@ EXCEPT !.at = "verify", !.grant = g]]
  PROVE  /\ Moved(c, "verify")
         /\ calls'[c].name = calls[c].name
         /\ calls'[c].grant = g
<1> DEFINE k == [calls[c] EXCEPT !.at = "verify", !.grant = g]
<1>1. /\ k \in CallRecord
      /\ k.op = calls[c].op /\ k.node = calls[c].node /\ k.epoch = calls[c].epoch
      /\ k.at = "verify" /\ k.name = calls[c].name /\ k.grant = g
  BY DEF TypeOK, CallRecord, Stage
<1>2. calls' = [calls EXCEPT ![c] = k]
  OBVIOUS
<1> HIDE DEF k
<1> QED
  BY <1>1, <1>2, SetMoves DEF Stage

\* A commit works from the name and the grant of the reservation it took.
LEMMA TakeMoves ==
  ASSUME TypeOK, NEW c \in Call, calls[c] # None, NEW m \in Name, NEW g \in Nat,
         calls' = [calls EXCEPT ![c] = [@ EXCEPT !.at = "clear", !.name = m,
                                                 !.grant = g]]
  PROVE  /\ Moved(c, "clear")
         /\ calls'[c].name = m
         /\ calls'[c].grant = g
<1> DEFINE k == [calls[c] EXCEPT !.at = "clear", !.name = m, !.grant = g]
<1>1. /\ k \in CallRecord
      /\ k.op = calls[c].op /\ k.node = calls[c].node /\ k.epoch = calls[c].epoch
      /\ k.at = "clear" /\ k.name = m /\ k.grant = g
  BY DEF TypeOK, CallRecord, Stage
<1>2. calls' = [calls EXCEPT ![c] = k]
  OBVIOUS
<1> HIDE DEF k
<1> QED
  BY <1>1, <1>2, SetMoves DEF Stage

\* docker changes what it holds under one name of one machine.
LEMMA ContainersSet ==
  ASSUME TypeOK, NEW n \in Node, NEW m \in Name, NEW x \in Container \cup {None},
         containers' = [containers EXCEPT ![n][m] = x]
  PROVE  /\ containers' \in [Node -> [Name -> Container \cup {None}]]
         /\ containers'[n][m] = x
         /\ \A i \in Node, j \in Name :
              i # n \/ j # m => containers'[i][j] = containers[i][j]
<1>1. [containers[n] EXCEPT ![m] = x] \in [Name -> Container \cup {None}]
  BY DEF TypeOK
<1>2. containers' = [containers EXCEPT ![n] = [containers[n] EXCEPT ![m] = x]]
  BY DEF TypeOK
<1> QED
  BY <1>1, <1>2 DEF TypeOK

\* A grant is entered behind the grants made before it.
LEMMA GrantAppended ==
  ASSUME TypeOK, NEW n \in Node, NEW r \in [epoch : Epoch, name : Name],
         granted' = [granted EXCEPT ![n] = Append(@, r)]
  PROVE  /\ granted' \in [Node -> Seq([epoch : Epoch, name : Name])]
         /\ Len(granted'[n]) = Len(granted[n]) + 1
         /\ granted'[n][Len(granted[n]) + 1] = r
         /\ \A g \in 1..Len(granted[n]) : granted'[n][g] = granted[n][g]
         /\ \A i \in Node : i # n => granted'[i] = granted[i]
<1>1. granted[n] \in Seq([epoch : Epoch, name : Name])
  BY DEF TypeOK
<1>2. granted'[n] = Append(granted[n], r)
  BY DEF TypeOK
<1>3. /\ Append(granted[n], r) \in Seq([epoch : Epoch, name : Name])
      /\ Len(Append(granted[n], r)) = Len(granted[n]) + 1
      /\ Append(granted[n], r)[Len(granted[n]) + 1] = r
      /\ \A g \in 1..Len(granted[n]) : Append(granted[n], r)[g] = granted[n][g]
  BY <1>1, AppendProperties
<1>4. /\ granted' \in [Node -> Seq([epoch : Epoch, name : Name])]
      /\ \A i \in Node : i # n => granted'[i] = granted[i]
  BY <1>3 DEF TypeOK
<1> QED
  BY <1>2, <1>3, <1>4

-----------------------------------------------------------------------------
(* Types *)

\* A request stays complete while its handler moves on.
LEMMA MovedComplete ==
  ASSUME WellTyped, NEW c \in Call, calls[c] # None, NEW stage \in Stage,
         Moved(c, stage),
         calls'[c].name = calls[c].name \/ calls'[c].name \in Name,
         stage \in {"clear", "run"} => calls'[c].name \in Name
  PROVE  RequestsComplete'
  BY DEF WellTyped, RequestsComplete, Moved, Committing, InStage

\* Every step of a request, of its handler and of its caller is well typed.
LEMMA CallStepTyped ==
  ASSUME WellTyped, NEW c \in Call, Arrive(c) \/ Serve(c) \/ Collect(c)
  PROVE  WellTyped'
<1> USE DEF InStage, Stage
<1>0. TypeOK
  BY DEF WellTyped
<1>1. CASE Arrive(c)
  <2>1. PICK n \in Node, op \in Op, e \in Epoch \cup {None}, m \in Name \cup {None} :
           /\ Request(c, op, n, e, m)
           /\ op \in {"prepare", "commit", "abort"} => e \in Epoch
           /\ op \in {"prepare", "alive", "stop"} => m \in Name
    BY <1>1 DEF Arrive, Op
  <2> DEFINE k == [op |-> op, node |-> n, epoch |-> e, name |-> m,
                   at |-> "start", grant |-> 0, reply |-> "none"]
  <2>2. /\ k \in CallRecord
        /\ k.op = op /\ k.epoch = e /\ k.name = m /\ k.at = "start"
    BY DEF CallRecord
  <2>3. /\ calls' = [calls EXCEPT ![c] = k]
        /\ UNCHANGED <<reserved, containers, granted>>
    BY <2>1 DEF Request
  <2> HIDE DEF k
  <2>4. TypeOK'
    BY <1>0, <2>2, <2>3 DEF TypeOK
  <2>5. RequestsComplete'
    BY <1>0, <2>1, <2>2, <2>3 DEF WellTyped, RequestsComplete, TypeOK, Committing
  <2> QED
    BY <2>4, <2>5 DEF WellTyped
<1>2. CASE PrepareCheck(c)
  <2>1. Moved(c, "done") \/ Moved(c, "verify")
    <3>1. Len(granted[calls[c].node]) \in Nat
      BY <1>0, <1>2 DEF PrepareCheck, TypeOK, CallRecord
    <3> QED
      BY <1>0, <1>2, <3>1, FinishMoves, CheckMoves DEF PrepareCheck
  <2>2. calls'[c].name = calls[c].name
    <3>1. Len(granted[calls[c].node]) \in Nat
      BY <1>0, <1>2 DEF PrepareCheck, TypeOK, CallRecord
    <3> QED
      BY <1>0, <1>2, <3>1, FinishMoves, CheckMoves DEF PrepareCheck
  <2>3. TypeOK'
    BY <1>0, <1>2, <2>1, ZenonT(60) DEF PrepareCheck, TypeOK, Moved
  <2> QED
    BY <1>2, <2>1, <2>2, <2>3, MovedComplete DEF PrepareCheck, WellTyped
<1>3. CASE PrepareRefuse(c) \/ CommitRefuse(c) \/ CommitRunFails(c)
           \/ Alive(c) \/ StopFails(c)
  <2>1. /\ calls[c] # None
        /\ Moved(c, "done") /\ calls'[c].name = calls[c].name
        /\ UNCHANGED <<reserved, containers, granted>>
    BY <1>0, <1>3, FinishMoves
       DEF PrepareRefuse, CommitRefuse, CommitRunFails, Alive, StopFails
  <2>2. TypeOK'
    BY <1>0, <2>1 DEF TypeOK, Moved
  <2> QED
    BY <2>1, <2>2, MovedComplete DEF WellTyped
<1>4. CASE PrepareHold(c)
  <2>1. calls[c] # None /\ Moved(c, "done") /\ calls'[c].name = calls[c].name
    BY <1>0, <1>4, FinishMoves DEF PrepareHold
  <2>2. calls[c].node \in Node /\ calls[c].epoch \in Epoch /\ calls[c].name \in Name
    BY <1>0, <1>4 DEF PrepareHold, WellTyped, RequestsComplete, TypeOK, CallRecord
  <2>3. granted' \in [Node -> Seq([epoch : Epoch, name : Name])]
    <3> DEFINE r == [epoch |-> calls[c].epoch, name |-> calls[c].name]
    <3>1. /\ r \in [epoch : Epoch, name : Name]
          /\ granted' = [granted EXCEPT ![calls[c].node] = Append(@, r)]
      BY <1>4, <2>2 DEF PrepareHold
    <3> HIDE DEF r
    <3> QED
      BY <1>0, <2>2, <3>1, GrantAppended
  <2>4. Len(granted[calls[c].node]) \in Nat
    BY <1>0, <2>2 DEF TypeOK
  <2>5. reserved' \in [Node -> Reservation \cup {None}]
    BY <1>0, <1>4, <2>2, <2>4 DEF PrepareHold, TypeOK, Reservation
  <2>6. TypeOK'
    BY <1>0, <1>4, <2>1, <2>3, <2>5 DEF PrepareHold, TypeOK, Moved
  <2> QED
    BY <2>1, <2>6, MovedComplete DEF WellTyped
<1>5. CASE CommitTake(c)
  <2>1. /\ calls[c] # None
        /\ calls[c].node \in Node
        /\ reserved[calls[c].node] \in Reservation
    BY <1>0, <1>5 DEF CommitTake, TypeOK, CallRecord
  <2>2. Moved(c, "clear") /\ calls'[c].name \in Name
    BY <1>0, <1>5, <2>1, TakeMoves, ZenonT(60) DEF CommitTake, Reservation
  <2>3. TypeOK'
    BY <1>0, <1>5, <2>2 DEF CommitTake, TypeOK, Moved
  <2> QED
    BY <2>1, <2>2, <2>3, MovedComplete DEF WellTyped
<1>6. CASE CommitClear(c) \/ CommitClearFails(c)
  <2>1. /\ calls[c] # None
        /\ Moved(c, "run") /\ calls'[c].name = calls[c].name
    BY <1>0, <1>6, GoToMoves DEF CommitClear, CommitClearFails
  <2>2. calls[c].node \in Node /\ calls[c].name \in Name
    BY <1>0, <1>6 DEF CommitClear, CommitClearFails, WellTyped, RequestsComplete,
                      Committing, TypeOK, CallRecord
  <2>3. TypeOK'
    BY <1>0, <1>6, <2>1, <2>2, ContainersSet
       DEF CommitClear, CommitClearFails, TypeOK, Moved
  <2> QED
    BY <2>1, <2>2, <2>3, MovedComplete DEF WellTyped
<1>7. CASE CommitRun(c)
  <2>1. calls[c] # None /\ Moved(c, "done") /\ calls'[c].name = calls[c].name
    BY <1>0, <1>7, FinishMoves DEF CommitRun
  <2>2. /\ calls[c].node \in Node /\ calls[c].epoch \in Epoch
        /\ calls[c].name \in Name /\ calls[c].grant \in Nat
    BY <1>0, <1>7 DEF CommitRun, WellTyped, RequestsComplete, Committing, TypeOK,
                      CallRecord
  <2>3. [epoch |-> calls[c].epoch, grant |-> calls[c].grant, up |-> TRUE] \in Container
    BY <2>2 DEF Container
  <2>4. containers' \in [Node -> [Name -> Container \cup {None}]]
    BY <1>0, <1>7, <2>2, <2>3, ContainersSet DEF CommitRun
  <2>5. TypeOK'
    BY <1>0, <1>7, <2>1, <2>4 DEF CommitRun, TypeOK, Moved
  <2> QED
    BY <2>1, <2>5, MovedComplete DEF WellTyped
<1>8. CASE Abort(c)
  <2>1. calls[c] # None /\ Moved(c, "done") /\ calls'[c].name = calls[c].name
    BY <1>0, <1>8, FinishMoves DEF Abort
  <2>2. TypeOK'
    BY <1>0, <1>8, <2>1 DEF Abort, TypeOK, Moved
  <2> QED
    BY <2>1, <2>2, MovedComplete DEF WellTyped
<1>9. CASE Stop(c)
  <2>1. calls[c] # None /\ Moved(c, "done") /\ calls'[c].name = calls[c].name
    BY <1>0, <1>9, FinishMoves DEF Stop
  <2>2. calls[c].node \in Node /\ calls[c].name \in Name
    BY <1>0, <1>9 DEF Stop, WellTyped, RequestsComplete, TypeOK, CallRecord
  <2>3. TypeOK'
    BY <1>0, <1>9, <2>1, <2>2, ContainersSet DEF Stop, TypeOK, Moved
  <2> QED
    BY <2>1, <2>3, MovedComplete DEF WellTyped
<1>10. CASE Collect(c)
  BY <1>10 DEF Collect, WellTyped, TypeOK, RequestsComplete, Committing
<1> QED
  BY <1>1, <1>2, <1>3, <1>4, <1>5, <1>6, <1>7, <1>8, <1>9,
     <1>10 DEF Serve

\* What happens to a machine is well typed too.
LEMMA MachineStepTyped ==
  ASSUME WellTyped, NEW n \in Node,
         Expire(n) \/ Restart(n) \/ \E m \in Name : Dies(n, m)
  PROVE  WellTyped'
<1> USE DEF WellTyped, RequestsComplete, Committing, InStage
<1>1. CASE Expire(n)
  <2>1. [reserved[n] EXCEPT !.expired = TRUE] \in Reservation
    BY <1>1 DEF Expire, TypeOK, Reservation
  <2> QED
    BY <1>1, <2>1 DEF Expire, TypeOK
<1>2. CASE Restart(n)
  <2>1. \A c \in Call : calls[c] # None =>
          LET k == [calls[c] EXCEPT !.at = "done", !.reply = "lost"]
          IN  /\ k \in CallRecord
              /\ k.op = calls[c].op /\ k.epoch = calls[c].epoch
              /\ k.name = calls[c].name /\ k.at = "done"
    BY DEF TypeOK, CallRecord, Stage
  <2>2. TypeOK'
    BY <1>2, <2>1 DEF Restart, TypeOK
  <2>3. RequestsComplete'
    BY <1>2, <2>1, NoneIsFresh DEF Restart
  <2> QED
    BY <2>2, <2>3
<1>3. ASSUME NEW m \in Name, Dies(n, m) PROVE WellTyped'
  <2>1. containers[n][m] \in Container
    BY <1>3 DEF Dies, IsUp, TypeOK
  <2>2. [containers[n][m] EXCEPT !.up = FALSE] \in Container
    BY <2>1 DEF Container
  <2>3. containers' \in [Node -> [Name -> Container \cup {None}]]
    BY <1>3, <2>2, ContainersSet DEF Dies
  <2> QED
    BY <1>3, <2>3 DEF Dies, TypeOK
<1> QED
  BY <1>1, <1>2, <1>3

-----------------------------------------------------------------------------
(* Steps that bring nothing new: every reservation, container, commit and    *)
(* check after the step was there before it, from the same grant.            *)

NothingNew ==
  /\ granted' = granted
  /\ \A n \in Node : reserved'[n] # None =>
       /\ reserved[n] # None
       /\ reserved'[n].grant = reserved[n].grant
       /\ reserved'[n].epoch = reserved[n].epoch
       /\ reserved'[n].name = reserved[n].name
  /\ \A n \in Node, m \in Name : containers'[n][m] # None =>
       /\ containers[n][m] # None
       /\ containers'[n][m].grant = containers[n][m].grant
       /\ containers'[n][m].epoch = containers[n][m].epoch
  /\ \A c \in Call : Committing(c)' =>
       /\ Committing(c)
       /\ calls'[c].node = calls[c].node
       /\ calls'[c].epoch = calls[c].epoch
       /\ calls'[c].name = calls[c].name
       /\ calls'[c].grant = calls[c].grant
  /\ \A c \in Call : InStage(c, "prepare", "verify")' =>
       /\ InStage(c, "prepare", "verify")
       /\ calls'[c].node = calls[c].node
       /\ calls'[c].epoch = calls[c].epoch
       /\ calls'[c].grant = calls[c].grant

LEMMA NothingNewKeeps ==
  ASSUME GrantInv, WellTyped', NothingNew
  PROVE  GrantInv'
<1>1. \A c \in Call : calls[c] # None => calls[c].node \in Node
  BY DEF GrantInv, WellTyped, TypeOK, CallRecord
<1>2. ChecksLookBack'
  BY DEF NothingNew, GrantInv, ChecksLookBack
<1>3. RunsWhatWasRendered'
  <2>1. ASSUME NEW n \in Node, reserved'[n] # None
        PROVE  Rendered(n, reserved[n].grant, reserved[n].epoch, reserved[n].name)'
    BY <2>1 DEF NothingNew, GrantInv, RunsWhatWasRendered, Rendered
  <2>2. ASSUME NEW c \in Call, Committing(c)'
        PROVE  Rendered(calls[c].node, calls[c].grant, calls[c].epoch, calls[c].name)'
    <3>1. Committing(c)
      BY <2>2 DEF NothingNew
    <3>2. Rendered(calls[c].node, calls[c].grant, calls[c].epoch, calls[c].name)
      BY <3>1 DEF GrantInv, RunsWhatWasRendered
    <3> QED
      BY <2>2, <3>2 DEF NothingNew, Rendered
  <2>3. ASSUME NEW n \in Node, NEW m \in Name, containers'[n][m] # None
        PROVE  Rendered(n, containers[n][m].grant, containers[n][m].epoch, m)'
    BY <2>3 DEF NothingNew, GrantInv, RunsWhatWasRendered, Rendered
  <2> QED
    BY <2>1, <2>2, <2>3 DEF RunsWhatWasRendered
<1>4. GrantSpentOnce'
  BY <1>1 DEF NothingNew, GrantInv, GrantSpentOnce, Committing, InStage
<1>5. DisplacedOnlyInTheWindow'
  BY <1>1 DEF NothingNew, GrantInv, DisplacedOnlyInTheWindow, HeldByAnother, InStage
<1> QED
  BY <1>2, <1>3, <1>4, <1>5 DEF GrantInv

\* A request that arrives, a handler that answers without a grant or a new
\* container, and a caller that collects bring nothing new.
LEMMA CallBringsNothing ==
  ASSUME WellTyped, NEW c \in Call,
         \/ Arrive(c) \/ Collect(c)
         \/ PrepareRefuse(c) \/ CommitRefuse(c) \/ CommitRunFails(c)
         \/ Alive(c) \/ StopFails(c) \/ Abort(c) \/ Stop(c)
         \/ CommitClear(c) \/ CommitClearFails(c)
  PROVE  NothingNew
<1> USE DEF InStage, Committing
<1>0. TypeOK
  BY DEF WellTyped
<1>1. CASE Arrive(c)
  <2>1. PICK n \in Node, op \in Op, e \in Epoch \cup {None}, m \in Name \cup {None} :
           Request(c, op, n, e, m)
    BY <1>1 DEF Arrive, Op
  <2>2. /\ calls'[c].at = "start"
        /\ \A d \in Call : d # c => calls'[d] = calls[d]
    BY <1>0, <2>1 DEF Request, TypeOK
  <2> QED
    BY <2>1, <2>2 DEF Request, NothingNew
<1>2. CASE Collect(c)
  BY <1>0, <1>2 DEF Collect, NothingNew, TypeOK
<1>3. CASE PrepareRefuse(c) \/ CommitRefuse(c) \/ CommitRunFails(c)
           \/ Alive(c) \/ StopFails(c)
  <2>1. Moved(c, "done") /\ UNCHANGED <<reserved, containers, granted>>
    BY <1>0, <1>3, FinishMoves
       DEF PrepareRefuse, CommitRefuse, CommitRunFails, Alive, StopFails
  <2> QED
    BY <2>1 DEF Moved, NothingNew
<1>4. CASE Abort(c)
  <2>1. Moved(c, "done") /\ UNCHANGED <<containers, granted>>
    BY <1>0, <1>4, FinishMoves DEF Abort
  <2>2. \A n \in Node : reserved'[n] # None => reserved'[n] = reserved[n]
    BY <1>0, <1>4 DEF Abort, TypeOK
  <2> QED
    BY <2>1, <2>2 DEF Moved, NothingNew
<1>5. CASE Stop(c)
  <2>1. Moved(c, "done") /\ UNCHANGED <<reserved, granted>>
    BY <1>0, <1>5, FinishMoves DEF Stop
  <2>2. calls[c].node \in Node /\ calls[c].name \in Name
    BY <1>0, <1>5 DEF Stop, WellTyped, RequestsComplete, TypeOK, CallRecord
  <2>3. \A n \in Node, m \in Name :
          containers'[n][m] # None => containers'[n][m] = containers[n][m]
    BY <1>0, <1>5, <2>2, ContainersSet DEF Stop
  <2> QED
    BY <2>1, <2>3 DEF Moved, NothingNew
<1>6. CASE CommitClear(c) \/ CommitClearFails(c)
  <2>1. /\ InStage(c, "commit", "clear")
        /\ Moved(c, "run") /\ UNCHANGED <<reserved, granted>>
        /\ calls'[c].name = calls[c].name /\ calls'[c].grant = calls[c].grant
    BY <1>0, <1>6, GoToMoves DEF CommitClear, CommitClearFails, Stage
  <2>2. calls[c].node \in Node /\ calls[c].name \in Name
    BY <1>0, <2>1 DEF WellTyped, RequestsComplete, TypeOK, CallRecord
  <2>3. \A n \in Node, m \in Name :
          containers'[n][m] # None => containers'[n][m] = containers[n][m]
    <3>1. CASE CommitClear(c)
      BY <1>0, <3>1, <2>2, ContainersSet DEF CommitClear
    <3>2. CASE CommitClearFails(c)
      BY <3>2 DEF CommitClearFails
    <3> QED
      BY <1>6, <3>1, <3>2
  <2> QED
    BY <2>1, <2>3 DEF Moved, NothingNew
<1> QED
  BY <1>1, <1>2, <1>3, <1>4, <1>5, <1>6

\* A reservation that runs out, a workload that ends and an agent that
\* restarts bring nothing new.
LEMMA MachineBringsNothing ==
  ASSUME WellTyped, NEW n \in Node,
         Expire(n) \/ Restart(n) \/ \E m \in Name : Dies(n, m)
  PROVE  NothingNew
<1> USE DEF InStage, Committing
<1>0. TypeOK
  BY DEF WellTyped
<1>1. CASE Expire(n)
  <2> DEFINE r == [reserved[n] EXCEPT !.expired = TRUE]
  <2>1. /\ r.epoch = reserved[n].epoch /\ r.name = reserved[n].name
        /\ r.grant = reserved[n].grant
    BY <1>0, <1>1 DEF Expire, TypeOK, Reservation
  <2>2. reserved' = [reserved EXCEPT ![n] = r]
    BY <1>1 DEF Expire
  <2> HIDE DEF r
  <2> QED
    BY <1>0, <1>1, <2>1, <2>2 DEF Expire, NothingNew, TypeOK
<1>2. CASE Restart(n)
  <2>1. \A c \in Call : calls'[c] = calls[c] \/ calls'[c].at = "done"
    BY <1>0, <1>2 DEF Restart, TypeOK, CallRecord
  <2>2. /\ UNCHANGED <<containers, granted>>
        /\ \A i \in Node : reserved'[i] # None => reserved'[i] = reserved[i]
    BY <1>0, <1>2 DEF Restart, TypeOK
  <2> QED
    BY <2>1, <2>2 DEF NothingNew
<1>3. ASSUME NEW m \in Name, Dies(n, m) PROVE NothingNew
  <2> DEFINE x == [containers[n][m] EXCEPT !.up = FALSE]
  <2>1. /\ x \in Container
        /\ x.epoch = containers[n][m].epoch /\ x.grant = containers[n][m].grant
    <3>1. containers[n][m] \in Container
      BY <1>0, <1>3 DEF Dies, IsUp, TypeOK
    <3> QED
      BY <3>1 DEF Container
  <2>2. containers' = [containers EXCEPT ![n][m] = x]
    BY <1>3 DEF Dies
  <2> HIDE DEF x
  <2>3. /\ containers'[n][m] = x
        /\ \A i \in Node, j \in Name :
             i # n \/ j # m => containers'[i][j] = containers[i][j]
    BY <1>0, <2>1, <2>2, ContainersSet, ZenonT(60)
  <2> QED
    BY <1>3, <2>1, <2>3 DEF Dies, IsUp, NothingNew
<1> QED
  BY <1>1, <1>2, <1>3

-----------------------------------------------------------------------------
(* The four steps that do bring something new *)

LEMMA TypeFacts ==
  ASSUME WellTyped
  PROVE  /\ TypeOK
         /\ \A d \in Call : calls[d] # None =>
              calls[d].node \in Node /\ calls[d].grant \in Nat
         /\ \A i \in Node : Len(granted[i]) \in Nat
<1>1. TypeOK
  BY DEF WellTyped
<1>2. ASSUME NEW d \in Call, calls[d] # None
      PROVE  calls[d].node \in Node /\ calls[d].grant \in Nat
  BY <1>1, <1>2 DEF TypeOK, CallRecord
<1>3. ASSUME NEW i \in Node
      PROVE  Len(granted[i]) \in Nat
  BY <1>1 DEF TypeOK
<1> QED
  BY <1>1, <1>2, <1>3

\* A prepare that is let through finds no other epoch in the slot.
LEMMA PrepareCheckKeeps ==
  ASSUME GrantInv, WellTyped', NEW c \in Call, PrepareCheck(c)
  PROVE  GrantInv'
<1> USE DEF InStage, Committing
<1> DEFINE n == calls[c].node
<1>1. /\ TypeOK /\ calls[c] # None /\ n \in Node /\ Len(granted[n]) \in Nat
      /\ calls[c].op = "prepare" /\ UNCHANGED <<containers, granted>>
      /\ \A d \in Call : calls[d] # None => calls[d].node \in Node
  BY TypeFacts DEF PrepareCheck, GrantInv
<1>2. CASE /\ HeldByAnother(n, calls[c].epoch)
           /\ ~reserved[n].expired
           /\ Finish(c, "no")
           /\ UNCHANGED reserved
  <2>1. Moved(c, "done")
    BY <1>1, <1>2, FinishMoves
  <2>2. NothingNew
    BY <1>1, <1>2, <2>1 DEF Moved, NothingNew
  <2> QED
    BY <2>2, NothingNewKeeps
<1>3. CASE /\ reserved' = [reserved EXCEPT ![n] =
                             IF HeldByAnother(n, calls[c].epoch) THEN None ELSE @]
           /\ calls' = [calls EXCEPT ![c] = [@ EXCEPT !.at = "verify",
                                                       !.grant = Len(granted[n])]]
  <2>1. Moved(c, "verify") /\ calls'[c].grant = Len(granted[n])
    BY <1>1, <1>3, CheckMoves
  <2>2. \A i \in Node : reserved'[i] # None => reserved'[i] = reserved[i]
    BY <1>1, <1>3 DEF TypeOK
  <2>3. reserved'[n] = None \/ reserved'[n].epoch = calls[c].epoch
    BY <1>1, <1>3 DEF TypeOK, HeldByAnother
  <2>4. \A d \in Call : Committing(d)' => Committing(d) /\ calls'[d] = calls[d]
    BY <1>1, <2>1 DEF Moved
  <2>5. ChecksLookBack'
    BY <1>1, <2>1 DEF Moved, GrantInv, ChecksLookBack
  <2>6. RunsWhatWasRendered'
    <3>1. ASSUME NEW i \in Node, reserved'[i] # None
          PROVE  Rendered(i, reserved[i].grant, reserved[i].epoch, reserved[i].name)'
      BY <1>1, <2>2, <3>1 DEF GrantInv, RunsWhatWasRendered, Rendered
    <3>2. ASSUME NEW d \in Call, Committing(d)'
          PROVE  Rendered(calls[d].node, calls[d].grant, calls[d].epoch, calls[d].name)'
      BY <1>1, <2>4, <3>2 DEF GrantInv, RunsWhatWasRendered, Rendered
    <3> QED
      BY <1>1, <3>1, <3>2 DEF GrantInv, RunsWhatWasRendered, Rendered
  <2>7. GrantSpentOnce'
    BY <1>1, <2>2, <2>4 DEF GrantInv, GrantSpentOnce
  <2>8. DisplacedOnlyInTheWindow'
    BY <1>1, <2>1, <2>2, <2>3
       DEF Moved, GrantInv, DisplacedOnlyInTheWindow, HeldByAnother
  <2> QED
    BY <2>5, <2>6, <2>7, <2>8 DEF GrantInv
<1> QED
  BY <1>2, <1>3 DEF PrepareCheck

\* A grant has a number none before it has, later than every check under way.
LEMMA PrepareHoldKeeps ==
  ASSUME GrantInv, WellTyped', NEW c \in Call, PrepareHold(c)
  PROVE  GrantInv'
<1> USE DEF InStage, Committing
<1> DEFINE n == calls[c].node
           g == Len(granted[n]) + 1
<1> HIDE DEF g
<1>0. /\ TypeOK
      /\ \A d \in Call : calls[d] # None =>
           calls[d].node \in Node /\ calls[d].grant \in Nat
      /\ \A i \in Node : Len(granted[i]) \in Nat
  BY TypeFacts DEF GrantInv
<1>1. /\ calls[c] # None /\ n \in Node /\ UNCHANGED containers
      /\ calls[c].op = "prepare" /\ calls[c].at = "verify"
      /\ calls[c].epoch \in Epoch /\ calls[c].name \in Name
  BY <1>0 DEF PrepareHold, GrantInv, WellTyped, RequestsComplete
<1>2. Moved(c, "done")
  BY <1>0, <1>1, FinishMoves DEF PrepareHold
<1>3. /\ Len(granted'[n]) = g
      /\ granted'[n][g] = [epoch |-> calls[c].epoch, name |-> calls[c].name]
      /\ \A h \in 1..Len(granted[n]) : granted'[n][h] = granted[n][h]
      /\ \A i \in Node : i # n => granted'[i] = granted[i]
  <2> DEFINE r == [epoch |-> calls[c].epoch, name |-> calls[c].name]
  <2>1. r \in [epoch : Epoch, name : Name] /\ granted' = [granted EXCEPT ![n] = Append(@, r)]
    BY <1>1 DEF PrepareHold
  <2> HIDE DEF r
  <2>2. /\ Len(granted'[n]) = Len(granted[n]) + 1
        /\ granted'[n][Len(granted[n]) + 1] = r
        /\ \A h \in 1..Len(granted[n]) : granted'[n][h] = granted[n][h]
        /\ \A i \in Node : i # n => granted'[i] = granted[i]
    BY <1>0, <1>1, <2>1, GrantAppended
  <2> QED
    BY <2>2 DEF g, r
<1>4. /\ reserved'[n] # None /\ reserved'[n].grant = g
      /\ reserved'[n].epoch = calls[c].epoch /\ reserved'[n].name = calls[c].name
      /\ \A i \in Node : i # n => reserved'[i] = reserved[i]
  <2>1. [epoch |-> calls[c].epoch, name |-> calls[c].name, grant |-> g,
         expired |-> FALSE] \in Reservation
    BY <1>0, <1>1 DEF Reservation, g
  <2> QED
    BY <1>0, <1>1, <2>1, NoneIsFresh DEF PrepareHold, TypeOK, g
<1>5. /\ \A d \in Call : Committing(d)' => Committing(d) /\ calls'[d] = calls[d]
      /\ \A d \in Call : InStage(d, "prepare", "verify")' =>
           InStage(d, "prepare", "verify") /\ calls'[d] = calls[d]
  BY <1>0, <1>1, <1>2 DEF Moved
<1>6. \A i \in Node : \A h \in 1..Len(granted[i]) :
        h \in 1..Len(granted'[i]) /\ granted'[i][h] = granted[i][h]
  <2>1. ASSUME NEW i \in Node, NEW h \in 1..Len(granted[i])
        PROVE  h \in 1..Len(granted'[i]) /\ granted'[i][h] = granted[i][h]
    <3>1. CASE i = n
      BY <1>0, <1>1, <1>3, <3>1 DEF g
    <3>2. CASE i # n
      BY <1>3, <3>2
    <3> QED
      BY <3>1, <3>2
  <2> QED
    BY <2>1
<1>7. ChecksLookBack'
  <2>1. \A i \in Node : Len(granted[i]) <= Len(granted'[i])
    BY <1>0, <1>1, <1>3 DEF g
  <2>2. ASSUME NEW d \in Call, InStage(d, "prepare", "verify")'
        PROVE  calls'[d].grant <= Len(granted'[calls'[d].node])
    <3>1. /\ calls'[d] = calls[d] /\ calls[d].node \in Node
          /\ calls[d].grant \in Nat /\ calls[d].grant <= Len(granted[calls[d].node])
      BY <1>0, <1>5, <2>2 DEF GrantInv, ChecksLookBack
    <3>2. Len(granted'[calls[d].node]) \in Nat
      BY <1>0, <1>3, <3>1 DEF g
    <3> QED
      BY <1>0, <2>1, <3>1, <3>2
  <2> QED
    BY <2>2 DEF ChecksLookBack
<1>8. RunsWhatWasRendered'
  <2>1. ASSUME NEW i \in Node, reserved'[i] # None
        PROVE  Rendered(i, reserved[i].grant, reserved[i].epoch, reserved[i].name)'
    <3>1. CASE i = n
      BY <1>0, <1>1, <1>3, <1>4, <3>1, SMTT(60) DEF Rendered, g
    <3>2. CASE i # n
      BY <1>3, <1>4, <2>1, <3>2 DEF GrantInv, RunsWhatWasRendered, Rendered
    <3> QED
      BY <3>1, <3>2
  <2>2. ASSUME NEW d \in Call, Committing(d)'
        PROVE  Rendered(calls[d].node, calls[d].grant, calls[d].epoch, calls[d].name)'
    <3>1. /\ calls'[d] = calls[d] /\ calls[d].node \in Node
          /\ Rendered(calls[d].node, calls[d].grant, calls[d].epoch, calls[d].name)
      BY <1>0, <1>5, <2>2 DEF GrantInv, RunsWhatWasRendered
    <3> QED
      BY <1>6, <3>1 DEF Rendered
  <2>3. ASSUME NEW i \in Node, NEW m \in Name, containers'[i][m] # None
        PROVE  Rendered(i, containers[i][m].grant, containers[i][m].epoch, m)'
    BY <1>1, <1>6, <2>3 DEF GrantInv, RunsWhatWasRendered, Rendered
  <2> QED
    BY <2>1, <2>2, <2>3 DEF RunsWhatWasRendered
<1>9. GrantSpentOnce'
  <2>1. /\ \A d \in Call : Committing(d) /\ calls[d].node = n => calls[d].grant # g
        /\ \A m \in Name : containers[n][m] # None => containers[n][m].grant # g
    <3>1. \A e, m : ~Rendered(n, g, e, m)
      BY <1>0, <1>1 DEF Rendered, g
    <3> QED
      BY <1>1, <3>1 DEF GrantInv, RunsWhatWasRendered
  <2> QED
    BY <1>0, <1>1, <1>4, <1>5, <2>1 DEF GrantInv, GrantSpentOnce
<1>10. DisplacedOnlyInTheWindow'
  <2>1. ASSUME NEW d \in Call, InStage(d, "prepare", "verify")',
               HeldByAnother(calls[d].node, calls[d].epoch)'
        PROVE  reserved'[calls'[d].node].grant > calls'[d].grant
    <3>1. /\ InStage(d, "prepare", "verify") /\ calls'[d] = calls[d]
          /\ calls[d].node \in Node /\ calls[d].grant \in Nat
          /\ calls[d].grant <= Len(granted[calls[d].node])
      BY <1>0, <1>5, <2>1 DEF GrantInv, ChecksLookBack
    <3>2. CASE calls[d].node = n
      BY <1>0, <1>1, <1>4, <3>1, <3>2 DEF g
    <3>3. CASE calls[d].node # n
      BY <1>4, <2>1, <3>1, <3>3 DEF GrantInv, DisplacedOnlyInTheWindow, HeldByAnother
    <3> QED
      BY <3>2, <3>3
  <2> QED
    BY <2>1 DEF DisplacedOnlyInTheWindow
<1> QED
  BY <1>7, <1>8, <1>9, <1>10 DEF GrantInv

\* A commit moves the grant out of the slot and into its own hands.
LEMMA CommitTakeKeeps ==
  ASSUME GrantInv, WellTyped', NEW c \in Call, CommitTake(c)
  PROVE  GrantInv'
<1> USE DEF InStage, Committing
<1> DEFINE n == calls[c].node
<1>1. /\ TypeOK /\ calls[c] # None /\ n \in Node /\ UNCHANGED <<containers, granted>>
      /\ reserved[n] # None /\ reserved[n].epoch = calls[c].epoch
      /\ calls[c].op = "commit" /\ calls[c].at = "start"
      /\ \A d \in Call : calls[d] # None => calls[d].node \in Node
  BY TypeFacts DEF CommitTake, GrantInv
<1>2. /\ Moved(c, "clear")
      /\ calls'[c].name = reserved[n].name /\ calls'[c].grant = reserved[n].grant
  <2> DEFINE m == reserved[n].name
             g == reserved[n].grant
  <2>1. m \in Name /\ g \in Nat
    BY <1>1 DEF TypeOK, Reservation
  <2>2. calls' = [calls EXCEPT ![c] = [@ EXCEPT !.at = "clear", !.name = m, !.grant = g]]
    BY DEF CommitTake
  <2> HIDE DEF m, g
  <2>3. Moved(c, "clear") /\ calls'[c].name = m /\ calls'[c].grant = g
    BY <1>1, <2>1, <2>2, TakeMoves, ZenonT(60)
  <2> QED
    BY <2>3 DEF m, g
<1>3. /\ reserved'[n] = None
      /\ \A i \in Node : i # n => reserved'[i] = reserved[i]
  BY <1>1 DEF CommitTake, TypeOK
<1>4. /\ \A d \in Call : d # c /\ Committing(d)' => Committing(d) /\ calls'[d] = calls[d]
      /\ \A d \in Call : InStage(d, "prepare", "verify")' =>
           InStage(d, "prepare", "verify") /\ calls'[d] = calls[d]
  BY <1>1, <1>2 DEF Moved
<1>5. ChecksLookBack'
  BY <1>1, <1>4 DEF GrantInv, ChecksLookBack
<1>6. RunsWhatWasRendered'
  <2>1. ASSUME NEW i \in Node, reserved'[i] # None
        PROVE  Rendered(i, reserved[i].grant, reserved[i].epoch, reserved[i].name)'
    BY <1>1, <1>3, <2>1 DEF GrantInv, RunsWhatWasRendered, Rendered
  <2>2. ASSUME NEW d \in Call, Committing(d)'
        PROVE  Rendered(calls[d].node, calls[d].grant, calls[d].epoch, calls[d].name)'
    <3>1. CASE d = c
      BY <1>1, <1>2, <3>1 DEF Moved, GrantInv, RunsWhatWasRendered, Rendered
    <3>2. CASE d # c
      BY <1>1, <1>4, <2>2, <3>2 DEF GrantInv, RunsWhatWasRendered, Rendered
    <3> QED
      BY <3>1, <3>2
  <2> QED
    BY <1>1, <2>1, <2>2 DEF GrantInv, RunsWhatWasRendered, Rendered
<1>7. GrantSpentOnce'
  BY <1>1, <1>2, <1>3, <1>4, SMTT(60) DEF Moved, GrantInv, GrantSpentOnce
<1>8. DisplacedOnlyInTheWindow'
  BY <1>1, <1>3, <1>4 DEF GrantInv, DisplacedOnlyInTheWindow, HeldByAnother
<1> QED
  BY <1>5, <1>6, <1>7, <1>8 DEF GrantInv

\* A start moves the grant on into the container.
LEMMA CommitRunKeeps ==
  ASSUME GrantInv, WellTyped', NEW c \in Call, CommitRun(c)
  PROVE  GrantInv'
<1> USE DEF InStage, Committing
<1> DEFINE n == calls[c].node
           m == calls[c].name
<1>1. /\ TypeOK /\ calls[c] # None /\ n \in Node /\ m \in Name
      /\ calls[c].epoch \in Epoch /\ calls[c].grant \in Nat
      /\ Committing(c) /\ UNCHANGED <<reserved, granted>>
      /\ \A d \in Call : calls[d] # None => calls[d].node \in Node
  BY DEF CommitRun, GrantInv, WellTyped, RequestsComplete, TypeOK, CallRecord
<1>2. Moved(c, "done")
  BY <1>1, FinishMoves DEF CommitRun
<1>3. /\ containers'[n][m] # None
      /\ containers'[n][m].epoch = calls[c].epoch
      /\ containers'[n][m].grant = calls[c].grant
      /\ \A i \in Node, j \in Name :
           i # n \/ j # m => containers'[i][j] = containers[i][j]
  <2> DEFINE x == [epoch |-> calls[c].epoch, grant |-> calls[c].grant, up |-> TRUE]
  <2>1. x \in Container /\ x.epoch = calls[c].epoch /\ x.grant = calls[c].grant
    BY <1>1 DEF Container
  <2>2. containers' = [containers EXCEPT ![n][m] = x]
    BY DEF CommitRun
  <2> HIDE DEF x
  <2> QED
    BY <1>1, <2>1, <2>2, ContainersSet, NoneIsFresh DEF TypeOK
<1>4. /\ \A d \in Call : Committing(d)' => d # c /\ Committing(d) /\ calls'[d] = calls[d]
      /\ \A d \in Call : InStage(d, "prepare", "verify")' =>
           InStage(d, "prepare", "verify") /\ calls'[d] = calls[d]
  BY <1>1, <1>2 DEF Moved
<1>5. ChecksLookBack'
  BY <1>1, <1>4 DEF GrantInv, ChecksLookBack
<1>6. RunsWhatWasRendered'
  <2>1. ASSUME NEW i \in Node, reserved'[i] # None
        PROVE  Rendered(i, reserved[i].grant, reserved[i].epoch, reserved[i].name)'
    BY <1>1, <2>1 DEF GrantInv, RunsWhatWasRendered, Rendered
  <2>2. ASSUME NEW d \in Call, Committing(d)'
        PROVE  Rendered(calls[d].node, calls[d].grant, calls[d].epoch, calls[d].name)'
    BY <1>1, <1>4, <2>2 DEF GrantInv, RunsWhatWasRendered, Rendered
  <2>3. ASSUME NEW i \in Node, NEW j \in Name, containers'[i][j] # None
        PROVE  Rendered(i, containers[i][j].grant, containers[i][j].epoch, j)'
    <3>1. Rendered(n, calls[c].grant, calls[c].epoch, m)
      BY <1>1 DEF GrantInv, RunsWhatWasRendered
    <3>2. CASE i = n /\ j = m
      BY <1>1, <1>3, <3>1, <3>2 DEF Rendered
    <3>3. CASE i # n \/ j # m
      BY <1>1, <1>3, <2>3, <3>3, SMTT(30) DEF GrantInv, RunsWhatWasRendered, Rendered
    <3> QED
      BY <3>2, <3>3
  <2> QED
    BY <2>1, <2>2, <2>3 DEF RunsWhatWasRendered
<1>7. GrantSpentOnce'
  <2>1. ASSUME NEW i \in Node, reserved'[i] # None, NEW d \in Call,
               Committing(d)', calls'[d].node = i
        PROVE  calls'[d].grant # reserved'[i].grant
    BY <1>1, <1>4, <2>1 DEF GrantInv, GrantSpentOnce
  <2>2. ASSUME NEW i \in Node, reserved'[i] # None, NEW j \in Name, containers'[i][j] # None
        PROVE  containers'[i][j].grant # reserved'[i].grant
    BY <1>1, <1>3, <2>2 DEF GrantInv, GrantSpentOnce
  <2>3. ASSUME NEW d \in Call, NEW f \in Call, Committing(d)', Committing(f)', d # f,
               calls'[d].node = calls'[f].node
        PROVE  calls'[d].grant # calls'[f].grant
    BY <1>4, <2>3 DEF GrantInv, GrantSpentOnce
  <2>4. ASSUME NEW d \in Call, Committing(d)', NEW j \in Name,
               containers'[calls'[d].node][j] # None
        PROVE  containers'[calls'[d].node][j].grant # calls'[d].grant
    <3>1. d # c /\ Committing(d) /\ calls'[d] = calls[d] /\ calls[d].node \in Node
      BY <1>1, <1>4, <2>4
    <3>2. CASE calls[d].node = n /\ j = m
      BY <1>1, <1>3, <3>1, <3>2 DEF GrantInv, GrantSpentOnce
    <3>3. CASE calls[d].node # n \/ j # m
      BY <1>3, <2>4, <3>1, <3>3 DEF GrantInv, GrantSpentOnce
    <3> QED
      BY <3>2, <3>3
  <2>5. ASSUME NEW i \in Node, NEW j \in Name, NEW k \in Name,
               containers'[i][j] # None, containers'[i][k] # None,
               containers'[i][j].grant = containers'[i][k].grant
        PROVE  j = k
    <3>1. CASE i # n
      BY <1>3, <2>5, <3>1 DEF GrantInv, GrantSpentOnce
    <3>2. CASE i = n
      BY <1>1, <1>3, <2>5, <3>2, SMTT(30) DEF GrantInv, GrantSpentOnce
    <3> QED
      BY <3>1, <3>2
  <2> QED
    BY <2>1, <2>2, <2>3, <2>4, <2>5, Zenon DEF GrantSpentOnce
<1>8. DisplacedOnlyInTheWindow'
  BY <1>1, <1>4 DEF GrantInv, DisplacedOnlyInTheWindow, HeldByAnother
<1> QED
  BY <1>5, <1>6, <1>7, <1>8 DEF GrantInv

-----------------------------------------------------------------------------
(* The invariant and what follows from it *)

LEMMA GrantInvStep == GrantInv /\ [RankNext]_rankVars => GrantInv'
<1> SUFFICES ASSUME GrantInv, [RankNext]_rankVars
             PROVE  GrantInv'
  OBVIOUS
<1>0. WellTyped
  BY DEF GrantInv
<1>1. ASSUME NEW c \in Call, Arrive(c) \/ Serve(c) \/ Collect(c)
      PROVE  GrantInv'
  <2>1. WellTyped'
    BY <1>0, <1>1, CallStepTyped
  <2>2. CASE PrepareCheck(c)
    BY <2>1, <2>2, PrepareCheckKeeps
  <2>3. CASE PrepareHold(c)
    BY <2>1, <2>3, PrepareHoldKeeps
  <2>4. CASE CommitTake(c)
    BY <2>1, <2>4, CommitTakeKeeps
  <2>5. CASE CommitRun(c)
    BY <2>1, <2>5, CommitRunKeeps
  <2>6. CASE \/ Arrive(c) \/ Collect(c)
             \/ PrepareRefuse(c) \/ CommitRefuse(c) \/ CommitRunFails(c)
             \/ Alive(c) \/ StopFails(c) \/ Abort(c) \/ Stop(c)
             \/ CommitClear(c) \/ CommitClearFails(c)
    BY <1>0, <2>1, <2>6, CallBringsNothing, NothingNewKeeps
  <2> QED
    BY <1>1, <2>2, <2>3, <2>4, <2>5, <2>6 DEF Serve
<1>2. ASSUME NEW n \in Node, Expire(n) \/ Restart(n) \/ \E m \in Name : Dies(n, m)
      PROVE  GrantInv'
  BY <1>0, <1>2, MachineStepTyped, MachineBringsNothing, NothingNewKeeps
<1>3. CASE UNCHANGED rankVars
  <2>1. WellTyped'
    BY <1>0, <1>3 DEF rankVars, WellTyped, TypeOK, RequestsComplete, Committing, InStage
  <2>2. NothingNew
    BY <1>3 DEF rankVars, NothingNew, Committing, InStage
  <2> QED
    BY <2>1, <2>2, NothingNewKeeps
<1> QED
  BY <1>1, <1>2, <1>3 DEF RankNext

LEMMA GrantInvHolds == RankSpec => []GrantInv
  BY InitGrantInv, GrantInvStep, PTL DEF RankSpec

\* Every variable of a rank service keeps its type.
THEOREM RankTypes == RankSpec => []TypeOK
<1>1. GrantInv => TypeOK
  BY DEF GrantInv, WellTyped
<1> QED
  BY <1>1, GrantInvHolds, PTL

\* A reservation is spent by one commit, however commits are replayed and
\* however many callers know its epoch.  (rankservice/mod.rs, commit: "Taken,
\* not borrowed".)
THEOREM GrantsAreSpentOnce == RankSpec => []GrantSpentOnce
<1>1. GrantInv => GrantSpentOnce
  BY DEF GrantInv
<1> QED
  BY <1>1, GrantInvHolds, PTL

\* What a machine runs is what it rendered when it agreed.
\* (rankservice/mod.rs: "`commit` runs what was kept".)
THEOREM RunningWasRendered == RankSpec => []RunsWhatWasRendered
<1>1. GrantInv => RunsWhatWasRendered
  BY DEF GrantInv
<1> QED
  BY <1>1, GrantInvHolds, PTL

\* A prepare displaces a reservation of another epoch only when that was
\* granted after it had looked.  (rankservice/mod.rs, prepare: the slot is
\* looked at before docker is asked and filled afterwards.)
THEOREM DisplacementNeedsARace == RankSpec => []DisplacedOnlyInTheWindow
<1>1. GrantInv => DisplacedOnlyInTheWindow
  BY DEF GrantInv
<1> QED
  BY <1>1, GrantInvHolds, PTL

-----------------------------------------------------------------------------
(* Numbers and launches *)

LEMMA MinIsLeast ==
  ASSUME NEW S \in SUBSET Nat, S # {}
  PROVE  Min(S) \in S /\ \A i \in S : Min(S) <= i
<1>1. PICK j \in S : \A i \in S : ~ (<<i, j>> \in OpToRel(<, Nat))
  BY NatLessThanWellFounded, WFMin
<1>2. ASSUME NEW i \in S PROVE j <= i
  <2>1. ~ (i < j)
    <3> SUFFICES ASSUME i < j PROVE <<i, j>> \in OpToRel(<, Nat)
      BY <1>1
    <3>1. <<i, j>> \in Nat \X Nat
      OBVIOUS
    <3> QED
      BY <3>1 DEF OpToRel
  <2> QED
    BY <2>1
<1>3. \E x \in S : \A y \in S : x =< y
  BY <1>2
<1> QED
  BY <1>3 DEF Min

\* A launch that was issued has its ranks, each with its machine and its name.
LEMMA LaunchesAreLaidOut ==
  ASSUME issued \in [Epoch -> Attempt \cup {None}], NEW e \in Epoch, issued[e] # None
  PROVE  /\ issued[e].head \in HeadNode
         /\ Everyone(e) \subseteq Nat
         /\ \A i \in Everyone(e) : Ranks(e)[i] \in Node /\ ContainerOf(e, i) \in Name
         /\ \A i, j \in Everyone(e) : Ranks(e)[i] = Ranks(e)[j] => i = j
<1> DEFINE ranks == issued[e].ranks
<1>1. issued[e].head \in HeadNode /\ issued[e].recipe \in Recipe /\ ranks \in Roster
  BY DEF Attempt
<1>2. /\ ranks \in Seq(Node) /\ IsInjective(ranks)
      /\ \A i \in 1..Len(ranks) : <<issued[e].recipe, i>> \in Name
  BY <1>1, LaunchAssumption
<1>3. Len(ranks) \in Nat /\ DOMAIN ranks = 1..Len(ranks)
  BY <1>2
<1>4. \A i \in 1..Len(ranks) : ranks[i] \in Node
  BY <1>2, <1>3
<1> QED
  BY <1>1, <1>2, <1>3, <1>4 DEF Everyone, Ranks, ContainerOf, IsInjective

-----------------------------------------------------------------------------
(* What a step of a rank does to its requests, its grants, its containers *)

\* Handlers move on; what they were asked stays, but for the name a commit
\* takes from its reservation.
RequestStands(c) ==
  /\ calls'[c].op = calls[c].op
  /\ calls'[c].node = calls[c].node
  /\ calls'[c].epoch = calls[c].epoch
  /\ calls[c].op # "commit" => calls'[c].name = calls[c].name

RequestsStand == \A c \in Call : calls[c] # None /\ calls'[c] # None => RequestStands(c)

GrantsStand ==
  \A n \in Node :
    /\ Len(granted[n]) \in Nat /\ Len(granted'[n]) \in Nat
    /\ Len(granted[n]) <= Len(granted'[n])
    /\ \A g \in 1..Len(granted[n]) : granted'[n][g] = granted[n][g]

\* A prepare is answered yes by holding a reservation.
YesIsGranted ==
  \A c \in Call :
    calls'[c] # None /\ calls'[c].op = "prepare" /\ calls'[c].reply = "yes" =>
      \/ calls[c] # None /\ calls[c].reply = "yes"
      \/ \E g \in 1..Len(granted'[calls'[c].node]) :
           granted'[calls'[c].node][g] = [epoch |-> calls'[c].epoch, name |-> calls'[c].name]

\* A container is started by a commit of its launch.
ContainersAreCommitted ==
  \A n \in Node, m \in Name : containers'[n][m] # None =>
    \/ containers[n][m] # None /\ containers'[n][m].epoch = containers[n][m].epoch
    \/ \E c \in Call : /\ calls[c] # None /\ calls[c].op = "commit"
                       /\ calls[c].epoch = containers'[n][m].epoch

RankKeepsFaith ==
  RequestsStand /\ GrantsStand /\ YesIsGranted /\ ContainersAreCommitted

LEMMA GrantsStandUnchanged ==
  ASSUME TypeOK, UNCHANGED granted
  PROVE  GrantsStand
<1>1. \A n \in Node : Len(granted[n]) \in Nat
  BY DEF TypeOK
<1> QED
  BY <1>1 DEF GrantsStand

\* A handler's step changes its own record only, and keeps the request.
ServesTheRequest(c) ==
  /\ calls[c] # None /\ calls'[c] # None
  /\ \A d \in Call : d # c => calls'[d] = calls[d]
  /\ RequestStands(c)

LEMMA ServeKeepsRequest ==
  ASSUME WellTyped, NEW c \in Call, Serve(c)
  PROVE  ServesTheRequest(c)
<1> USE DEF InStage, Moved, ServesTheRequest, RequestStands
<1>0. TypeOK
  BY DEF WellTyped
<1>1. CASE PrepareCheck(c)
  <2> DEFINE n == calls[c].node
  <2>1. Len(granted[n]) \in Nat
    BY <1>0, <1>1 DEF PrepareCheck, TypeOK, CallRecord
  <2>2. CASE Finish(c, "no")
    BY <1>0, <1>1, <2>2, FinishMoves DEF PrepareCheck
  <2>3. CASE calls' = [calls EXCEPT ![c] = [@ EXCEPT !.at = "verify", !.grant = Len(granted[n])]]
    BY <1>0, <1>1, <2>1, <2>3, CheckMoves DEF PrepareCheck
  <2> QED
    BY <1>1, <2>2, <2>3 DEF PrepareCheck
<1>2. CASE PrepareRefuse(c) \/ PrepareHold(c)
  BY <1>0, <1>2, FinishMoves DEF PrepareRefuse, PrepareHold
<1>3. CASE CommitTake(c)
  <2> DEFINE r == reserved[calls[c].node]
  <2>1. r.name \in Name /\ r.grant \in Nat
    BY <1>0, <1>3 DEF CommitTake, TypeOK, CallRecord, Reservation
  <2>2. calls' = [calls EXCEPT ![c] = [@ EXCEPT !.at = "clear", !.name = r.name, !.grant = r.grant]]
    BY <1>3 DEF CommitTake
  <2>3. calls[c] # None /\ calls[c].op = "commit"
    BY <1>3 DEF CommitTake
  <2> HIDE DEF r
  <2> QED
    BY <1>0, <2>1, <2>2, <2>3, TakeMoves
<1>4. CASE CommitClear(c) \/ CommitClearFails(c)
  BY <1>0, <1>4, GoToMoves DEF CommitClear, CommitClearFails, Stage
<1>5. CASE CommitRefuse(c) \/ CommitRun(c) \/ CommitRunFails(c)
  BY <1>0, <1>5, FinishMoves DEF CommitRefuse, CommitRun, CommitRunFails
<1>6. CASE Abort(c) \/ Stop(c) \/ StopFails(c)
  BY <1>0, <1>6, FinishMoves DEF Abort, Stop, StopFails
<1>7. CASE Alive(c)
  <2> DEFINE a == IF IsUp(calls[c].node, calls[c].name) THEN "yes" ELSE "no"
  <2>1. a \in {"none", "yes", "no", "lost"} /\ Finish(c, a)
    BY <1>7 DEF Alive
  <2> HIDE DEF a
  <2> QED
    BY <1>0, <1>7, <2>1, FinishMoves DEF Alive
<1> QED
  BY <1>1, <1>2, <1>3, <1>4, <1>5, <1>6, <1>7 DEF Serve

LEMMA ServeGrants ==
  ASSUME WellTyped, NEW c \in Call, Serve(c)
  PROVE  GrantsStand /\ YesIsGranted
<1>0. TypeOK /\ ServesTheRequest(c)
  BY ServeKeepsRequest DEF WellTyped
<1>1. CASE PrepareHold(c)
  <2> DEFINE n == calls[c].node
             r == [epoch |-> calls[c].epoch, name |-> calls[c].name]
  <2>1. n \in Node /\ r \in [epoch : Epoch, name : Name]
    BY <1>0, <1>1 DEF PrepareHold, InStage, WellTyped, RequestsComplete, TypeOK, CallRecord
  <2>2. granted' = [granted EXCEPT ![n] = Append(@, r)]
    BY <1>1 DEF PrepareHold
  <2>3. /\ Len(granted'[n]) = Len(granted[n]) + 1
        /\ granted'[n][Len(granted[n]) + 1] = r
        /\ \A g \in 1..Len(granted[n]) : granted'[n][g] = granted[n][g]
    BY <1>0, <2>1, <2>2, GrantAppended
  <2>4. \A i \in Node : Len(granted[i]) \in Nat
    BY <1>0 DEF TypeOK
  <2>5. \A i \in Node : i # n => granted'[i] = granted[i]
    BY <1>0, <2>2 DEF TypeOK
  <2>6. GrantsStand
    <3>1. ASSUME NEW i \in Node
          PROVE  /\ Len(granted[i]) <= Len(granted'[i])
                 /\ \A g \in 1..Len(granted[i]) : granted'[i][g] = granted[i][g]
      BY <2>3, <2>4, <2>5
    <3> QED
      BY <3>1 DEF GrantsStand
  <2>7. Len(granted[n]) + 1 \in 1..Len(granted'[n])
    BY <2>1, <2>3, <2>4
  <2>8. calls[c].op = "prepare"
    BY <1>1 DEF PrepareHold, InStage
  <2>9. \A d \in Call : d # c => calls'[d] = calls[d]
    BY <1>0 DEF ServesTheRequest
  <2>10. /\ calls'[c].node = n /\ calls'[c].epoch = r.epoch /\ calls'[c].name = r.name
    BY <1>0, <2>8 DEF ServesTheRequest, RequestStands
  <2>11. \E g \in 1..Len(granted'[calls'[c].node]) :
           granted'[calls'[c].node][g] = [epoch |-> calls'[c].epoch, name |-> calls'[c].name]
    BY <2>3, <2>7, <2>10
  <2> HIDE DEF r, n
  <2> QED
    BY <2>6, <2>9, <2>11 DEF YesIsGranted
<1>2. CASE ~PrepareHold(c)
  <2>1. UNCHANGED granted
    BY <1>2 DEF Serve, PrepareCheck, PrepareRefuse, CommitTake, CommitRefuse, CommitClear,
       CommitClearFails, CommitRun, CommitRunFails, Abort, Alive, Stop, StopFails
  <2>2. calls[c].op = "prepare" => calls'[c].reply \in {calls[c].reply, "no"}
    <3>1. calls[c].op = "prepare" => PrepareCheck(c) \/ PrepareRefuse(c)
      BY <1>2 DEF Serve, CommitTake, CommitRefuse, CommitClear,
         CommitClearFails, CommitRun, CommitRunFails, Abort, Alive, Stop, StopFails, InStage
    <3>2. Finish(c, "no") => calls'[c].reply = "no"
      BY <1>0 DEF Finish, TypeOK, ServesTheRequest, CallRecord
    <3>3. ASSUME calls' = [calls EXCEPT ![c] = [@ EXCEPT !.at = "verify",
                              !.grant = Len(granted[calls[c].node])]]
          PROVE  calls'[c].reply = calls[c].reply
      BY <1>0, <3>3 DEF TypeOK, ServesTheRequest, CallRecord
    <3> QED
      BY <3>1, <3>2, <3>3 DEF PrepareCheck, PrepareRefuse
  <2>3. GrantsStand
    BY <1>0, <2>1, GrantsStandUnchanged
  <2> QED
    BY <1>0, <2>2, <2>3 DEF YesIsGranted, ServesTheRequest, RequestStands
<1> QED
  BY <1>1, <1>2

LEMMA ServeContainers ==
  ASSUME WellTyped, NEW c \in Call, Serve(c)
  PROVE  ContainersAreCommitted
<1>0. TypeOK
  BY DEF WellTyped
<1>1. CASE CommitRun(c)
  <2> DEFINE n == calls[c].node
             m == calls[c].name
             x == [epoch |-> calls[c].epoch, grant |-> calls[c].grant, up |-> TRUE]
  <2>1. /\ n \in Node /\ m \in Name /\ x \in Container /\ calls[c] # None
        /\ calls[c].op = "commit"
    BY <1>0, <1>1 DEF CommitRun, InStage, WellTyped, RequestsComplete, Committing,
       TypeOK, CallRecord, Container
  <2>2. containers' = [containers EXCEPT ![n][m] = x]
    BY <1>1 DEF CommitRun
  <2>3. x.epoch = calls[c].epoch
    OBVIOUS
  <2> HIDE DEF x, n, m
  <2>4. /\ containers'[n][m] = x
        /\ \A i \in Node, j \in Name :
             i # n \/ j # m => containers'[i][j] = containers[i][j]
    BY <1>0, <2>1, <2>2 DEF TypeOK
  <2> QED
    BY <2>1, <2>3, <2>4 DEF ContainersAreCommitted
<1>2. CASE CommitClear(c) \/ Stop(c)
  <2> DEFINE n == calls[c].node
             m == calls[c].name
  <2>1. n \in Node /\ m \in Name
    BY <1>0, <1>2 DEF CommitClear, Stop, InStage, WellTyped, RequestsComplete, Committing,
       TypeOK, CallRecord
  <2>2. containers' = [containers EXCEPT ![n][m] = None]
    BY <1>2 DEF CommitClear, Stop
  <2> HIDE DEF n, m
  <2>3. /\ containers'[n][m] = None
        /\ \A i \in Node, j \in Name :
             i # n \/ j # m => containers'[i][j] = containers[i][j]
    BY <1>0, <2>1, <2>2 DEF TypeOK
  <2> QED
    BY <2>3 DEF ContainersAreCommitted
<1>3. CASE UNCHANGED containers
  BY <1>3 DEF ContainersAreCommitted
<1> QED
  BY <1>1, <1>2, <1>3 DEF Serve, PrepareCheck, PrepareRefuse, PrepareHold, CommitTake,
     CommitRefuse, CommitClearFails, CommitRunFails, Abort, Alive, StopFails

LEMMA RankStepKeepsFaith ==
  ASSUME GrantInv, [RankNext]_rankVars
  PROVE  RankKeepsFaith
<1>0. WellTyped /\ TypeOK
  BY DEF GrantInv, WellTyped
<1>1. ASSUME NEW c \in Call, Serve(c)
      PROVE  RankKeepsFaith
  <2>1. RequestsStand
    BY <1>0, <1>1, ServeKeepsRequest DEF RequestsStand, ServesTheRequest, RequestStands
  <2> QED
    BY <1>0, <1>1, <2>1, ServeGrants, ServeContainers DEF RankKeepsFaith
<1>2. ASSUME NEW c \in Call, Arrive(c) \/ Collect(c)
      PROVE  RankKeepsFaith
  <2>1. UNCHANGED <<reserved, containers, granted>>
    BY <1>2 DEF Arrive, Request, Collect
  <2>2. /\ \A d \in Call : d # c => calls'[d] = calls[d]
        /\ calls[c] # None => calls'[c] = None
        /\ calls'[c] # None => calls'[c].reply = "none"
    <3>1. CASE Arrive(c)
      <4>1. PICK n \in Node, op \in Op, e \in Epoch \cup {None}, m \in Name \cup {None} :
              Request(c, op, n, e, m)
        BY <3>1 DEF Arrive, Op
      <4> QED
        BY <1>0, <4>1 DEF Request, TypeOK
    <3>2. CASE Collect(c)
      BY <1>0, <3>2 DEF Collect, TypeOK
    <3> QED
      BY <1>2, <3>1, <3>2
  <2>3. RequestsStand /\ YesIsGranted
    BY <2>2 DEF RequestsStand, RequestStands, YesIsGranted
  <2> QED
    BY <1>0, <2>1, <2>3, GrantsStandUnchanged DEF RankKeepsFaith, ContainersAreCommitted
<1>3. ASSUME NEW n \in Node, Restart(n)
      PROVE  RankKeepsFaith
  <2>1. ASSUME NEW c \in Call, calls[c] # None
        PROVE  /\ RequestStands(c)
               /\ calls'[c].reply \in {calls[c].reply, "lost"}
    <3>1. calls[c] \in CallRecord
      BY <1>0, <2>1 DEF TypeOK
    <3>2. calls'[c] \in {calls[c], [calls[c] EXCEPT !.at = "done", !.reply = "lost"]}
      BY <1>3 DEF Restart
    <3> QED
      BY <3>1, <3>2 DEF CallRecord, RequestStands
  <2>2. \A c \in Call : calls[c] = None => calls'[c] = None
    BY <1>3 DEF Restart
  <2>3. RequestsStand /\ YesIsGranted
    BY <2>1, <2>2 DEF RequestsStand, YesIsGranted
  <2> QED
    BY <1>0, <1>3, <2>3, GrantsStandUnchanged DEF RankKeepsFaith, ContainersAreCommitted, Restart
<1>4. ASSUME NEW n \in Node, NEW m \in Name, Dies(n, m)
      PROVE  RankKeepsFaith
  <2>1. containers[n][m] \in Container /\ containers[n] \in [Name -> Container \cup {None}]
    BY <1>0, <1>4 DEF TypeOK, Dies, IsUp
  <2>2. \A i \in Node, j \in Name :
          \/ containers'[i][j] = containers[i][j]
          \/ i = n /\ j = m /\ containers'[i][j] = [containers[n][m] EXCEPT !.up = FALSE]
    BY <1>0, <1>4, <2>1 DEF Dies, TypeOK
  <2>3. ContainersAreCommitted
    BY <1>4, <2>1, <2>2 DEF ContainersAreCommitted, Container, Dies, IsUp
  <2> QED
    BY <1>0, <1>4, <2>3, GrantsStandUnchanged
       DEF RankKeepsFaith, RequestsStand, RequestStands, YesIsGranted, Dies
<1>5. CASE UNCHANGED <<calls, granted, containers>>
  BY <1>0, <1>5, GrantsStandUnchanged
     DEF RankKeepsFaith, RequestsStand, RequestStands, YesIsGranted, ContainersAreCommitted
<1> QED
  BY <1>1, <1>2, <1>3, <1>4, <1>5 DEF RankNext, Expire, rankVars

-----------------------------------------------------------------------------
(* The inductive invariant *)

\* The ranks of launch e whose machine granted the rank it was assigned.
Agreeing ==
  [e \in Epoch |->
     {i \in Nat : /\ issued[e] # None
                  /\ i \in Everyone(e)
                  /\ \E g \in 1..Len(granted[Ranks(e)[i]]) :
                       granted[Ranks(e)[i]][g] = [epoch |-> e, name |-> ContainerOf(e, i)]}]

\* The launches every machine has agreed to.
Unanimous == {e \in Epoch : issued[e] # None /\ Everyone(e) \subseteq Agreeing[e]}

\* The ceremonies that a prepare and its outcome are in the hands of.
Taking == {"prepare", "commit", "abort"}

\* Ceremony k of head h works on a launch that was issued, on ranks of that
\* launch, in a stage its operation has; what is being prepared or committed
\* is this head's own launch; a prepare counts only ranks that agreed, a
\* commit is of a launch all have agreed to.
Fits(k, h) ==
  /\ issued[k.epoch] # None
  /\ k.todo \subseteq Everyone(k.epoch)
  /\ k.good \subseteq Everyone(k.epoch)
  /\ k.bad \subseteq Everyone(k.epoch)
  /\ k.call # None => k.todo # {}
  /\ k.op \in Taking => issued[k.epoch].head = h
  /\ k.stage = "ask" => k.op = "prepare"
  /\ k.stage \in {"start", "settle", "unstart"} => k.op = "commit"
  /\ k.stage = "release" => k.op \in Taking
  /\ k.stage \in {"watch", "reread", "clear"} => k.op = "supervise"
  /\ k.stage = "halt" => k.op \in {"stop", "supervise"}
  /\ k.stage \in {"reread", "clear"} => k.todo = {}
  /\ k.op = "supervise" => k.good = {}
  /\ k.stage = "ask" => k.good \subseteq Agreeing[k.epoch]
  /\ k.op = "commit" => k.epoch \in Unanimous

\* The request ceremony k waits for is the one its stage makes of the rank it
\* has come to.
CallFits(k) ==
  k.call # None =>
    /\ calls[k.call] # None
    /\ calls[k.call].op = RankOp(k.stage)
    /\ calls[k.call].node = Ranks(k.epoch)[Min(k.todo)]
    /\ RankOp(k.stage) \in Taking => calls[k.call].epoch = k.epoch
    /\ RankOp(k.stage) \in {"prepare", "alive", "stop"}
         => calls[k.call].name = ContainerOf(k.epoch, Min(k.todo))

CeremoniesFit ==
  \A t \in Task : task[t] # None => Fits(task[t], Home[t]) /\ CallFits(task[t])

\* No two ceremonies wait for one request.
NoSharedCall ==
  \A t, u \in Task :
    t # u /\ task[t] # None /\ task[u] # None /\ task[t].call # None
      => task[t].call # task[u].call

\* A launch is pending or in the hands of one ceremony.
InOneHand ==
  \A t \in Task : task[t] # None /\ task[t].op \in Taking =>
    /\ \A h \in HeadNode : pending[h] # task[t].epoch
    /\ \A u \in Task : u # t /\ task[u] # None /\ task[u].op \in Taking
                         => task[u].epoch # task[t].epoch

\* What a head holds is a launch of its own, agreed to; what it has running is
\* some ranks of a launch that was issued.
RecordsFit ==
  /\ \A h \in HeadNode : pending[h] # None =>
       /\ issued[pending[h]].head = h
       /\ pending[h] \in Unanimous
  /\ \A h \in HeadNode : running[h] # None =>
       /\ issued[running[h].epoch] # None
       /\ running[h].started \subseteq Everyone(running[h].epoch)

\* A yes is a grant; a commit is of a launch that all have agreed to.
RequestsFit ==
  \A c \in Call : calls[c] # None =>
    /\ calls[c].op = "prepare" /\ calls[c].reply = "yes" =>
         \E g \in 1..Len(granted[calls[c].node]) :
           granted[calls[c].node][g] = [epoch |-> calls[c].epoch, name |-> calls[c].name]
    /\ calls[c].op = "commit" => calls[c].epoch \in Unanimous

ContainersFit ==
  \A n \in Node, m \in Name :
    containers[n][m] # None => containers[n][m].epoch \in Unanimous

LaunchInv ==
  /\ LaunchTypeOK
  /\ GrantInv
  /\ CeremoniesFit
  /\ NoSharedCall
  /\ InOneHand
  /\ RecordsFit
  /\ RequestsFit
  /\ ContainersFit

-----------------------------------------------------------------------------
(* Ceremonies on their way *)

LEMMA RankOpTyped ==
  ASSUME NEW s \in {"ask", "start", "settle", "unstart", "release", "watch", "halt"}
  PROVE  /\ RankOp(s) \in Op
         /\ RankOp(s) = "prepare" <=> s = "ask"
         /\ RankOp(s) = "commit" <=> s = "start"
         /\ RankOp(s) = "abort" <=> s = "release"
  BY DEF RankOp, Op

\* Ceremony j is a later state of ceremony k, waiting for nothing.
Continues(j, k) ==
  j \in Ceremony /\ j.call = None /\ j.op = k.op /\ j.epoch = k.epoch

LEMMA OnwardFits ==
  ASSUME issued \in [Epoch -> Attempt \cup {None}],
         NEW k \in Ceremony, NEW h, Fits(k, h), k.call = None
  PROVE  \/ Onward(k) = None
         \/ Continues(Onward(k), k) /\ Fits(Onward(k), h)
<1>1. Everyone(k.epoch) \subseteq Nat
  BY LaunchesAreLaidOut DEF Ceremony, Fits
<1>2. Everyone(k.epoch) \ k.good \in SUBSET Nat
  BY <1>1
<1>3. CASE Onward(k) = k
  BY <1>3 DEF Continues, Fits
<1>4. CASE k.stage = "start" /\ Onward(k) = [k EXCEPT !.stage = "settle", !.todo = k.good]
  <2> DEFINE j == [k EXCEPT !.stage = "settle", !.todo = k.good]
  <2>1. /\ j \in Ceremony /\ j.call = None /\ j.op = k.op /\ j.epoch = k.epoch
        /\ j.stage = "settle" /\ j.todo = k.good /\ j.good = k.good /\ j.bad = k.bad
    BY DEF Ceremony
  <2>2. Onward(k) = j
    BY <1>4
  <2> HIDE DEF j
  <2>3. Fits(j, h)
    BY <1>4, <2>1 DEF Fits
  <2> QED
    BY <2>1, <2>2, <2>3 DEF Continues
<1>5. CASE /\ k.stage = "unstart"
           /\ Onward(k) = [k EXCEPT !.stage = "release", !.todo = Everyone(k.epoch) \ k.good]
  <2> DEFINE j == [k EXCEPT !.stage = "release", !.todo = Everyone(k.epoch) \ k.good]
  <2>1. /\ j \in Ceremony /\ j.call = None /\ j.op = k.op /\ j.epoch = k.epoch
        /\ j.stage = "release" /\ j.todo = Everyone(k.epoch) \ k.good
        /\ j.good = k.good /\ j.bad = k.bad
    BY <1>2 DEF Ceremony
  <2>2. Onward(k) = j
    BY <1>5
  <2> HIDE DEF j
  <2>3. Fits(j, h)
    BY <1>5, <2>1 DEF Fits, Taking
  <2> QED
    BY <2>1, <2>2, <2>3 DEF Continues
<1>6. CASE k.stage = "watch" /\ k.todo = {} /\ Onward(k) = [k EXCEPT !.stage = "reread"]
  <2> DEFINE j == [k EXCEPT !.stage = "reread"]
  <2>1. /\ j \in Ceremony /\ j.call = None /\ j.op = k.op /\ j.epoch = k.epoch
        /\ j.stage = "reread" /\ j.todo = k.todo /\ j.good = k.good /\ j.bad = k.bad
    BY DEF Ceremony
  <2>2. Onward(k) = j
    BY <1>6
  <2> HIDE DEF j
  <2>3. Fits(j, h)
    BY <1>6, <2>1 DEF Fits
  <2> QED
    BY <2>1, <2>2, <2>3 DEF Continues
<1>7. CASE Onward(k) = None
  BY <1>7
<1>8. \/ Onward(k) = k
      \/ k.stage = "start" /\ Onward(k) = [k EXCEPT !.stage = "settle", !.todo = k.good]
      \/ /\ k.stage = "unstart"
         /\ Onward(k) = [k EXCEPT !.stage = "release", !.todo = Everyone(k.epoch) \ k.good]
      \/ k.stage = "watch" /\ k.todo = {} /\ Onward(k) = [k EXCEPT !.stage = "reread"]
      \/ Onward(k) = None
  BY DEF Onward
<1> QED
  BY <1>3, <1>4, <1>5, <1>6, <1>7, <1>8

LEMMA LearnFits ==
  ASSUME issued \in [Epoch -> Attempt \cup {None}],
         NEW k \in Ceremony, NEW h, Fits(k, h), k.todo # {},
         NEW yes \in BOOLEAN,
         k.stage = "ask" /\ yes => Min(k.todo) \in Agreeing[k.epoch]
  PROVE  \/ Learn(k, yes) = None
         \/ Continues(Learn(k, yes), k) /\ Fits(Learn(k, yes), h)
<1> DEFINE i == Min(k.todo)
           next == [k EXCEPT !.todo = @ \ {i}, !.call = None]
<1>1. i \in k.todo /\ i \in Nat /\ i \in Everyone(k.epoch)
  BY MinIsLeast DEF Ceremony, Fits
<1> HIDE DEF i
<1>2. /\ next \in Ceremony /\ next.call = None /\ next.op = k.op
      /\ next.epoch = k.epoch /\ next.stage = k.stage /\ next.todo = k.todo \ {i}
      /\ next.good = k.good /\ next.bad = k.bad
  BY DEF Ceremony
<1> HIDE DEF next
<1>3. Fits(next, h)
  BY <1>1, <1>2 DEF Fits
<1>4. ASSUME NEW j \in Ceremony, j.call = None, j.op = k.op, j.epoch = k.epoch, Fits(j, h),
             Learn(k, yes) = Onward(j)
      PROVE  \/ Learn(k, yes) = None
             \/ Continues(Learn(k, yes), k) /\ Fits(Learn(k, yes), h)
  BY <1>4, OnwardFits DEF Continues
<1>5. CASE k.stage \in {"ask", "start"} /\ yes
  <2> DEFINE j == [next EXCEPT !.good = @ \cup {i}]
  <2>1. /\ j \in Ceremony /\ j.call = None /\ j.op = k.op
        /\ j.epoch = k.epoch /\ j.stage = k.stage /\ j.todo = next.todo
        /\ j.good = k.good \cup {i} /\ j.bad = k.bad
    BY <1>1, <1>2 DEF Ceremony
  <2>2. Learn(k, yes) = Onward(j)
    BY <1>5 DEF Learn, i, next
  <2> HIDE DEF j
  <2>3. k.stage = "ask" => i \in Agreeing[k.epoch]
    BY <1>5 DEF i
  <2>4. Fits(j, h)
    BY <1>1, <1>2, <1>3, <1>5, <2>1, <2>3 DEF Fits
  <2> QED
    BY <1>4, <2>1, <2>2, <2>4
<1>6. CASE k.stage = "start" /\ ~yes
  <2> DEFINE j == [next EXCEPT !.stage = "unstart", !.todo = k.good]
  <2>1. /\ j \in Ceremony /\ j.call = None /\ j.op = k.op
        /\ j.epoch = k.epoch /\ j.stage = "unstart" /\ j.todo = k.good
        /\ j.good = k.good /\ j.bad = k.bad
    BY <1>1, <1>2 DEF Ceremony
  <2>2. Learn(k, yes) = Onward(j)
    BY <1>6 DEF Learn, i, next
  <2> HIDE DEF j
  <2>4. Fits(j, h)
    BY <1>1, <1>2, <1>3, <1>6, <2>1 DEF Fits
  <2> QED
    BY <1>4, <2>1, <2>2, <2>4
<1>7. CASE k.stage \in {"settle", "watch", "halt"} /\ ~yes
  <2> DEFINE j == [next EXCEPT !.bad = @ \cup {i}]
  <2>1. /\ j \in Ceremony /\ j.call = None /\ j.op = k.op
        /\ j.epoch = k.epoch /\ j.stage = k.stage /\ j.todo = next.todo
        /\ j.good = k.good /\ j.bad = k.bad \cup {i}
    BY <1>1, <1>2 DEF Ceremony
  <2>2. Learn(k, yes) = Onward(j)
    BY <1>7 DEF Learn, i, next
  <2> HIDE DEF j
  <2>4. Fits(j, h)
    BY <1>1, <1>2, <1>3, <1>7, <2>1 DEF Fits
  <2> QED
    BY <1>4, <2>1, <2>2, <2>4
<1>8. CASE Learn(k, yes) = Onward(next)
  BY <1>2, <1>3, <1>4, <1>8
<1> QED
  BY <1>5, <1>6, <1>7, <1>8 DEF Learn, next, i

-----------------------------------------------------------------------------
(* What stands while launches are issued and grants are added *)

Grows ==
  /\ \A e \in Epoch : issued[e] # None => issued'[e] = issued[e]
  /\ GrantsStand

LEMMA AgreementStands ==
  ASSUME LaunchTypeOK, Grows
  PROVE  /\ \A e \in Epoch : issued[e] # None => Agreeing[e] \subseteq Agreeing'[e]
         /\ Unanimous \subseteq Unanimous'
<1>1. ASSUME NEW e \in Epoch, issued[e] # None, NEW i \in Agreeing[e]
      PROVE  i \in Agreeing'[e]
  <2> DEFINE n == Ranks(e)[i]
             r == [epoch |-> e, name |-> ContainerOf(e, i)]
  <2>1. i \in Nat /\ i \in Everyone(e)
    BY <1>1 DEF Agreeing
  <2>2. PICK g \in 1..Len(granted[n]) : granted[n][g] = r
    BY <1>1 DEF Agreeing
  <2>3. n \in Node
    BY <1>1, <2>1, LaunchesAreLaidOut DEF LaunchTypeOK
  <2>4. issued'[e] = issued[e]
    BY <1>1 DEF Grows
  <2>5. Everyone(e)' = Everyone(e) /\ Ranks(e)' = Ranks(e) /\ ContainerOf(e, i)' = ContainerOf(e, i)
    BY <2>4 DEF Everyone, Ranks, ContainerOf
  <2>6. g \in 1..Len(granted'[n]) /\ granted'[n][g] = r
    BY <2>2, <2>3 DEF Grows, GrantsStand
  <2> HIDE DEF r
  <2>7. /\ issued'[e] # None
        /\ i \in Everyone(e)'
        /\ \E x \in 1..Len(granted'[Ranks(e)'[i]]) : granted'[Ranks(e)'[i]][x] = r
    BY <1>1, <2>1, <2>4, <2>5, <2>6
  <2> QED
    BY <2>1, <2>5, <2>7 DEF Agreeing, r
<1>2. ASSUME NEW e \in Unanimous
      PROVE  e \in Unanimous'
  <2>1. e \in Epoch /\ issued[e] # None /\ Everyone(e) \subseteq Agreeing[e]
    BY DEF Unanimous
  <2>2. issued'[e] = issued[e]
    BY <2>1 DEF Grows
  <2>3. Everyone(e)' = Everyone(e)
    BY <2>2 DEF Everyone, Ranks
  <2>4. Everyone(e)' \subseteq Agreeing'[e]
    BY <1>1, <2>1, <2>3
  <2> QED
    BY <2>1, <2>2, <2>4 DEF Unanimous
<1> QED
  BY <1>1, <1>2

\* What fits now goes on fitting.
LEMMA FitsStands ==
  ASSUME LaunchTypeOK, Grows, NEW k \in Ceremony, NEW h, Fits(k, h)
  PROVE  Fits(k, h)'
<1>1. k.epoch \in Epoch /\ issued[k.epoch] # None /\ issued'[k.epoch] = issued[k.epoch]
  BY DEF Fits, Grows, Ceremony
<1>2. Everyone(k.epoch)' = Everyone(k.epoch)
  BY <1>1 DEF Everyone, Ranks
<1>3. Agreeing[k.epoch] \subseteq Agreeing'[k.epoch] /\ Unanimous \subseteq Unanimous'
  BY <1>1, AgreementStands
<1> QED
  BY <1>1, <1>2, <1>3 DEF Fits

\* A request goes on being the one that was made.
LEMMA CallFitsStands ==
  ASSUME LaunchTypeOK, Grows, RequestsStand, NEW k \in Ceremony, NEW h, Fits(k, h),
         CallFits(k), k.call # None => calls'[k.call] # None
  PROVE  CallFits(k)'
<1> SUFFICES ASSUME k.call # None
             PROVE  CallFits(k)'
  BY DEF CallFits
<1>1. k.epoch \in Epoch /\ issued'[k.epoch] = issued[k.epoch]
  BY DEF Fits, Grows, Ceremony
<1>2. Ranks(k.epoch)' = Ranks(k.epoch) /\ \A i : ContainerOf(k.epoch, i)' = ContainerOf(k.epoch, i)
  BY <1>1 DEF Ranks, ContainerOf
<1>3. k.call \in Call /\ calls[k.call] # None /\ calls'[k.call] # None
  BY DEF CallFits, Ceremony
<1>4. RequestStands(k.call)
  BY <1>3 DEF RequestsStand
<1> QED
  BY <1>2, <1>3, <1>4 DEF CallFits, RequestStands

-----------------------------------------------------------------------------
(* Steps, as the ceremonies see them *)

\* A task that is left alone: its request, if it waits for one, is not lost.
LeftAlone(t) ==
  /\ task'[t] = task[t]
  /\ task[t] # None /\ task[t].call # None => calls'[task[t].call] # None

\* A task that has moved on in its ceremony, or left it.
Moves(t) ==
  task'[t] # None =>
    /\ task[t] # None
    /\ task'[t].op = task[t].op
    /\ task'[t].op \in Taking => task'[t].epoch = task[t].epoch

LEMMA CeremoniesFitStand ==
  ASSUME LaunchTypeOK, Grows, RequestsStand, CeremoniesFit, LaunchTypeOK',
         \A t \in Task : \/ LeftAlone(t)
                         \/ task'[t] # None => Fits(task[t], Home[t])' /\ CallFits(task[t])'
  PROVE  CeremoniesFit'
<1>1. ASSUME NEW t \in Task, task'[t] # None, LeftAlone(t)
      PROVE  Fits(task[t], Home[t])' /\ CallFits(task[t])'
  <2>1. PICK k \in Ceremony : k = task'[t]
    BY <1>1 DEF LaunchTypeOK
  <2>2. k = task[t] /\ task[t] # None
    BY <1>1, <2>1 DEF LeftAlone
  <2>3. Fits(k, Home[t]) /\ CallFits(k)
    BY <2>2 DEF CeremoniesFit
  <2>4. k.call # None => calls'[k.call] # None
    BY <1>1, <2>2 DEF LeftAlone
  <2>5. Fits(k, Home[t])' /\ CallFits(k)'
    BY <2>3, <2>4, FitsStands, CallFitsStands
  <2> QED
    BY <2>1, <2>5 DEF Fits, CallFits
<1> QED
  BY <1>1 DEF CeremoniesFit

\* While tasks move on and nothing new is pending, a launch stays in one hand.
LEMMA InOneHandStands ==
  ASSUME InOneHand, \A t \in Task : Moves(t),
         \A h \in HeadNode : pending'[h] \in {pending[h], None},
         None \notin Epoch, LaunchTypeOK'
  PROVE  InOneHand'
<1>1. \A t \in Task : task'[t] # None => task'[t].epoch \in Epoch
  BY DEF LaunchTypeOK, Ceremony
<1> QED
  BY <1>1 DEF InOneHand, Moves

ClusterFits(r) ==
  issued[r.epoch] # None /\ r.started \subseteq Everyone(r.epoch)

\* Records that stand, are emptied, or are written with what fits.
LEMMA RecordsFitStand ==
  ASSUME LaunchTypeOK, LaunchTypeOK', Grows, RecordsFit,
         \A h \in HeadNode : pending'[h] # None =>
           \/ pending'[h] = pending[h]
           \/ issued[pending'[h]].head = h /\ pending'[h] \in Unanimous,
         \A h \in HeadNode : running'[h] # None =>
           \/ running'[h] = running[h]
           \/ \E r \in Cluster : r = running'[h] /\ ClusterFits(r)
  PROVE  RecordsFit'
<1>1. ASSUME NEW h \in HeadNode, pending'[h] # None
      PROVE  issued'[pending'[h]].head = h /\ pending'[h] \in Unanimous'
  <2>1. issued[pending'[h]].head = h /\ pending'[h] \in Unanimous
    BY <1>1 DEF RecordsFit
  <2>2. Unanimous \subseteq Unanimous'
    BY AgreementStands
  <2>3. pending'[h] \in Epoch /\ issued[pending'[h]] # None
    BY <2>1 DEF Unanimous
  <2> QED
    BY <2>1, <2>2, <2>3 DEF Grows
<1>2. ASSUME NEW h \in HeadNode, running'[h] # None
      PROVE  ClusterFits(running[h])'
  <2>1. PICK r \in Cluster : r = running'[h]
    BY <1>2 DEF LaunchTypeOK
  <2>2. ClusterFits(r)
    BY <1>2, <2>1 DEF RecordsFit, ClusterFits
  <2>3. r.epoch \in Epoch /\ issued'[r.epoch] = issued[r.epoch]
    BY <2>2 DEF Cluster, ClusterFits, Grows
  <2>4. Everyone(r.epoch)' = Everyone(r.epoch)
    BY <2>3 DEF Everyone, Ranks
  <2> QED
    BY <2>1, <2>2, <2>3, <2>4 DEF ClusterFits
<1> QED
  BY <1>1, <1>2 DEF RecordsFit, ClusterFits

\* Requests and containers stay what they are, whatever the ranks do; a new
\* commit is of a launch all have agreed to.
LEMMA RequestsFitStand ==
  ASSUME LaunchTypeOK, LaunchTypeOK', Grows, RankKeepsFaith, RequestsFit,
         \A c \in Call : calls'[c] # None =>
           calls[c] # None \/ (calls'[c].op = "commit" => calls'[c].epoch \in Unanimous)
  PROVE  RequestsFit'
<1>0. Unanimous \subseteq Unanimous'
  BY AgreementStands
<1>1. ASSUME NEW c \in Call, calls'[c] # None, calls'[c].op = "commit"
      PROVE  calls'[c].epoch \in Unanimous'
  <2>1. CASE calls[c] = None
    BY <1>0, <1>1, <2>1
  <2>2. CASE calls[c] # None
    <3>1. calls[c].op = "commit" /\ calls[c].epoch = calls'[c].epoch
      BY <1>1, <2>2 DEF RankKeepsFaith, RequestsStand, RequestStands
    <3> QED
      BY <1>0, <2>2, <3>1 DEF RequestsFit
  <2> QED
    BY <2>1, <2>2
<1>2. ASSUME NEW c \in Call, calls'[c] # None, calls'[c].op = "prepare", calls'[c].reply = "yes"
      PROVE  \E g \in 1..Len(granted'[calls'[c].node]) :
               granted'[calls'[c].node][g]
                 = [epoch |-> calls'[c].epoch, name |-> calls'[c].name]
  <2>1. CASE calls[c] # None /\ calls[c].reply = "yes"
    <3> DEFINE n == calls[c].node
               r == [epoch |-> calls[c].epoch, name |-> calls[c].name]
    <3>1. /\ calls[c].op = "prepare" /\ calls'[c].node = n
          /\ calls'[c].epoch = calls[c].epoch /\ calls'[c].name = calls[c].name
      BY <1>2, <2>1 DEF RankKeepsFaith, RequestsStand, RequestStands
    <3>2. PICK g \in 1..Len(granted[n]) : granted[n][g] = r
      BY <2>1, <3>1 DEF RequestsFit
    <3>3. n \in Node
      BY <2>1 DEF LaunchTypeOK, TypeOK, CallRecord
    <3>4. g \in 1..Len(granted'[n]) /\ granted'[n][g] = granted[n][g]
      BY <3>2, <3>3 DEF Grows, GrantsStand
    <3> QED
      BY <3>1, <3>2, <3>4
  <2> QED
    BY <1>2, <2>1 DEF RankKeepsFaith, YesIsGranted
<1> QED
  BY <1>1, <1>2 DEF RequestsFit

LEMMA ContainersFitStand ==
  ASSUME LaunchTypeOK, LaunchTypeOK', Grows, RankKeepsFaith, RequestsFit, ContainersFit
  PROVE  ContainersFit'
<1>0. Unanimous \subseteq Unanimous'
  BY AgreementStands
<1>1. ASSUME NEW n \in Node, NEW m \in Name, containers'[n][m] # None
      PROVE  containers'[n][m].epoch \in Unanimous
  BY <1>1 DEF RankKeepsFaith, ContainersAreCommitted, RequestsFit, ContainersFit
<1> QED
  BY <1>0, <1>1 DEF ContainersFit

\* Everything but what the driver itself keeps.
DriverTypeOK ==
  /\ pending \in [HeadNode -> Epoch \cup {None}]
  /\ running \in [HeadNode -> Cluster \cup {None}]
  /\ task \in [Task -> Ceremony \cup {None}]
  /\ issued \in [Epoch -> Attempt \cup {None}]
  /\ doubtful \in SUBSET Node
  /\ lapsed \in SUBSET Node
  /\ faults \in 0..MaxFaults

\* What every step has to show.
LEMMA LaunchInvStands ==
  ASSUME LaunchInv, [RankNext]_rankVars, DriverTypeOK',
         \A e \in Epoch : issued[e] # None => issued'[e] = issued[e],
         \A c \in Call : calls'[c] # None =>
           calls[c] # None \/ (calls'[c].op = "commit" => calls'[c].epoch \in Unanimous),
         \A t \in Task : \/ LeftAlone(t)
                         \/ task'[t] # None => Fits(task[t], Home[t])' /\ CallFits(task[t])',
         NoSharedCall', InOneHand',
         \A h \in HeadNode : pending'[h] # None =>
           \/ pending'[h] = pending[h]
           \/ issued[pending'[h]].head = h /\ pending'[h] \in Unanimous,
         \A h \in HeadNode : running'[h] # None =>
           \/ running'[h] = running[h]
           \/ \E r \in Cluster : r = running'[h] /\ ClusterFits(r)
  PROVE  LaunchInv'
<1>1. GrantInv' /\ RankKeepsFaith
  BY GrantInvStep, RankStepKeepsFaith DEF LaunchInv
<1>2. LaunchTypeOK'
  BY <1>1 DEF LaunchTypeOK, DriverTypeOK, GrantInv, WellTyped
<1>3. LaunchTypeOK /\ Grows /\ RequestsStand
  BY <1>1 DEF LaunchInv, Grows, RankKeepsFaith
<1>4. CeremoniesFit'
  BY <1>2, <1>3, CeremoniesFitStand DEF LaunchInv
<1>5. RecordsFit'
  BY <1>2, <1>3, RecordsFitStand DEF LaunchInv
<1>6. RequestsFit' /\ ContainersFit'
  BY <1>1, <1>2, <1>3, RequestsFitStand, ContainersFitStand DEF LaunchInv
<1> QED
  BY <1>1, <1>2, <1>4, <1>5, <1>6 DEF LaunchInv

LEMMA NoSharedCallStands ==
  ASSUME NoSharedCall,
         \A t \in Task : task'[t] # None /\ task'[t].call # None => task'[t] = task[t]
  PROVE  NoSharedCall'
  BY DEF NoSharedCall

-----------------------------------------------------------------------------
(* The steps *)

\* A task moves on in its ceremony, or leaves it, and waits for nothing.
LEMMA TaskStep ==
  ASSUME LaunchInv, [RankNext]_rankVars, NEW t \in Task, task[t] # None,
         NEW j, task' = [task EXCEPT ![t] = j],
         \/ j = None
         \/ /\ j \in Ceremony /\ j.call = None /\ j.op = task[t].op
            /\ j.op \in Taking => j.epoch = task[t].epoch
            /\ Fits(j, Home[t]),
         issued' = issued,
         \A u \in Task : u # t /\ task[u] # None /\ task[u].call # None
                           => calls'[task[u].call] # None,
         \A c \in Call : calls'[c] # None => calls[c] # None,
         pending' = pending,
         running' \in [HeadNode -> Cluster \cup {None}],
         \A h \in HeadNode : running'[h] # None =>
           \/ running'[h] = running[h]
           \/ \E r \in Cluster : r = running'[h] /\ ClusterFits(r),
         doubtful' \in SUBSET Node, lapsed' \in SUBSET Node, faults' \in 0..MaxFaults
  PROVE  LaunchInv'
<1>0. LaunchTypeOK /\ NoSharedCall /\ InOneHand /\ None \notin Epoch
  BY NoneIsFresh DEF LaunchInv
<1>1. DriverTypeOK'
  BY <1>0 DEF DriverTypeOK, LaunchTypeOK
<1>2. task'[t] = j /\ \A u \in Task : u # t => task'[u] = task[u]
  BY <1>0 DEF LaunchTypeOK
<1>3. GrantInv' /\ RankKeepsFaith
  BY GrantInvStep, RankStepKeepsFaith DEF LaunchInv
<1>4. LaunchTypeOK' /\ Grows
  BY <1>1, <1>3 DEF LaunchTypeOK, DriverTypeOK, GrantInv, WellTyped, Grows, RankKeepsFaith
<1>5. \A u \in Task : u # t => LeftAlone(u)
  BY <1>2 DEF LeftAlone
<1>6. task'[t] # None => Fits(task[t], Home[t])' /\ CallFits(task[t])'
  <2> SUFFICES ASSUME j # None
               PROVE  Fits(task[t], Home[t])' /\ CallFits(task[t])'
    BY <1>2
  <2>1. Fits(j, Home[t])'
    BY <1>0, <1>4, FitsStands
  <2> QED
    BY <1>2, <2>1 DEF Fits, CallFits
<1>7. NoSharedCall'
  BY <1>0, <1>2, NoSharedCallStands
<1>8. \A u \in Task : Moves(u)
  BY <1>2 DEF Moves
<1>9. InOneHand'
  BY <1>0, <1>4, <1>8, InOneHandStands
<1> QED
  BY <1>1, <1>5, <1>6, <1>7, <1>9, LaunchInvStands

\* What every task of the fleet may count on.
LEMMA TaskFacts ==
  ASSUME LaunchInv, NEW t \in Task, task[t] # None
  PROVE  /\ task[t] \in Ceremony /\ Fits(task[t], Home[t]) /\ CallFits(task[t])
         /\ task[t].epoch \in Epoch /\ issued[task[t].epoch] # None
         /\ Home[t] \in HeadNode /\ Home[t] \in Node
         /\ issued \in [Epoch -> Attempt \cup {None}]
<1>1. task[t] \in Ceremony /\ issued \in [Epoch -> Attempt \cup {None}]
  BY DEF LaunchInv, LaunchTypeOK
<1>2. Fits(task[t], Home[t]) /\ CallFits(task[t])
  BY DEF LaunchInv, CeremoniesFit
<1>3. Home[t] \in HeadNode /\ Home[t] \in Node
  BY LaunchAssumption
<1> QED
  BY <1>1, <1>2, <1>3 DEF Ceremony, Fits

\* The rank a ceremony has come to.
LEMMA AskedFacts ==
  ASSUME LaunchInv, NEW t \in Task, task[t] # None, task[t].todo # {}
  PROVE  /\ Asked(t) \in Node
         /\ Min(task[t].todo) \in task[t].todo
         /\ Min(task[t].todo) \in Nat
         /\ Min(task[t].todo) \in Everyone(task[t].epoch)
         /\ ContainerOf(task[t].epoch, Min(task[t].todo)) \in Name
         /\ task[t].stage \in {"ask", "start", "settle", "unstart", "release", "watch", "halt"}
<1>1. task[t].todo \in SUBSET Nat /\ task[t].todo \subseteq Everyone(task[t].epoch)
  BY TaskFacts DEF Ceremony, Fits
<1>2. Min(task[t].todo) \in task[t].todo
  BY <1>1, MinIsLeast
<1>3. task[t].stage \in {"ask", "start", "settle", "unstart", "release", "watch", "halt"}
  BY TaskFacts DEF Ceremony, Fits
<1>4. /\ Ranks(task[t].epoch)[Min(task[t].todo)] \in Node
      /\ ContainerOf(task[t].epoch, Min(task[t].todo)) \in Name
  BY <1>1, <1>2, TaskFacts, LaunchesAreLaidOut
<1> QED
  BY <1>1, <1>2, <1>3, <1>4 DEF Asked

\* The next state of a task that learns of an answer, or that none came.
LEMMA LearnStep ==
  ASSUME LaunchInv, NEW t \in Task, task[t] # None, task[t].todo # {},
         NEW yes \in BOOLEAN,
         task[t].stage = "ask" /\ yes => Min(task[t].todo) \in Agreeing[task[t].epoch]
  PROVE  \/ Learn(task[t], yes) = None
         \/ /\ Learn(task[t], yes) \in Ceremony
            /\ Learn(task[t], yes).call = None
            /\ Learn(task[t], yes).op = task[t].op
            /\ Learn(task[t], yes).epoch = task[t].epoch
            /\ Fits(Learn(task[t], yes), Home[t])
<1>1. PICK k \in Ceremony : k = task[t]
  BY TaskFacts
<1>2. Fits(k, Home[t]) /\ issued \in [Epoch -> Attempt \cup {None}]
  BY <1>1, TaskFacts
<1>3. \/ Learn(k, yes) = None
      \/ Continues(Learn(k, yes), k) /\ Fits(Learn(k, yes), Home[t])
  BY <1>1, <1>2, LearnFits
<1> QED
  BY <1>1, <1>3 DEF Continues

LEMMA FaultTyped ==
  ASSUME LaunchTypeOK, NEW kind, Fault(kind)
  PROVE  faults' \in 0..MaxFaults
  BY LaunchAssumption DEF LaunchTypeOK, Fault

\* No answer came: nothing happened at the rank.
LEMMA NoAnswerStep ==
  ASSUME LaunchInv, NEW t \in Task, Unreachable(t) \/ GiveUp(t)
  PROVE  LaunchInv'
<1>0. LaunchTypeOK
  BY DEF LaunchInv
<1>1. /\ task[t] # None /\ task[t].todo # {}
      /\ UNCHANGED rankVars /\ pending' = pending /\ running' = running /\ issued' = issued
  BY TaskFacts DEF Unreachable, GiveUp, ToAsk, Waiting, Fits
<1>2. faults' \in 0..MaxFaults
  BY <1>0, FaultTyped DEF Unreachable, GiveUp
<1>3. Asked(t) \in Node
  BY <1>1, AskedFacts
<1>4. doubtful' \in SUBSET Node /\ lapsed' \in SUBSET Node
  BY <1>0, <1>3 DEF Unreachable, GiveUp, LaunchTypeOK
<1>5. PICK yes \in BOOLEAN : yes = FALSE
  OBVIOUS
<1>6. PICK j : j = Learn(task[t], yes)
  OBVIOUS
<1>7. task' = [task EXCEPT ![t] = j]
  BY <1>5, <1>6 DEF Unreachable, GiveUp
<1>8. \/ j = None
      \/ /\ j \in Ceremony /\ j.call = None /\ j.op = task[t].op
         /\ j.epoch = task[t].epoch /\ Fits(j, Home[t])
  BY <1>1, <1>5, <1>6, LearnStep
<1>9. calls' = calls
  BY <1>1 DEF rankVars
<1>10. \A u \in Task : task[u] # None /\ task[u].call # None => calls[task[u].call] # None
  BY TaskFacts DEF CallFits
<1>11. running' \in [HeadNode -> Cluster \cup {None}]
  BY <1>0, <1>1 DEF LaunchTypeOK
<1> QED
  BY <1>1, <1>2, <1>4, <1>7, <1>8, <1>9, <1>10, <1>11, TaskStep

\* An answer came: a yes to a prepare is a grant of the rank it was made of.
LEMMA YesToPrepare ==
  ASSUME LaunchInv, NEW t \in Task, Waiting(t), task[t].stage = "ask", Heard(t)
  PROVE  Min(task[t].todo) \in Agreeing[task[t].epoch]
<1> DEFINE c == task[t].call
           e == task[t].epoch
           i == Min(task[t].todo)
           n == Ranks(e)[i]
           r == [epoch |-> e, name |-> ContainerOf(e, i)]
<1>1. task[t] # None /\ c # None /\ task[t].todo # {}
  BY TaskFacts DEF Waiting, Fits
<1>2. /\ c \in Call /\ calls[c] # None /\ calls[c].op = "prepare" /\ calls[c].node = n
      /\ calls[c].epoch = e /\ calls[c].name = ContainerOf(e, i)
  BY <1>1, TaskFacts DEF CallFits, Ceremony, RankOp, Taking
<1>3. calls[c].reply = "yes"
  BY <1>2 DEF Heard
<1>4. \E g \in 1..Len(granted[n]) : granted[n][g] = r
  BY <1>2, <1>3 DEF LaunchInv, RequestsFit
<1>5. /\ e \in Epoch /\ issued[e] # None /\ i \in Nat /\ i \in Everyone(e)
  BY <1>1, TaskFacts, AskedFacts
<1> HIDE DEF c, e, i, n
<1> QED
  BY <1>4, <1>5 DEF Agreeing, n, r, e, i

LEMMA AnswerStep ==
  ASSUME LaunchInv, NEW t \in Task, Answer(t)
  PROVE  LaunchInv'
<1>0. LaunchTypeOK
  BY DEF LaunchInv
<1>1. /\ task[t] # None /\ task[t].todo # {} /\ task[t].call # None
      /\ pending' = pending /\ running' = running /\ issued' = issued
      /\ lapsed' = lapsed /\ faults' = faults
  BY TaskFacts DEF Answer, Waiting, Fits
<1>2. Collect(task[t].call) /\ task[t].call \in Call
  BY <1>1, TaskFacts DEF Answer, Ceremony
<1>3. [RankNext]_rankVars
  BY <1>2 DEF RankNext
<1>4. doubtful' \in SUBSET Node
  BY <1>0, <1>1, AskedFacts DEF Answer, LaunchTypeOK
<1>5. PICK yes \in BOOLEAN : yes = Heard(t)
  BY DEF Heard
<1>6. PICK j : j = Learn(task[t], yes)
  OBVIOUS
<1>7. task' = [task EXCEPT ![t] = j]
  BY <1>5, <1>6 DEF Answer
<1>8. \/ j = None
      \/ /\ j \in Ceremony /\ j.call = None /\ j.op = task[t].op
         /\ j.epoch = task[t].epoch /\ Fits(j, Home[t])
  <2>1. task[t].stage = "ask" /\ yes => Min(task[t].todo) \in Agreeing[task[t].epoch]
    BY <1>5, YesToPrepare DEF Answer
  <2> QED
    BY <1>1, <1>6, <2>1, LearnStep
<1>9. /\ \A c \in Call : c # task[t].call => calls'[c] = calls[c]
      /\ calls'[task[t].call] = None
  BY <1>0, <1>2 DEF Collect, LaunchTypeOK, TypeOK
<1>10. ASSUME NEW u \in Task, u # t, task[u] # None, task[u].call # None
       PROVE  calls'[task[u].call] # None
  <2>1. task[u].call # task[t].call
    BY <1>1, <1>10 DEF LaunchInv, NoSharedCall
  <2>2. task[u].call \in Call /\ calls[task[u].call] # None
    BY <1>10, TaskFacts DEF CallFits, Ceremony
  <2> QED
    BY <1>9, <2>1, <2>2
<1>11. \A c \in Call : calls'[c] # None => calls[c] # None
  BY <1>9
<1>12. /\ running' \in [HeadNode -> Cluster \cup {None}]
       /\ lapsed' \in SUBSET Node /\ faults' \in 0..MaxFaults
  BY <1>0, <1>1 DEF LaunchTypeOK
<1> QED
  BY <1>1, <1>3, <1>4, <1>7, <1>8, <1>10, <1>11, <1>12, TaskStep

\* What a task sends is a request a rank is open to.
LEMMA AskArrives ==
  ASSUME LaunchInv, NEW t \in Task, Ask(t)
  PROVE  \E c \in Call : Arrive(c)
<1>1. task[t] # None /\ task[t].todo # {}
  BY DEF Ask, ToAsk
<1> DEFINE op == RankOp(task[t].stage)
           i == Min(task[t].todo)
           e == IF op \in {"prepare", "commit", "abort"} THEN task[t].epoch ELSE None
           m == IF op \in {"prepare", "alive", "stop"} THEN ContainerOf(task[t].epoch, i) ELSE None
<1>2. PICK c \in Call : Request(c, op, Asked(t), e, m)
  BY DEF Ask
<1>3. /\ Asked(t) \in Node /\ task[t].epoch \in Epoch
      /\ ContainerOf(task[t].epoch, i) \in Name
      /\ task[t].stage \in {"ask", "start", "settle", "unstart", "release", "watch", "halt"}
  BY <1>1, TaskFacts, AskedFacts
<1>4. op \in Op
  BY <1>3, RankOpTyped
<1>5. Arrive(c)
  <2>1. CASE op = "prepare"
    <3>1. e = task[t].epoch /\ m = ContainerOf(task[t].epoch, i)
      BY <2>1
    <3> HIDE DEF e, m, op
    <3> QED
      BY <1>2, <1>3, <2>1, <3>1 DEF Arrive
  <2>2. CASE op \in {"commit", "abort"}
    <3>1. e = task[t].epoch /\ m = None
      BY <2>2
    <3> HIDE DEF e, m, op
    <3> QED
      BY <1>2, <1>3, <2>2, <3>1 DEF Arrive
  <2>3. CASE op \in {"alive", "stop"}
    <3>1. e = None /\ m = ContainerOf(task[t].epoch, i)
      BY <2>3
    <3> HIDE DEF e, m, op
    <3> QED
      BY <1>2, <1>3, <2>3, <3>1 DEF Arrive
  <2> QED
    BY <1>4, <2>1, <2>2, <2>3 DEF Op
<1> QED
  BY <1>5

\* A task asks the rank it has come to.
LEMMA AskStep ==
  ASSUME LaunchInv, NEW t \in Task, Ask(t)
  PROVE  LaunchInv'
<1>0. /\ LaunchTypeOK /\ TypeOK /\ NoSharedCall /\ InOneHand
      /\ None \notin Epoch /\ None \notin Call
  BY NoneIsFresh, LaunchNoneIsFresh DEF LaunchInv, LaunchTypeOK
<1>1. /\ task[t] # None /\ task[t].todo # {} /\ task[t].call = None
      /\ pending' = pending /\ running' = running /\ issued' = issued
      /\ doubtful' = doubtful /\ lapsed' = lapsed /\ faults' = faults
  BY DEF Ask, ToAsk
<1> DEFINE op == RankOp(task[t].stage)
           i == Min(task[t].todo)
           e == IF op \in {"prepare", "commit", "abort"} THEN task[t].epoch ELSE None
           m == IF op \in {"prepare", "alive", "stop"} THEN ContainerOf(task[t].epoch, i) ELSE None
<1>2. PICK c \in Call : /\ calls[c] = None
                        /\ Request(c, op, Asked(t), e, m)
                        /\ task' = [task EXCEPT ![t] = [@ EXCEPT !.call = c]]
  BY DEF Ask
<1>3. /\ Asked(t) \in Node /\ task[t].epoch \in Epoch
      /\ ContainerOf(task[t].epoch, i) \in Name
      /\ task[t].stage \in {"ask", "start", "settle", "unstart", "release", "watch", "halt"}
  BY <1>1, TaskFacts, AskedFacts
<1>4. op \in Op
  BY <1>3, RankOpTyped
<1>6. [RankNext]_rankVars
  BY AskArrives DEF RankNext
<1>7. /\ calls'[c] # None /\ calls'[c].op = op /\ calls'[c].node = Asked(t)
      /\ calls'[c].epoch = e /\ calls'[c].name = m
      /\ \A d \in Call : d # c => calls'[d] = calls[d]
  <2>1. calls' = [calls EXCEPT ![c] =
                   [op |-> op, node |-> Asked(t), epoch |-> e, name |-> m,
                    at |-> "start", grant |-> 0, reply |-> "none"]]
    BY <1>2 DEF Request
  <2>2. [op |-> op, node |-> Asked(t), epoch |-> e, name |-> m,
         at |-> "start", grant |-> 0, reply |-> "none"] # None
    <3>1. e \in Epoch \cup {None} /\ m \in Name \cup {None}
      BY <1>3
    <3> HIDE DEF e, m, op
    <3> QED
      BY <1>3, <1>4, <3>1, NoneIsFresh DEF CallRecord, Stage
  <2> HIDE DEF e, m, op
  <2> QED
    BY <1>0, <2>1, <2>2 DEF TypeOK
<1>8. PICK k \in Ceremony : k = [task[t] EXCEPT !.call = c]
  BY <1>1, TaskFacts DEF Ceremony
<1>9. task'[t] = k /\ \A u \in Task : u # t => task'[u] = task[u]
  BY <1>0, <1>2, <1>8 DEF LaunchTypeOK
<1>10. /\ k.op = task[t].op /\ k.stage = task[t].stage /\ k.epoch = task[t].epoch
       /\ k.todo = task[t].todo /\ k.good = task[t].good /\ k.bad = task[t].bad
       /\ k.call = c
  BY <1>1, <1>8, TaskFacts DEF Ceremony
<1>11. DriverTypeOK'
  BY <1>0, <1>1, <1>2, <1>8 DEF DriverTypeOK, LaunchTypeOK
<1>12. Fits(k, Home[t])
  BY <1>1, <1>10, TaskFacts DEF Fits
<1>13. GrantInv' /\ RankKeepsFaith
  BY <1>6, GrantInvStep, RankStepKeepsFaith DEF LaunchInv
<1>14. LaunchTypeOK' /\ Grows
  BY <1>1, <1>11, <1>13 DEF LaunchTypeOK, DriverTypeOK, GrantInv, WellTyped, Grows, RankKeepsFaith
<1>15. Fits(k, Home[t])'
  BY <1>0, <1>12, <1>14, FitsStands
<1>16. CallFits(k)'
  <2>1. /\ op \in Taking => e = task[t].epoch
        /\ op \in {"prepare", "alive", "stop"} => m = ContainerOf(task[t].epoch, i)
    BY DEF Taking
  <2>2. Ranks(k.epoch)' = Ranks(task[t].epoch)
    BY <1>1, <1>10 DEF Ranks, ContainerOf
  <2>3. op = RankOp(k.stage) /\ i = Min(k.todo)
    BY <1>10
  <2>4. Asked(t) = Ranks(task[t].epoch)[i]
    BY DEF Asked
  <2>5. PICK ii : ii = i
    OBVIOUS
  <2>6. ContainerOf(k.epoch, ii)' = ContainerOf(task[t].epoch, i)
    BY <1>1, <1>10, <2>5 DEF ContainerOf
  <2> HIDE DEF op, e, m, i
  <2> QED
    BY <1>7, <1>10, <2>1, <2>2, <2>3, <2>4, <2>5, <2>6 DEF CallFits
<1>17. \A u \in Task : u # t => LeftAlone(u)
  <2>1. \A u \in Task : task[u] # None /\ task[u].call # None =>
           task[u].call \in Call /\ calls[task[u].call] # None
    BY TaskFacts DEF CallFits, Ceremony
  <2> QED
    BY <1>2, <1>7, <1>9, <2>1 DEF LeftAlone
<1>18. NoSharedCall'
  <2>1. \A u \in Task : task[u] # None /\ task[u].call # None => task[u].call # c
    BY <1>2, TaskFacts DEF CallFits, Ceremony
  <2> QED
    BY <1>0, <1>9, <1>10, <2>1 DEF NoSharedCall
<1>19. InOneHand'
  <2>1. \A u \in Task : Moves(u)
    BY <1>1, <1>9, <1>10 DEF Moves
  <2> QED
    BY <1>0, <1>1, <1>14, <2>1, InOneHandStands
<1>20. \A d \in Call : calls'[d] # None =>
         calls[d] # None \/ (calls'[d].op = "commit" => calls'[d].epoch \in Unanimous)
  <2>1. op = "commit" => e = task[t].epoch /\ task[t].epoch \in Unanimous
    <3> SUFFICES ASSUME op = "commit" PROVE e = task[t].epoch /\ task[t].epoch \in Unanimous
      OBVIOUS
    <3>1. task[t].stage = "start"
      BY <1>3, RankOpTyped
    <3> QED
      BY <1>1, <3>1, TaskFacts DEF Fits
  <2> HIDE DEF op, e, m, i
  <2> QED
    BY <1>7, <2>1
<1>21. Fits(task[t], Home[t])' /\ CallFits(task[t])'
  BY <1>9, <1>15, <1>16 DEF Fits, CallFits
<1>22. \A u \in Task : \/ LeftAlone(u)
                       \/ task'[u] # None => Fits(task[u], Home[u])' /\ CallFits(task[u])'
  BY <1>17, <1>21
<1>23. /\ \A x \in Epoch : issued[x] # None => issued'[x] = issued[x]
       /\ \A h \in HeadNode : pending'[h] = pending[h] /\ running'[h] = running[h]
  BY <1>1
<1> HIDE DEF op, e, m, i
<1> QED
  BY <1>6, <1>11, <1>18, <1>19, <1>20, <1>22, <1>23, LaunchInvStands

-----------------------------------------------------------------------------
(* The ends of stages, which ask nobody *)

\* As TaskStep, with the ranks, the pending prepare and the histories as they
\* were.
LEMMA TaskStepAlone ==
  ASSUME LaunchInv, NEW t \in Task, task[t] # None,
         NEW j, task' = [task EXCEPT ![t] = j],
         \/ j = None
         \/ /\ j \in Ceremony /\ j.call = None /\ j.op = task[t].op
            /\ j.op \in Taking => j.epoch = task[t].epoch
            /\ Fits(j, Home[t]),
         UNCHANGED <<rankVars, pending, issued, doubtful, lapsed, faults>>,
         NEW r \in Cluster \cup {None}, r # None => ClusterFits(r),
         running' = running \/ running' = [running EXCEPT ![Home[t]] = r]
  PROVE  LaunchInv'
<1>0. LaunchTypeOK
  BY DEF LaunchInv
<1>1. UNCHANGED rankVars /\ calls' = calls
  BY DEF rankVars
<1>2. \A u \in Task : task[u] # None /\ task[u].call # None => calls[task[u].call] # None
  BY TaskFacts DEF CallFits
<1>3. /\ running' \in [HeadNode -> Cluster \cup {None}]
      /\ \A h \in HeadNode : running'[h] = running[h] \/ running'[h] = r
  BY <1>0 DEF LaunchTypeOK
<1>4. \A h \in HeadNode : running'[h] # None =>
           \/ running'[h] = running[h]
           \/ \E x \in Cluster : x = running'[h] /\ ClusterFits(x)
  BY <1>3
<1>5. doubtful' \in SUBSET Node /\ lapsed' \in SUBSET Node /\ faults' \in 0..MaxFaults
  BY <1>0 DEF LaunchTypeOK
<1> QED
  BY <1>1, <1>2, <1>3, <1>4, <1>5, TaskStep

\* What a head has running fits.
LEMMA RunningFacts ==
  ASSUME LaunchInv, NEW h \in HeadNode, running[h] # None
  PROVE  /\ running[h] \in Cluster /\ ClusterFits(running[h])
         /\ running[h].epoch \in Epoch /\ running[h].started \in SUBSET Nat
         /\ issued[running[h].epoch] # None
         /\ running[h].started \subseteq Everyone(running[h].epoch)
  BY DEF LaunchInv, LaunchTypeOK, RecordsFit, ClusterFits, Cluster

LEMMA EndCommitStep ==
  ASSUME LaunchInv, NEW t \in Task, EndCommit(t)
  PROVE  LaunchInv'
<1>0. PICK k \in Ceremony : k = task[t]
  BY TaskFacts DEF EndCommit, StageOver, At
<1>1. /\ task[t] # None /\ k.stage = "settle" /\ k.call = None /\ Fits(k, Home[t])
      /\ UNCHANGED <<rankVars, pending, issued, doubtful, lapsed, faults>>
  BY <1>0, TaskFacts DEF EndCommit, StageOver, At
<1>2. CASE k.bad = {}
  <2> DEFINE r == [epoch |-> k.epoch, started |-> k.good]
  <2>1. running' = [running EXCEPT ![Home[t]] = r] /\ task' = [task EXCEPT ![t] = None]
    BY <1>0, <1>2 DEF EndCommit, Return, Mine
  <2>2. r \in Cluster /\ ClusterFits(r)
    BY <1>1 DEF Cluster, Ceremony, ClusterFits, Fits
  <2> HIDE DEF r
  <2> QED
    BY <1>1, <2>1, <2>2, TaskStepAlone
<1>3. CASE k.bad # {}
  <2> DEFINE j == [k EXCEPT !.stage = "unstart", !.todo = k.good]
  <2>1. running' = running /\ task' = [task EXCEPT ![t] = j]
    BY <1>0, <1>3 DEF EndCommit
  <2>2. /\ j \in Ceremony /\ j.call = None /\ j.op = k.op
        /\ j.epoch = k.epoch /\ j.stage = "unstart" /\ j.todo = k.good
        /\ j.good = k.good /\ j.bad = k.bad
    BY <1>1 DEF Ceremony
  <2> HIDE DEF j
  <2>3. Fits(j, Home[t])
    BY <1>1, <2>2 DEF Fits
  <2> QED
    BY <1>0, <1>1, <2>1, <2>2, <2>3, TaskStepAlone
<1> QED
  BY <1>2, <1>3

LEMMA EndHaltStep ==
  ASSUME LaunchInv, NEW t \in Task, EndHalt(t)
  PROVE  LaunchInv'
<1>0. PICK k \in Ceremony : k = task[t]
  BY TaskFacts DEF EndHalt, StageOver, At
<1>1. /\ task[t] # None /\ k.stage = "halt" /\ k.todo = {} /\ k.call = None
      /\ Fits(k, Home[t])
      /\ UNCHANGED <<rankVars, pending, issued, doubtful, lapsed, faults>>
  BY <1>0, TaskFacts DEF EndHalt, StageOver, At
<1>2. PICK r \in Cluster \cup {None} :
        r = IF k.bad = {} THEN None ELSE [epoch |-> k.epoch, started |-> k.bad]
  BY DEF Cluster, Ceremony
<1>3. r # None => ClusterFits(r)
  BY <1>1, <1>2 DEF ClusterFits, Fits
<1>4. running' = [running EXCEPT ![Home[t]] = r]
  BY <1>0, <1>2 DEF EndHalt, Mine
<1>5. CASE k.op = "stop"
  <2>1. task' = [task EXCEPT ![t] = None]
    BY <1>0, <1>5 DEF EndHalt
  <2> QED
    BY <1>1, <1>3, <1>4, <2>1, TaskStepAlone
<1>6. CASE k.op # "stop"
  <2> DEFINE j == [k EXCEPT !.stage = "clear"]
  <2>1. task' = [task EXCEPT ![t] = j]
    BY <1>0, <1>6 DEF EndHalt
  <2>2. /\ j \in Ceremony /\ j.call = None /\ j.op = k.op
        /\ j.epoch = k.epoch /\ j.stage = "clear" /\ j.todo = {}
        /\ j.good = k.good /\ j.bad = k.bad
    BY <1>1 DEF Ceremony
  <2> HIDE DEF j
  <2>3. Fits(j, Home[t])
    BY <1>1, <1>6, <2>2 DEF Fits, Taking
  <2> QED
    BY <1>0, <1>1, <1>3, <1>4, <2>1, <2>2, <2>3, TaskStepAlone
<1> QED
  BY <1>5, <1>6

LEMMA RereadStep ==
  ASSUME LaunchInv, NEW t \in Task, Reread(t)
  PROVE  LaunchInv'
<1>0. PICK k \in Ceremony : k = task[t]
  BY TaskFacts DEF Reread, At
<1>1. /\ task[t] # None /\ k.stage = "reread" /\ k.todo = {} /\ k.call = None
      /\ k.op = "supervise" /\ Fits(k, Home[t]) /\ Home[t] \in HeadNode
      /\ UNCHANGED <<rankVars, pending, issued, doubtful, lapsed, faults>>
      /\ running' = running
  BY <1>0, TaskFacts DEF Reread, At, Fits
<1>2. CASE running[Home[t]] = None
  <2> DEFINE j == [k EXCEPT !.stage = "clear"]
  <2>1. task' = [task EXCEPT ![t] = j]
    BY <1>0, <1>2 DEF Reread, Mine
  <2>2. /\ j \in Ceremony /\ j.call = None /\ j.op = k.op
        /\ j.epoch = k.epoch /\ j.stage = "clear" /\ j.todo = {}
        /\ j.good = k.good /\ j.bad = k.bad
    BY <1>1 DEF Ceremony
  <2> HIDE DEF j
  <2>3. Fits(j, Home[t])
    BY <1>1, <2>2 DEF Fits, Taking
  <2>4. PICK r \in Cluster \cup {None} : r = None
    OBVIOUS
  <2> QED
    BY <1>0, <1>1, <2>1, <2>2, <2>3, <2>4, TaskStepAlone
<1>3. CASE running[Home[t]] # None
  <2>1. PICK r \in Cluster : r = running[Home[t]]
    BY <1>1, <1>3, RunningFacts
  <2>2. ClusterFits(r)
    BY <1>1, <1>3, <2>1, RunningFacts
  <2> DEFINE j == [k EXCEPT !.stage = "halt", !.bad = {}, !.epoch = r.epoch, !.todo = r.started]
  <2>3. task' = [task EXCEPT ![t] = j]
    BY <1>0, <1>3, <2>1 DEF Reread, Mine
  <2>4. /\ j \in Ceremony /\ j.call = None /\ j.op = k.op
        /\ j.epoch = r.epoch /\ j.stage = "halt" /\ j.todo = r.started
        /\ j.good = k.good /\ j.bad = {}
    BY <1>1 DEF Ceremony, Cluster
  <2> HIDE DEF j
  <2>5. Fits(j, Home[t])
    BY <1>1, <2>2, <2>4 DEF Fits, Taking, ClusterFits
  <2>6. j.op \notin Taking
    BY <1>1, <2>4 DEF Taking
  <2> QED
    BY <1>0, <1>1, <2>2, <2>3, <2>4, <2>5, <2>6, TaskStepAlone
<1> QED
  BY <1>2, <1>3

LEMMA ClearRecordStep ==
  ASSUME LaunchInv, NEW t \in Task, ClearRecord(t)
  PROVE  LaunchInv'
<1>1. /\ task[t] # None /\ task' = [task EXCEPT ![t] = None]
      /\ UNCHANGED <<rankVars, pending, issued, doubtful, lapsed, faults>>
  BY DEF ClearRecord, At, Return
<1>2. PICK r \in Cluster \cup {None} : r = None
  OBVIOUS
<1>3. running' = [running EXCEPT ![Home[t]] = r]
  BY <1>2 DEF ClearRecord, Mine
<1> QED
  BY <1>1, <1>2, <1>3, TaskStepAlone

LEMMA EndPrepareStep ==
  ASSUME LaunchInv, NEW t \in Task, EndPrepare(t)
  PROVE  LaunchInv'
<1>0. PICK k \in Ceremony : k = task[t]
  BY TaskFacts DEF EndPrepare, StageOver, At
<1>1. /\ task[t] # None /\ k.stage = "ask" /\ k.op = "prepare" /\ k.call = None
      /\ Fits(k, Home[t]) /\ k.epoch \in Epoch /\ Home[t] \in HeadNode
      /\ UNCHANGED <<rankVars, running, issued, doubtful, lapsed, faults>>
  BY <1>0, TaskFacts DEF EndPrepare, StageOver, At, Fits
<1>2. LaunchTypeOK
  BY DEF LaunchInv
<1>3. CASE k.good = Everyone(k.epoch)
  <2>1. /\ pending' = [pending EXCEPT ![Home[t]] = k.epoch]
        /\ task' = [task EXCEPT ![t] = None]
    BY <1>0, <1>3 DEF EndPrepare, Return, Mine
  <2>2. k.epoch \in Unanimous /\ issued[k.epoch].head = Home[t]
    BY <1>1, <1>3 DEF Fits, Unanimous, Taking
  <2>3. /\ task'[t] = None /\ \A u \in Task : u # t => task'[u] = task[u]
        /\ pending'[Home[t]] = k.epoch
        /\ \A h \in HeadNode : h # Home[t] => pending'[h] = pending[h]
    BY <1>1, <1>2, <2>1 DEF LaunchTypeOK
  <2>4. DriverTypeOK'
    BY <1>1, <1>2, <2>1 DEF DriverTypeOK, LaunchTypeOK
  <2>5. calls' = calls /\ \A u \in Task : u # t => LeftAlone(u)
    <3>1. calls' = calls
      BY <1>1 DEF rankVars
    <3>2. \A u \in Task : task[u] # None /\ task[u].call # None => calls[task[u].call] # None
      BY TaskFacts DEF CallFits
    <3> QED
      BY <2>3, <3>1, <3>2 DEF LeftAlone
  <2>6. NoSharedCall'
    BY <2>3, NoSharedCallStands DEF LaunchInv
  <2>7. InOneHand'
    <3>1. \A u \in Task : u # t /\ task[u] # None /\ task[u].op \in Taking
                            => task[u].epoch # k.epoch
      BY <1>0, <1>1 DEF LaunchInv, InOneHand, Taking
    <3> QED
      BY <2>3, <3>1 DEF LaunchInv, InOneHand
  <2>8. \A h \in HeadNode : pending'[h] # None =>
           \/ pending'[h] = pending[h]
           \/ issued[pending'[h]].head = h /\ pending'[h] \in Unanimous
    BY <2>2, <2>3
  <2>9. [RankNext]_rankVars /\ running' = running /\ issued' = issued
    BY <1>1
  <2> QED
    BY <2>3, <2>4, <2>5, <2>6, <2>7, <2>8, <2>9, LaunchInvStands
<1>4. CASE k.good # Everyone(k.epoch)
  <2> DEFINE j0 == [k EXCEPT !.stage = "release", !.todo = k.good]
  <2>1. pending' = pending /\ task' = [task EXCEPT ![t] = Onward(j0)]
    BY <1>0, <1>4 DEF EndPrepare
  <2>2. /\ j0 \in Ceremony /\ j0.call = None /\ j0.op = k.op
        /\ j0.epoch = k.epoch /\ j0.stage = "release" /\ j0.todo = k.good
        /\ j0.good = k.good /\ j0.bad = k.bad
    BY <1>1 DEF Ceremony
  <2> HIDE DEF j0
  <2>3. Fits(j0, Home[t])
    BY <1>1, <2>2 DEF Fits, Taking
  <2>4. PICK j : j = Onward(j0)
    OBVIOUS
  <2>5. \/ j = None
        \/ /\ j \in Ceremony /\ j.call = None /\ j.op = k.op
           /\ j.epoch = k.epoch /\ Fits(j, Home[t])
    BY <1>2, <2>2, <2>3, <2>4, OnwardFits DEF Continues, LaunchTypeOK
  <2>6. PICK r \in Cluster \cup {None} : r = None
    OBVIOUS
  <2> QED
    BY <1>0, <1>1, <2>1, <2>4, <2>5, <2>6, TaskStepAlone
<1> QED
  BY <1>3, <1>4

-----------------------------------------------------------------------------
(* Ceremonies begin *)

LEMMA BeginStep ==
  ASSUME LaunchInv, NEW t \in Task, task[t] = None,
         NEW k \in Ceremony, task' = [task EXCEPT ![t] = k], k.call = None,
         UNCHANGED <<rankVars, running, doubtful, lapsed, faults>>,
         issued' \in [Epoch -> Attempt \cup {None}],
         \A e \in Epoch : issued[e] # None => issued'[e] = issued[e],
         pending' \in [HeadNode -> Epoch \cup {None}],
         \A h \in HeadNode : pending'[h] \in {pending[h], None},
         Fits(k, Home[t])',
         k.op \in Taking =>
           /\ \A h \in HeadNode : pending'[h] # k.epoch
           /\ \A u \in Task : task[u] # None /\ task[u].op \in Taking
                                => task[u].epoch # k.epoch
  PROVE  LaunchInv'
<1>0. LaunchTypeOK
  BY DEF LaunchInv
<1>1. task'[t] = k /\ \A u \in Task : u # t => task'[u] = task[u]
  BY <1>0 DEF LaunchTypeOK
<1>2. DriverTypeOK'
  BY <1>0 DEF DriverTypeOK, LaunchTypeOK
<1>3. calls' = calls /\ \A u \in Task : u # t => LeftAlone(u)
  <2>1. calls' = calls
    BY DEF rankVars
  <2>2. \A u \in Task : task[u] # None /\ task[u].call # None => calls[task[u].call] # None
    BY TaskFacts DEF CallFits
  <2> QED
    BY <1>1, <2>1, <2>2 DEF LeftAlone
<1>4. Fits(task[t], Home[t])' /\ CallFits(task[t])'
  BY <1>1 DEF Fits, CallFits
<1>5. NoSharedCall'
  BY <1>1, NoSharedCallStands DEF LaunchInv
<1>6. InOneHand'
  <2>1. \A u \in Task : task'[u] # None /\ task'[u].op \in Taking =>
           \A h \in HeadNode : pending'[h] # task'[u].epoch
    <3>1. \A u \in Task : task[u] # None => task[u].epoch # None
      BY NoneIsFresh, TaskFacts
    <3> QED
      BY <1>1, <3>1 DEF LaunchInv, InOneHand
  <2>2. \A u, v \in Task :
           /\ task'[u] # None /\ task'[u].op \in Taking
           /\ v # u /\ task'[v] # None /\ task'[v].op \in Taking
           => task'[v].epoch # task'[u].epoch
    BY <1>1 DEF LaunchInv, InOneHand
  <2> QED
    BY <2>1, <2>2 DEF InOneHand
<1>7. /\ \A h \in HeadNode : pending'[h] # None => pending'[h] = pending[h]
      /\ running' = running
  OBVIOUS
<1>8. [RankNext]_rankVars
  OBVIOUS
<1>9. \A u \in Task : \/ LeftAlone(u)
                      \/ task'[u] # None => Fits(task[u], Home[u])' /\ CallFits(task[u])'
  BY <1>3, <1>4
<1> QED
  BY <1>2, <1>3, <1>5, <1>6, <1>7, <1>8, <1>9, LaunchInvStands

NewCeremony(op, stage, e, todo) ==
  [op |-> op, stage |-> stage, epoch |-> e, todo |-> todo,
   good |-> {}, bad |-> {}, call |-> None]

LEMMA BeginTyped ==
  ASSUME NEW op \in {"prepare", "commit", "abort", "stop", "supervise"},
         NEW stage \in {"ask", "start", "release", "halt", "watch"},
         NEW e \in Epoch, NEW todo \in SUBSET Nat
  PROVE  NewCeremony(op, stage, e, todo) \in Ceremony
  BY DEF NewCeremony, Ceremony

LEMMA BeginPrepareStep ==
  ASSUME LaunchInv, NEW t \in Task, BeginPrepare(t)
  PROVE  LaunchInv'
<1>0. LaunchTypeOK /\ Home[t] \in HeadNode
  BY LaunchAssumption DEF LaunchInv
<1>1. PICK e \in Epoch, recipe \in Recipe, ranks \in Roster :
        /\ issued[e] = None
        /\ issued' = [issued EXCEPT ![e] =
                        [head |-> Home[t], recipe |-> recipe, ranks |-> ranks]]
        /\ Begin(t, "prepare", "ask", e, 1..Len(ranks))
  BY DEF BeginPrepare, Mine
<1> DEFINE x == [head |-> Home[t], recipe |-> recipe, ranks |-> ranks]
<1>2. x \in Attempt /\ x # None /\ x.head = Home[t] /\ x.ranks = ranks
  BY <1>0, LaunchNoneIsFresh DEF Attempt
<1> HIDE DEF x
<1>3. /\ issued' \in [Epoch -> Attempt \cup {None}]
      /\ issued'[e] = x
      /\ \A d \in Epoch : d # e => issued'[d] = issued[d]
  BY <1>0, <1>1, <1>2 DEF LaunchTypeOK, x
<1>4. 1..Len(ranks) \in SUBSET Nat
  <2>1. ranks \in Seq(Node)
    BY LaunchAssumption
  <2> QED
    BY <2>1
<1>5. PICK k \in Ceremony :
           /\ task[t] = None /\ task' = [task EXCEPT ![t] = k] /\ k.call = None
           /\ k.op = "prepare" /\ k.stage = "ask" /\ k.epoch = e /\ k.todo = 1..Len(ranks)
           /\ k.good = {} /\ k.bad = {}
  <2>1. PICK k \in Ceremony : k = NewCeremony("prepare", "ask", e, 1..Len(ranks))
    BY <1>4, BeginTyped
  <2>2. task[t] = None /\ task' = [task EXCEPT ![t] = k]
    BY <1>1, <2>1 DEF Begin, NewCeremony
  <2>3. /\ k.call = None /\ k.op = "prepare" /\ k.stage = "ask" /\ k.epoch = e
        /\ k.todo = 1..Len(ranks) /\ k.good = {} /\ k.bad = {}
    BY <2>1 DEF NewCeremony
  <2> QED
    BY <2>2, <2>3
<1>6. Everyone(e)' = 1..Len(ranks)
  BY <1>2, <1>3 DEF Everyone, Ranks
<1>7. Fits(k, Home[t])'
  BY <1>2, <1>3, <1>5, <1>6 DEF Fits
<1>8. UNCHANGED <<rankVars, pending, running, doubtful, lapsed, faults>>
  BY DEF BeginPrepare
<1>9. \A h \in HeadNode : pending[h] # e
  <2>1. e # None /\ e \notin Unanimous
    BY <1>1, NoneIsFresh DEF Unanimous
  <2> QED
    BY <2>1 DEF LaunchInv, RecordsFit
<1>10. \A u \in Task : task[u] # None => task[u].epoch # e
  BY <1>1, TaskFacts
<1>11. pending' \in [HeadNode -> Epoch \cup {None}]
  BY <1>0, <1>8 DEF LaunchTypeOK
<1>12. \A d \in Epoch : issued[d] # None => issued'[d] = issued[d]
  BY <1>1, <1>3
<1> QED
  BY <1>3, <1>5, <1>7, <1>8, <1>9, <1>10, <1>11, <1>12, BeginStep

LEMMA BeginOutcomeStep ==
  ASSUME LaunchInv, NEW t \in Task, BeginCommit(t) \/ BeginAbort(t)
  PROVE  LaunchInv'
<1>0. LaunchTypeOK /\ Home[t] \in HeadNode
  BY LaunchAssumption DEF LaunchInv
<1>1. PICK op \in {"commit", "abort"}, stage \in {"start", "release"}, e \in Epoch :
        /\ TakePending(t, e) /\ Begin(t, op, stage, e, Everyone(e))
        /\ stage = "start" => op = "commit"
        /\ stage = "release" => op = "abort"
  BY DEF BeginCommit, BeginAbort
<1>2. pending[Home[t]] = e /\ pending' = [pending EXCEPT ![Home[t]] = None]
  BY <1>1 DEF TakePending, Mine
<1>3. UNCHANGED <<rankVars, running, issued, doubtful, lapsed, faults>>
  BY DEF BeginCommit, BeginAbort
<1>4. e # None /\ issued[e].head = Home[t] /\ e \in Unanimous /\ issued[e] # None
  BY <1>0, <1>2, NoneIsFresh DEF LaunchInv, RecordsFit, Unanimous
<1>5. Everyone(e) \in SUBSET Nat
  BY <1>0, <1>4, LaunchesAreLaidOut DEF LaunchTypeOK
<1>6. PICK k \in Ceremony :
           /\ task[t] = None /\ task' = [task EXCEPT ![t] = k] /\ k.call = None
           /\ k.op = op /\ k.stage = stage /\ k.epoch = e /\ k.todo = Everyone(e)
           /\ k.good = {} /\ k.bad = {}
  <2>1. PICK k \in Ceremony : k = NewCeremony(op, stage, e, Everyone(e))
    BY <1>5, BeginTyped
  <2>2. task[t] = None /\ task' = [task EXCEPT ![t] = k]
    BY <1>1, <2>1 DEF Begin, NewCeremony
  <2>3. /\ k.call = None /\ k.op = op /\ k.stage = stage /\ k.epoch = e
        /\ k.todo = Everyone(e) /\ k.good = {} /\ k.bad = {}
    BY <2>1 DEF NewCeremony
  <2> QED
    BY <2>2, <2>3
<1>7. Fits(k, Home[t])
  BY <1>1, <1>4, <1>6 DEF Fits, Taking
<1>8. Grows
  BY <1>0, <1>3, GrantsStandUnchanged DEF Grows, LaunchTypeOK, rankVars
<1>9. Fits(k, Home[t])'
  BY <1>0, <1>7, <1>8, FitsStands
<1>10. /\ pending' \in [HeadNode -> Epoch \cup {None}]
       /\ \A h \in HeadNode : pending'[h] = IF h = Home[t] THEN None ELSE pending[h]
  BY <1>0, <1>2 DEF LaunchTypeOK
<1>11. \A h \in HeadNode : h # Home[t] => pending[h] # e
  BY <1>4 DEF LaunchInv, RecordsFit
<1>12. \A h \in HeadNode : pending'[h] # e /\ pending'[h] \in {pending[h], None}
  BY <1>4, <1>10, <1>11
<1>13. \A u \in Task : task[u] # None /\ task[u].op \in Taking => task[u].epoch # e
  BY <1>0, <1>2 DEF LaunchInv, InOneHand
<1>14. /\ issued' \in [Epoch -> Attempt \cup {None}]
       /\ \A d \in Epoch : issued[d] # None => issued'[d] = issued[d]
  BY <1>0, <1>3 DEF LaunchTypeOK
<1> QED
  BY <1>3, <1>6, <1>9, <1>10, <1>12, <1>13, <1>14, BeginStep

LEMMA BeginWithRunningStep ==
  ASSUME LaunchInv, NEW t \in Task, BeginStop(t) \/ BeginSupervise(t)
  PROVE  LaunchInv'
<1>0. LaunchTypeOK /\ Home[t] \in HeadNode
  BY LaunchAssumption DEF LaunchInv
<1> DEFINE r == running[Home[t]]
<1>1. /\ r # None
      /\ UNCHANGED <<rankVars, pending, running, issued, doubtful, lapsed, faults>>
  BY DEF BeginStop, BeginSupervise, Mine
<1>2. PICK op \in {"stop", "supervise"}, stage \in {"halt", "watch"} :
        /\ Begin(t, op, stage, r.epoch, r.started)
        /\ stage = "halt" => op = "stop"
        /\ stage = "watch" => op = "supervise"
  BY DEF BeginStop, BeginSupervise, Mine
<1>3. /\ r.epoch \in Epoch /\ r.started \in SUBSET Nat
      /\ issued[r.epoch] # None /\ r.started \subseteq Everyone(r.epoch)
  BY <1>0, <1>1, RunningFacts
<1> HIDE DEF r
<1>6. PICK k \in Ceremony :
           /\ task[t] = None /\ task' = [task EXCEPT ![t] = k] /\ k.call = None
           /\ k.op = op /\ k.stage = stage /\ k.epoch = r.epoch /\ k.todo = r.started
           /\ k.good = {} /\ k.bad = {}
  <2>1. PICK k \in Ceremony : k = NewCeremony(op, stage, r.epoch, r.started)
    BY <1>3, BeginTyped
  <2>2. task[t] = None /\ task' = [task EXCEPT ![t] = k]
    BY <1>2, <2>1 DEF Begin, NewCeremony
  <2>3. /\ k.call = None /\ k.op = op /\ k.stage = stage /\ k.epoch = r.epoch
        /\ k.todo = r.started /\ k.good = {} /\ k.bad = {}
    BY <2>1 DEF NewCeremony
  <2> QED
    BY <2>2, <2>3
<1>7. Fits(k, Home[t])
  BY <1>2, <1>3, <1>6 DEF Fits, Taking
<1>8. Grows
  BY <1>0, <1>1, GrantsStandUnchanged DEF Grows, LaunchTypeOK, rankVars
<1>9. Fits(k, Home[t])'
  BY <1>0, <1>7, <1>8, FitsStands
<1>10. /\ pending' \in [HeadNode -> Epoch \cup {None}]
       /\ issued' \in [Epoch -> Attempt \cup {None}]
       /\ \A d \in Epoch : issued[d] # None => issued'[d] = issued[d]
       /\ \A h \in HeadNode : pending'[h] = pending[h]
  BY <1>0, <1>1 DEF LaunchTypeOK
<1>11. k.op \notin Taking
  BY <1>2, <1>6 DEF Taking
<1> QED
  BY <1>1, <1>6, <1>9, <1>10, <1>11, BeginStep

-----------------------------------------------------------------------------
(* The ranks at work, and what goes wrong with them *)

LEMMA RankStep ==
  ASSUME LaunchInv, [RankNext]_rankVars,
         UNCHANGED <<pending, running, task, issued>>,
         doubtful' \in SUBSET Node, lapsed' \in SUBSET Node, faults' \in 0..MaxFaults,
         \A t \in Task : task[t] # None /\ task[t].call # None => calls'[task[t].call] # None,
         \A c \in Call : calls'[c] # None => calls[c] # None
  PROVE  LaunchInv'
<1>0. LaunchTypeOK
  BY DEF LaunchInv
<1>1. DriverTypeOK'
  BY <1>0 DEF DriverTypeOK, LaunchTypeOK
<1>2. \A t \in Task : LeftAlone(t)
  BY DEF LeftAlone
<1>3. NoSharedCall' /\ InOneHand'
  BY DEF LaunchInv, NoSharedCall, InOneHand
<1> QED
  BY <1>1, <1>2, <1>3, LaunchInvStands

\* Serving a request takes none away and brings none.
LEMMA ServeStep ==
  ASSUME LaunchInv, NEW c \in Call, Serve(c)
  PROVE  /\ [RankNext]_rankVars
         /\ \A t \in Task : task[t] # None /\ task[t].call # None => calls'[task[t].call] # None
         /\ \A d \in Call : calls'[d] # None => calls[d] # None
<1>1. ServesTheRequest(c)
  BY ServeKeepsRequest DEF LaunchInv, GrantInv
<1>2. \A t \in Task : task[t] # None /\ task[t].call # None =>
         task[t].call \in Call /\ calls[task[t].call] # None
  BY TaskFacts DEF CallFits, Ceremony
<1> QED
  BY <1>1, <1>2 DEF RankNext, ServesTheRequest

LEMMA CallAtWorkStep ==
  ASSUME LaunchInv, NEW c \in Call, Works(c) \/ Fails(c) \/ StopRefused(c)
  PROVE  LaunchInv'
<1>0. LaunchTypeOK
  BY DEF LaunchInv
<1>1. UNCHANGED <<pending, running, task, issued>>
  BY DEF Works, Fails, StopRefused, driverVars
<1>2. faults' \in 0..MaxFaults
  BY <1>0, FaultTyped DEF Works, Fails, StopRefused, driverVars, LaunchTypeOK
<1>3. lapsed' \in SUBSET Node
  BY <1>0 DEF Works, Fails, StopRefused, driverVars, LaunchTypeOK
<1>4. doubtful' \in SUBSET Node
  <2>1. CASE StopRefused(c)
    <3>1. calls[c].node \in Node
      BY <1>0, <2>1 DEF StopRefused, StopFails, InStage, LaunchTypeOK, TypeOK, CallRecord
    <3> QED
      BY <1>0, <2>1, <3>1 DEF StopRefused, LaunchTypeOK
  <2>2. CASE Works(c) \/ Fails(c)
    BY <1>0, <2>2 DEF Works, Fails, driverVars, LaunchTypeOK
  <2> QED
    BY <2>1, <2>2
<1>5. CASE Serve(c)
  BY <1>1, <1>2, <1>3, <1>4, <1>5, ServeStep, RankStep
<1>6. CASE Collect(c) /\ \A t \in Task : task[t] # None => task[t].call # c
  <2>1. [RankNext]_rankVars
    BY <1>6 DEF RankNext
  <2>2. calls'[c] = None /\ \A d \in Call : d # c => calls'[d] = calls[d]
    BY <1>0, <1>6 DEF Collect, LaunchTypeOK, TypeOK
  <2>3. \A t \in Task : task[t] # None /\ task[t].call # None =>
         task[t].call \in Call /\ calls[task[t].call] # None
    BY TaskFacts DEF CallFits, Ceremony
  <2>4. /\ \A t \in Task : task[t] # None /\ task[t].call # None => calls'[task[t].call] # None
        /\ \A d \in Call : calls'[d] # None => calls[d] # None
    BY <1>6, <2>2, <2>3
  <2> QED
    BY <1>1, <1>2, <1>3, <1>4, <2>1, <2>4, RankStep
<1>7. Serve(c) \/ (Collect(c) /\ \A t \in Task : task[t] # None => task[t].call # c)
  BY DEF Works, Fails, StopRefused, Serve
<1> QED
  BY <1>5, <1>6, <1>7

LEMMA MachineStep ==
  ASSUME LaunchInv,
         \/ \E n \in Node : ReservationExpires(n)
         \/ \E n \in Node, m \in Name : RankDies(n, m)
  PROVE  LaunchInv'
<1>0. LaunchTypeOK
  BY DEF LaunchInv
<1>1. UNCHANGED <<pending, running, task, issued, calls>> /\ doubtful' = doubtful
  BY DEF ReservationExpires, RankDies, Expire, Dies
<1>2. faults' \in 0..MaxFaults
  BY <1>0, FaultTyped DEF ReservationExpires, RankDies
<1>3. lapsed' \in SUBSET Node /\ doubtful' \in SUBSET Node
  BY <1>0, <1>1 DEF ReservationExpires, RankDies, LaunchTypeOK
<1>4. [RankNext]_rankVars
  BY DEF ReservationExpires, RankDies, RankNext
<1>5. \A t \in Task : task[t] # None /\ task[t].call # None => calls[task[t].call] # None
  BY TaskFacts DEF CallFits
<1> QED
  BY <1>1, <1>2, <1>3, <1>4, <1>5, RankStep

LEMMA RestartStep ==
  ASSUME LaunchInv, NEW n \in Node, AgentRestarts(n)
  PROVE  LaunchInv'
<1>0. LaunchTypeOK /\ NoSharedCall /\ InOneHand /\ None \notin Epoch
  BY NoneIsFresh DEF LaunchInv
<1>1. Restart(n) /\ issued' = issued
  BY DEF AgentRestarts
<1>2. [RankNext]_rankVars
  BY <1>1 DEF RankNext
<1>3. /\ \A h \in HeadNode : pending'[h] \in {pending[h], None}
      /\ \A h \in HeadNode : running'[h] \in {running[h], None}
      /\ \A t \in Task : task'[t] \in {task[t], None}
      /\ pending' \in [HeadNode -> Epoch \cup {None}]
      /\ running' \in [HeadNode -> Cluster \cup {None}]
      /\ task' \in [Task -> Ceremony \cup {None}]
  BY <1>0 DEF AgentRestarts, LaunchTypeOK
<1>4. faults' \in 0..MaxFaults
  BY <1>0, FaultTyped DEF AgentRestarts
<1>5. lapsed' \in SUBSET Node /\ doubtful' \in SUBSET Node
  BY <1>0 DEF AgentRestarts, LaunchTypeOK
<1>6. DriverTypeOK'
  BY <1>0, <1>1, <1>3, <1>4, <1>5 DEF DriverTypeOK, LaunchTypeOK
<1>7. \A c \in Call : (calls'[c] # None) = (calls[c] # None)
  <2>1. ASSUME NEW c \in Call, calls[c] # None PROVE calls'[c] # None
    <3>1. calls[c] \in CallRecord
      BY <1>0, <2>1 DEF LaunchTypeOK, TypeOK
    <3>2. [calls[c] EXCEPT !.at = "done", !.reply = "lost"] \in CallRecord
      BY <3>1 DEF CallRecord, Stage
    <3> QED
      BY <1>1, <2>1, <3>2, NoneIsFresh DEF Restart
  <2>2. \A c \in Call : calls[c] = None => calls'[c] = None
    BY <1>1 DEF Restart
  <2> QED
    BY <2>1, <2>2
<1>8. ASSUME NEW t \in Task
      PROVE  LeftAlone(t) \/ task'[t] = None
  <2>1. task[t] # None /\ task[t].call # None =>
         task[t].call \in Call /\ calls[task[t].call] # None
    BY TaskFacts DEF CallFits, Ceremony
  <2> QED
    BY <1>3, <1>7, <2>1 DEF LeftAlone
<1>9. GrantInv' /\ LaunchTypeOK'
  BY <1>2, <1>6, GrantInvStep DEF LaunchInv, LaunchTypeOK, DriverTypeOK, GrantInv, WellTyped
<1>10. NoSharedCall'
  BY <1>0, <1>3, NoSharedCallStands
<1>11. InOneHand'
  <2>1. \A t \in Task : Moves(t)
    BY <1>3 DEF Moves
  <2> QED
    BY <1>0, <1>3, <1>9, <2>1, InOneHandStands
<1>12. /\ \A h \in HeadNode : pending'[h] # None => pending'[h] = pending[h]
       /\ \A h \in HeadNode : running'[h] # None => running'[h] = running[h]
  BY <1>3
<1>13. \A t \in Task : \/ LeftAlone(t)
                       \/ task'[t] # None => Fits(task[t], Home[t])' /\ CallFits(task[t])'
  BY <1>8
<1> QED
  BY <1>1, <1>2, <1>6, <1>7, <1>10, <1>11, <1>12, <1>13, LaunchInvStands

LEMMA LaunchInvInit == LaunchInit => LaunchInv
<1> SUFFICES ASSUME LaunchInit PROVE LaunchInv
  OBVIOUS
<1>1. GrantInv
  BY InitGrantInv DEF LaunchInit
<1>2. LaunchTypeOK
  BY <1>1, LaunchAssumption DEF LaunchInit, LaunchTypeOK, GrantInv, WellTyped
<1>3. CeremoniesFit /\ NoSharedCall /\ InOneHand /\ RecordsFit
  BY DEF LaunchInit, CeremoniesFit, NoSharedCall, InOneHand, RecordsFit
<1>4. RequestsFit /\ ContainersFit
  BY DEF LaunchInit, RankInit, RequestsFit, ContainersFit
<1> QED
  BY <1>1, <1>2, <1>3, <1>4 DEF LaunchInv

LEMMA LaunchInvStep == LaunchInv /\ [LaunchNext]_vars => LaunchInv'
<1> SUFFICES ASSUME LaunchInv, [LaunchNext]_vars PROVE LaunchInv'
  OBVIOUS
<1>1. ASSUME NEW t \in Task, Operate(t) \/ BeginSupervise(t)
      PROVE  LaunchInv'
  BY <1>1, BeginPrepareStep, BeginOutcomeStep, BeginWithRunningStep DEF Operate
<1>2. ASSUME NEW t \in Task, Drive(t)
      PROVE  LaunchInv'
  BY <1>2, AskStep, AnswerStep, EndPrepareStep, EndCommitStep, EndHaltStep, RereadStep,
     ClearRecordStep DEF Drive
<1>3. ASSUME NEW t \in Task, Unreachable(t) \/ GiveUp(t)
      PROVE  LaunchInv'
  BY <1>3, NoAnswerStep
<1>4. ASSUME NEW c \in Call, Works(c) \/ Fails(c) \/ StopRefused(c)
      PROVE  LaunchInv'
  BY <1>4, CallAtWorkStep
<1>5. ASSUME NEW n \in Node, AgentRestarts(n)
      PROVE  LaunchInv'
  BY <1>5, RestartStep
<1>6. CASE UNCHANGED vars
  <2>1. UNCHANGED <<rankVars, calls, pending, running, task, issued, doubtful, lapsed, faults>>
    BY <1>6 DEF vars, driverVars, rankVars
  <2>2. doubtful' \in SUBSET Node /\ lapsed' \in SUBSET Node /\ faults' \in 0..MaxFaults
    BY <2>1 DEF LaunchInv, LaunchTypeOK
  <2>3. \A t \in Task : task[t] # None /\ task[t].call # None => calls[task[t].call] # None
    BY TaskFacts DEF CallFits
  <2> QED
    BY <2>1, <2>2, <2>3, RankStep
<1>7. CASE AtRest
  BY <1>6, <1>7 DEF AtRest
<1> QED
  BY <1>1, <1>2, <1>3, <1>4, <1>5, <1>6, <1>7, MachineStep DEF LaunchNext

LEMMA LaunchInvHolds == LaunchSpec => []LaunchInv
  BY LaunchInvInit, LaunchInvStep, PTL DEF LaunchSpec

-----------------------------------------------------------------------------
(* What follows *)

\* Every variable of the heads and the ranks keeps its type.
THEOREM LaunchTypes == LaunchSpec => []LaunchTypeOK
<1>1. LaunchInv => LaunchTypeOK
  BY DEF LaunchInv
<1> QED
  BY <1>1, LaunchInvHolds, PTL

\* Nothing starts until every machine of the launch has agreed, whatever is
\* refused, lost, given up on or restarted, and however many tabs drive.
\* (clusterdriver.rs: "nothing starts until all of them have said yes".)
THEOREM AllAgreeFirst == LaunchSpec => []NothingStartsUntilAllAgreed
<1>1. LaunchInv => NothingStartsUntilAllAgreed
  <2> SUFFICES ASSUME LaunchInv, NEW n \in Node, NEW m \in Name, containers[n][m] # None,
                      NEW i \in Everyone(containers[n][m].epoch)
               PROVE  LET e == containers[n][m].epoch
                      IN  \E g \in 1..Len(granted[Ranks(e)[i]]) :
                            granted[Ranks(e)[i]][g] = [epoch |-> e, name |-> ContainerOf(e, i)]
    BY DEF NothingStartsUntilAllAgreed
  <2>1. PICK e \in Epoch : e = containers[n][m].epoch /\ e \in Unanimous
    BY DEF LaunchInv, ContainersFit, Unanimous
  <2>2. i \in Agreeing[e]
    BY <2>1 DEF Unanimous
  <2> QED
    BY <2>1, <2>2 DEF Agreeing
<1> QED
  BY <1>1, LaunchInvHolds, PTL

\* A prepare is used up by one ceremony, however many tabs name its epoch.
\* (commit_inner: "a commit consumes its prepare, so a replayed commit starts
\* nothing a second time".)
THEOREM PreparesAreTaken == LaunchSpec => []OneCeremonyTakesAPrepare
<1>1. LaunchInv => OneCeremonyTakesAPrepare
  BY DEF LaunchInv, InOneHand, OneCeremonyTakesAPrepare, Taking
<1> QED
  BY <1>1, LaunchInvHolds, PTL


\* The heads are callers a rank is open to: every step of the fleet is, for the
\* ranks, a step of RankService or none, so what is proved of a rank under any
\* caller holds of the ranks of every cluster.
THEOREM HeadsAreCallers == LaunchSpec => RankSpec
<1>1. LaunchInit => RankInit
  BY DEF LaunchInit
<1>2. LaunchInv /\ [LaunchNext]_vars => [RankNext]_rankVars
  <2> SUFFICES ASSUME LaunchInv, [LaunchNext]_vars PROVE [RankNext]_rankVars
    OBVIOUS
  <2>1. ASSUME NEW t \in Task, Operate(t) \/ BeginSupervise(t)
        PROVE  UNCHANGED rankVars
    BY <2>1 DEF Operate, BeginPrepare, BeginCommit, BeginAbort, BeginStop, BeginSupervise
  <2>2. ASSUME NEW t \in Task, Ask(t)
        PROVE  RankNext
    BY <2>2, AskArrives DEF RankNext
  <2>3. ASSUME NEW t \in Task, Answer(t)
        PROVE  RankNext
    <3>1. Collect(task[t].call) /\ task[t].call \in Call
      BY <2>3, TaskFacts DEF Answer, Waiting, Ceremony
    <3> QED
      BY <3>1 DEF RankNext
  <2>4. ASSUME NEW t \in Task,
               \/ EndPrepare(t) \/ EndCommit(t) \/ EndHalt(t) \/ Reread(t)
               \/ ClearRecord(t) \/ Unreachable(t) \/ GiveUp(t)
        PROVE  UNCHANGED rankVars
    BY <2>4 DEF EndPrepare, EndCommit, EndHalt, Reread, ClearRecord, Unreachable, GiveUp
  <2>5. ASSUME NEW c \in Call, Works(c) \/ Fails(c) \/ StopRefused(c)
        PROVE  RankNext
    <3>1. Serve(c) \/ Collect(c)
      BY <2>5 DEF Works, Fails, StopRefused, Serve
    <3> QED
      BY <3>1 DEF RankNext
  <2>6. ASSUME NEW n \in Node, ReservationExpires(n) \/ AgentRestarts(n)
        PROVE  RankNext
    BY <2>6 DEF ReservationExpires, AgentRestarts, RankNext
  <2>7. ASSUME NEW n \in Node, NEW m \in Name, RankDies(n, m)
        PROVE  RankNext
    BY <2>7 DEF RankDies, RankNext
  <2>8. AtRest \/ UNCHANGED vars => UNCHANGED rankVars
    BY DEF AtRest, vars
  <2> QED
    BY <2>1, <2>2, <2>3, <2>4, <2>5, <2>6, <2>7, <2>8 DEF LaunchNext, Drive
<1> QED
  BY <1>1, <1>2, LaunchInvHolds, PTL DEF LaunchSpec, RankSpec
=============================================================================
