------------------------- MODULE WholeClusterProofs -------------------------
(***************************************************************************)
(* A cluster is whole or absent, a stop that is reported is one, and what  *)
(* is pending can be committed, for any number of machines, tabs, recipes, *)
(* launches and faults, as long as the ceremonies of one head do not       *)
(* overlap: LaunchInTurn.                                                  *)
(***************************************************************************)
EXTENDS ClusterLaunchProofs

-----------------------------------------------------------------------------
(* The inductive invariant *)

\* Launch e is being prepared or aborted, or waits for either outcome.
Untried(e) ==
  \/ \E h \in HeadNode : pending[h] = e
  \/ \E t \in Task : /\ task[t] # None
                     /\ task[t].op \in {"prepare", "abort"}
                     /\ task[t].epoch = e

\* Launch e is starting and has not failed, or a head has it on record.
Live(e) ==
  \/ \E t \in Task : /\ task[t] # None
                     /\ task[t].stage \in {"start", "settle"}
                     /\ task[t].epoch = e
  \/ \E h \in HeadNode : running[h] # None /\ running[h].epoch = e

\* A rank its head need not know of.  While the launch is live that takes a
\* removal that docker refused.
Excused(e, i) ==
  /\ Ranks(e)[i] \in doubtful
  /\ Live(e) => "rm_fails" \in Faults

\* The stop of rank i that ceremony k of head h waits for has been answered, and
\* will be heard as done.
HeardStop(k, h, i) ==
  /\ k.call # None
  /\ i = Min(k.todo)
  /\ \/ calls[k.call].reply = "yes"
     \/ calls[k.call].reply = "no" /\ Ranks(k.epoch)[i] # h

\* Ceremony k of head h is going to stop rank i, or to put it on record.
Holds(k, h, i) ==
  \/ k.stage = "start" /\ i \in k.good
  \/ /\ k.stage = "start" /\ k.call # None
     /\ i = Min(k.todo) /\ calls[k.call].reply = "yes"
  \/ k.stage = "settle" /\ i \in k.good
  \/ k.stage \in {"unstart", "halt"} /\ i \in k.todo /\ ~HeardStop(k, h, i)
  \/ k.stage = "halt" /\ i \in k.bad

\* What is answered is done.
AnswersAreFinal ==
  \A c \in Call : calls[c] # None /\ calls[c].reply # "none" => calls[c].at = "done"

\* While a head has a cluster on record it launches none, and a stop or a tear
\* down is of the cluster on record.
StandsAlone(k, h) ==
  /\ issued[k.epoch].head = h
  /\ k.op \in Taking => running[h] = None
  /\ k.op = "commit" => pending[h] = None
  /\ k.stage \in {"watch", "reread", "halt"} =>
       running[h] # None /\ running[h].epoch = k.epoch
  /\ k.stage = "clear" /\ running[h] # None => running[h].epoch = k.epoch

RecordsStandAlone ==
  /\ \A h \in HeadNode : running[h] # None =>
       pending[h] = None /\ issued[running[h].epoch].head = h
  /\ \A t \in Task : task[t] # None => StandsAlone(task[t], Home[t])

\* Nothing is known at the ranks of a launch that was not tried.
UntriedIsClean ==
  /\ \A c \in Call : calls[c] # None /\ calls[c].op = "commit" => ~Untried(calls[c].epoch)
  /\ \A n \in Node, m \in Name : containers[n][m] # None => ~Untried(containers[n][m].epoch)

Undone(c) == calls[c] # None /\ calls[c].op = "commit" /\ calls[c].at # "done"

WaitedFor(c) == \E t \in Task : task[t] # None /\ task[t].stage = "start" /\ task[t].call = c

\* A commit at work is waited for, or its launch was given up with its machine
\* in doubt.
CommitsAttended ==
  \A c \in Call : Undone(c) =>
    WaitedFor(c) \/ (calls[c].node \in doubtful /\ ~Live(calls[c].epoch))

Accounted(e, i) ==
  \/ \E t \in Task : /\ task[t] # None /\ task[t].op = "commit" /\ task[t].epoch = e
                     /\ Holds(task[t], Home[t], i)
  \/ \E h \in HeadNode : /\ running[h] # None /\ running[h].epoch = e
                         /\ i \in running[h].started

\* A rank that is up is in the hands of the commit of its launch, or on record.
UpIsAccounted ==
  \A e \in Epoch : issued[e] # None =>
    \A i \in Everyone(e) : RankUp(e, i) /\ ~Excused(e, i) => Accounted(e, i)

\* A stop still has every rank on its hands that is up; what supervision could
\* not stop, and what it leaves behind, is in doubt.
StopAccounts(k, h) ==
  \A i \in Everyone(k.epoch) :
    /\ k.stage = "halt" /\ RankUp(k.epoch, i) /\ ~Excused(k.epoch, i) => Holds(k, h, i)
    /\ k.stage = "halt" /\ k.op = "supervise" /\ i \in k.bad => Ranks(k.epoch)[i] \in doubtful
    /\ k.stage = "clear" /\ RankUp(k.epoch, i) => Ranks(k.epoch)[i] \in doubtful

StopsAccount == \A t \in Task : task[t] # None => StopAccounts(task[t], Home[t])

WholeInv ==
  /\ AnswersAreFinal
  /\ RecordsStandAlone
  /\ UntriedIsClean
  /\ CommitsAttended
  /\ UpIsAccounted
  /\ StopsAccount

-----------------------------------------------------------------------------
(* What follows from the invariant in every state *)

\* The ceremony of a launch is at its head, which has one.
LEMMA OneCeremonyOfALaunch ==
  ASSUME LaunchInv, RecordsStandAlone, OneAtATime,
         NEW t \in Task, NEW u \in Task, task[t] # None, task[u] # None,
         task[t].epoch = task[u].epoch
  PROVE  t = u
  BY DEF RecordsStandAlone, StandsAlone, OneAtATime

\* What is being launched is not on record.
LEMMA LaunchingIsNotOnRecord ==
  ASSUME LaunchInv, RecordsStandAlone, NEW t \in Task, task[t] # None, task[t].op \in Taking,
         NEW h \in HeadNode, running[h] # None
  PROVE  running[h].epoch # task[t].epoch
<1>1. issued[task[t].epoch].head = Home[t] /\ running[Home[t]] = None
  BY DEF RecordsStandAlone, StandsAlone
<1> QED
  BY <1>1 DEF RecordsStandAlone

\* A launch that is on the way back, or not tried, is not live.
LEMMA FailedIsNotLive ==
  ASSUME LaunchInv, RecordsStandAlone, OneAtATime, NEW t \in Task, task[t] # None,
         task[t].op \in Taking, task[t].stage \notin {"start", "settle"}
  PROVE  ~Live(task[t].epoch)
  BY OneCeremonyOfALaunch, LaunchingIsNotOnRecord DEF Live

\* A rank that is up was started by a commit that was tried.
LEMMA UpWasTried ==
  ASSUME LaunchInv, UntriedIsClean, NEW e \in Epoch, issued[e] # None,
         NEW i \in Everyone(e), RankUp(e, i)
  PROVE  ~Untried(e)
<1>1. Ranks(e)[i] \in Node /\ ContainerOf(e, i) \in Name
  BY LaunchesAreLaidOut DEF LaunchInv, LaunchTypeOK
<1> QED
  BY <1>1 DEF UntriedIsClean, RankUp, IsUp

\* The request a ceremony waits for is at the machine of one of its ranks.
LEMMA AskedRank ==
  ASSUME LaunchInv, NEW t \in Task, task[t] # None, task[t].call # None,
         NEW i \in Everyone(task[t].epoch),
         calls[task[t].call].node = Ranks(task[t].epoch)[i]
  PROVE  i = Min(task[t].todo)
<1>1. task[t].todo # {}
  BY TaskFacts DEF Fits
<1>2. /\ calls[task[t].call].node = Ranks(task[t].epoch)[Min(task[t].todo)]
      /\ Min(task[t].todo) \in Everyone(task[t].epoch)
  BY <1>1, TaskFacts, AskedFacts DEF CallFits
<1>3. task[t].epoch \in Epoch /\ issued[task[t].epoch] # None
  BY TaskFacts
<1> QED
  BY <1>2, <1>3, LaunchesAreLaidOut DEF LaunchInv, LaunchTypeOK

-----------------------------------------------------------------------------
(* What a step of a rank does to answers and to containers *)

\* What is answered stays, and an answer is the last a handler does.
AnswersStand ==
  \A c \in Call : calls[c] # None /\ calls'[c] # None =>
    /\ calls[c].at = "done" => calls'[c] = calls[c]
    /\ calls'[c].reply # calls[c].reply => calls'[c].at = "done"

\* A container comes up when the commit of its launch answers that it did.
StartsAreAnswered ==
  \A n \in Node, m \in Name : containers'[n][m] # None =>
    \/ /\ containers[n][m] # None
       /\ containers'[n][m].epoch = containers[n][m].epoch
       /\ containers'[n][m].up => containers[n][m].up
    \/ \E c \in Call : /\ Undone(c) /\ calls[c].node = n
                       /\ calls[c].epoch = containers'[n][m].epoch
                       /\ calls'[c] # None /\ calls'[c].reply = "yes"

\* A stop that is answered yes has removed its container.
StopsRemove ==
  \A c \in Call :
    /\ calls[c] # None /\ calls[c].op = "stop" /\ calls[c].at # "done"
    /\ calls'[c] # None /\ calls'[c].reply = "yes"
    => containers'[calls[c].node][calls[c].name] = None

\* The stops that are answered no are among those docker refuses.
RefusalsAreOf(S) ==
  \A c \in Call :
    /\ calls[c] # None /\ calls[c].op = "stop" /\ calls[c].at # "done"
    /\ calls'[c] # None /\ calls'[c].reply = "no"
    => c \in S

LEMMA FinishAnswers ==
  ASSUME TypeOK, NEW c \in Call, calls[c] # None,
         NEW a \in {"none", "yes", "no", "lost"}, Finish(c, a)
  PROVE  calls'[c].at = "done" /\ calls'[c].reply = a
<1>1. calls[c] \in CallRecord
  BY DEF TypeOK
<1>2. calls'[c] = [calls[c] EXCEPT !.at = "done", !.reply = a]
  BY DEF Finish, TypeOK
<1> QED
  BY <1>1, <1>2 DEF CallRecord

\* A handler's step, as its caller can tell.
LEMMA ServeAnswers ==
  ASSUME WellTyped, NEW c \in Call, Serve(c)
  PROVE  /\ calls[c].at # "done"
         /\ calls'[c].reply # calls[c].reply => calls'[c].at = "done"
         /\ CommitRun(c) => calls'[c].reply = "yes"
         /\ calls[c].op = "stop" => Stop(c) \/ (StopFails(c) /\ calls'[c].reply = "no")
<1>0. TypeOK /\ calls[c] # None /\ calls[c] \in CallRecord
  BY DEF WellTyped, TypeOK, Serve, PrepareCheck, PrepareRefuse, PrepareHold, CommitTake,
     CommitRefuse, CommitClear, CommitClearFails, CommitRun, CommitRunFails, Abort, Alive,
     Stop, StopFails, InStage
<1>1. calls[c].at # "done"
  BY DEF Serve, PrepareCheck, PrepareRefuse, PrepareHold, CommitTake,
     CommitRefuse, CommitClear, CommitClearFails, CommitRun, CommitRunFails, Abort, Alive,
     Stop, StopFails, InStage
<1>2. ASSUME NEW k, calls' = [calls EXCEPT ![c] = k], k.reply = calls[c].reply
      PROVE  calls'[c].reply = calls[c].reply
  BY <1>0, <1>2 DEF TypeOK
<1>3. CASE \E a \in {"none", "yes", "no", "lost"} : Finish(c, a)
  BY <1>0, <1>1, <1>3, FinishAnswers
     DEF CommitRun, Stop, StopFails, Serve, PrepareCheck, PrepareRefuse, PrepareHold, CommitTake,
     CommitRefuse, CommitClear, CommitClearFails, CommitRunFails, Abort, Alive, InStage
<1>4. CASE \E s \in Stage : GoTo(c, s) /\ InStage(c, "commit", "clear")
  <2>1. PICK s \in Stage : GoTo(c, s)
    BY <1>4
  <2>2. [calls[c] EXCEPT !.at = s].reply = calls[c].reply
    BY <1>0 DEF CallRecord
  <2>3. calls'[c].reply = calls[c].reply
    BY <1>2, <2>1, <2>2 DEF GoTo
  <2> QED
    BY <1>1, <1>4, <2>3 DEF CommitRun, InStage
<1>5. CASE /\ calls' = [calls EXCEPT ![c] = [@ EXCEPT !.at = "verify",
                              !.grant = Len(granted[calls[c].node])]]
           /\ InStage(c, "prepare", "start")
  <2>1. [calls[c] EXCEPT !.at = "verify", !.grant = Len(granted[calls[c].node])].reply
          = calls[c].reply
    BY <1>0 DEF CallRecord
  <2>2. calls'[c].reply = calls[c].reply
    BY <1>2, <1>5, <2>1
  <2> QED
    BY <1>1, <1>5, <2>2 DEF CommitRun, InStage
<1>6. CASE CommitTake(c)
  <2> DEFINE r == reserved[calls[c].node]
  <2>1. [calls[c] EXCEPT !.at = "clear", !.name = r.name, !.grant = r.grant].reply
          = calls[c].reply
    BY <1>0 DEF CallRecord
  <2>2. calls'[c].reply = calls[c].reply
    BY <1>2, <1>6, <2>1 DEF CommitTake
  <2> QED
    BY <1>1, <1>6, <2>2 DEF CommitRun, CommitTake, InStage
<1>7. Alive(c) => \E a \in {"none", "yes", "no", "lost"} : Finish(c, a)
  <2> DEFINE a == IF IsUp(calls[c].node, calls[c].name) THEN "yes" ELSE "no"
  <2>1. Alive(c) => Finish(c, a)
    BY DEF Alive
  <2>2. a \in {"none", "yes", "no", "lost"}
    OBVIOUS
  <2> QED
    BY <2>1, <2>2
<1>8. \/ \E a \in {"none", "yes", "no", "lost"} : Finish(c, a)
      \/ \E s \in Stage : GoTo(c, s) /\ InStage(c, "commit", "clear")
      \/ /\ calls' = [calls EXCEPT ![c] = [@ EXCEPT !.at = "verify",
                              !.grant = Len(granted[calls[c].node])]]
         /\ InStage(c, "prepare", "start")
      \/ CommitTake(c)
  BY <1>7 DEF Serve, PrepareCheck, PrepareRefuse, PrepareHold,
     CommitRefuse, CommitClear, CommitClearFails, CommitRun, CommitRunFails, Abort,
     Stop, StopFails, Stage
<1> QED
  BY <1>3, <1>4, <1>5, <1>6, <1>8

\* Whatever a rank does, with the stops in S refused.
RankMoves(S) ==
  RequestsStand /\ AnswersStand /\ StartsAreAnswered /\ StopsRemove /\ RefusalsAreOf(S)

LEMMA ServeMoves ==
  ASSUME WellTyped, AnswersAreFinal, NEW c \in Call, Serve(c)
  PROVE  /\ RankMoves({c})
         /\ ~StopFails(c) => RankMoves({})
<1>0. TypeOK /\ ServesTheRequest(c)
  BY ServeKeepsRequest DEF WellTyped
<1>1. RequestsStand
  BY <1>0 DEF RequestsStand, ServesTheRequest, RequestStands
<1>2. AnswersStand
  BY <1>0, ServeAnswers DEF AnswersStand, ServesTheRequest
<1>3. RefusalsAreOf({c}) /\ (~StopFails(c) => RefusalsAreOf({}))
  <2>1. Stop(c) => calls'[c].reply = "yes"
    BY <1>0, FinishAnswers DEF Stop, InStage
  <2> QED
    BY <1>0, <2>1, ServeAnswers DEF RefusalsAreOf, ServesTheRequest, AnswersAreFinal
<1>4. StopsRemove
  <2> SUFFICES ASSUME calls[c].op = "stop", calls'[c].reply = "yes"
               PROVE  containers'[calls[c].node][calls[c].name] = None
    BY <1>0 DEF StopsRemove, ServesTheRequest, AnswersAreFinal
  <2>1. Stop(c)
    BY ServeAnswers
  <2> DEFINE n == calls[c].node
             m == calls[c].name
  <2>2. n \in Node /\ m \in Name
    BY <1>0, <2>1 DEF Stop, InStage, WellTyped, RequestsComplete, TypeOK, CallRecord
  <2>3. containers' = [containers EXCEPT ![n][m] = None]
    BY <2>1 DEF Stop
  <2> HIDE DEF n, m
  <2>4. containers'[n][m] = None
    BY <1>0, <2>2, <2>3 DEF TypeOK
  <2> QED
    BY <2>4 DEF n, m
<1>5. StartsAreAnswered
  <2>1. CASE CommitRun(c)
    <3> DEFINE n == calls[c].node
               m == calls[c].name
               x == [epoch |-> calls[c].epoch, grant |-> calls[c].grant, up |-> TRUE]
    <3>1. n \in Node /\ m \in Name
      BY <1>0, <2>1 DEF CommitRun, InStage, WellTyped, RequestsComplete, Committing,
         TypeOK, CallRecord
    <3>2. containers' = [containers EXCEPT ![n][m] = x]
      BY <2>1 DEF CommitRun
    <3>3. x.epoch = calls[c].epoch
      OBVIOUS
    <3>4. Undone(c) /\ calls'[c] # None /\ calls'[c].reply = "yes"
      BY <1>0, <2>1, ServeAnswers DEF Undone, CommitRun, InStage, ServesTheRequest
    <3> HIDE DEF x, n, m
    <3>5. /\ containers'[n][m] = x
          /\ \A i \in Node, j \in Name :
               i # n \/ j # m => containers'[i][j] = containers[i][j]
      BY <1>0, <3>1, <3>2 DEF TypeOK
    <3> QED
      BY <3>3, <3>4, <3>5 DEF StartsAreAnswered, n
  <2>2. CASE CommitClear(c) \/ Stop(c)
    <3> DEFINE n == calls[c].node
               m == calls[c].name
    <3>1. n \in Node /\ m \in Name
      BY <1>0, <2>2 DEF CommitClear, Stop, InStage, WellTyped, RequestsComplete, Committing,
         TypeOK, CallRecord
    <3>2. containers' = [containers EXCEPT ![n][m] = None]
      BY <2>2 DEF CommitClear, Stop
    <3> HIDE DEF n, m
    <3>3. /\ containers'[n][m] = None
          /\ \A i \in Node, j \in Name :
               i # n \/ j # m => containers'[i][j] = containers[i][j]
      BY <1>0, <3>1, <3>2 DEF TypeOK
    <3> QED
      BY <3>3 DEF StartsAreAnswered
  <2>3. CASE UNCHANGED containers
    BY <2>3 DEF StartsAreAnswered
  <2> QED
    BY <2>1, <2>2, <2>3 DEF Serve, PrepareCheck, PrepareRefuse, PrepareHold, CommitTake,
       CommitRefuse, CommitClearFails, CommitRunFails, Abort, Alive, StopFails
<1> QED
  BY <1>1, <1>2, <1>3, <1>4, <1>5 DEF RankMoves

\* A machine that restarts loses what is not answered; its containers stay.
LEMMA RestartMoves ==
  ASSUME TypeOK, AnswersAreFinal, NEW n \in Node, Restart(n)
  PROVE  RankMoves({})
<1>1. ASSUME NEW c \in Call, calls[c] # None
      PROVE  /\ RequestStands(c)
             /\ calls[c].at = "done" => calls'[c] = calls[c]
             /\ calls'[c].reply # calls[c].reply => calls'[c].at = "done"
             /\ calls[c].at # "done" =>
                  calls'[c] = calls[c] \/ calls'[c].reply = "lost"
  <2>1. calls[c] \in CallRecord
    BY <1>1 DEF TypeOK
  <2> DEFINE k == [calls[c] EXCEPT !.at = "done", !.reply = "lost"]
  <2>2. /\ k.op = calls[c].op /\ k.node = calls[c].node /\ k.epoch = calls[c].epoch
        /\ k.name = calls[c].name /\ k.at = "done" /\ k.reply = "lost"
    BY <2>1 DEF CallRecord
  <2>3. /\ calls'[c] \in {calls[c], k}
        /\ calls[c].at = "done" => calls'[c] = calls[c]
    BY <1>1 DEF Restart
  <2> HIDE DEF k
  <2> QED
    BY <2>2, <2>3 DEF RequestStands
<1>2. containers' = containers
  BY DEF Restart
<1> QED
  BY <1>1, <1>2 DEF RankMoves, RequestsStand, AnswersStand, StartsAreAnswered, StopsRemove,
     RefusalsAreOf, AnswersAreFinal

\* Where no handler takes a step nothing is answered.
LEMMA NobodyMoves ==
  ASSUME TypeOK, AnswersAreFinal,
         \/ \E c \in Call : Collect(c)
         \/ \E n \in Node, m \in Name : Dies(n, m)
         \/ UNCHANGED <<calls, containers>>
  PROVE  RankMoves({})
<1>1. \A c \in Call : calls[c] # None /\ calls'[c] # None => calls'[c] = calls[c]
  BY DEF Collect, Dies, TypeOK
<1>2. StartsAreAnswered
  <2>1. ASSUME NEW n \in Node, NEW m \in Name, Dies(n, m)
        PROVE  StartsAreAnswered
    <3>1. containers[n][m] \in Container /\ containers[n] \in [Name -> Container \cup {None}]
      BY <2>1 DEF TypeOK, Dies, IsUp
    <3>2. \A i \in Node, j \in Name :
            \/ containers'[i][j] = containers[i][j]
            \/ i = n /\ j = m /\ containers'[i][j] = [containers[n][m] EXCEPT !.up = FALSE]
      BY <2>1, <3>1 DEF Dies, TypeOK
    <3> QED
      BY <2>1, <3>1, <3>2 DEF StartsAreAnswered, Container, Dies, IsUp
  <2>2. CASE UNCHANGED containers
    BY <2>2 DEF StartsAreAnswered
  <2> QED
    BY <2>1, <2>2 DEF Collect
<1> QED
  BY <1>1, <1>2 DEF RankMoves, RequestsStand, RequestStands, AnswersStand, StopsRemove,
     RefusalsAreOf, AnswersAreFinal

-----------------------------------------------------------------------------
(* The ranks at work keep the invariant *)

\* The ranks do what they do, docker refuses the stops in S, and the heads in
\* Lost forget what they knew.
RanksWork(S, Lost) ==
  /\ RankMoves(S)
  /\ issued' = issued
  /\ doubtful \subseteq doubtful'
  /\ \A h \in HeadNode : pending'[h] = IF h \in Lost THEN None ELSE pending[h]
  /\ \A h \in HeadNode : running'[h] = IF h \in Lost THEN None ELSE running[h]
  /\ \A t \in Task : task'[t] = IF Home[t] \in Lost THEN None ELSE task[t]
  /\ Lost # {} => doubtful' = Node
  /\ \A c \in Call : calls'[c] # None => calls[c] # None
  /\ \A t \in Task : task[t] # None /\ task[t].call # None => calls'[task[t].call] # None
  /\ \A c \in S : "rm_fails" \in Faults
  /\ \A t \in Task : /\ task[t] # None /\ task[t].call \in S /\ IsRemote(t)
                     => Asked(t) \in doubtful'

\* No launch comes to life, and a lost head's are past it.
LEMMA LiveWhileRanksWork ==
  ASSUME LaunchInv, RecordsStandAlone, NEW S, NEW Lost \in SUBSET HeadNode, RanksWork(S, Lost),
         NEW e \in Epoch
  PROVE  /\ Live(e)' => Live(e)
         /\ Untried(e)' => Untried(e) \/ e = None
         /\ issued[e] # None /\ issued[e].head \in Lost => ~Live(e)'
<1>1. ASSUME NEW t \in Task, task'[t] # None
      PROVE  /\ task'[t] = task[t] /\ task[t] # None /\ Home[t] \notin Lost
             /\ issued[task[t].epoch].head = Home[t]
  BY <1>1 DEF RanksWork, RecordsStandAlone, StandsAlone
<1>2. ASSUME NEW h \in HeadNode, running'[h] # None
      PROVE  /\ running'[h] = running[h] /\ running[h] # None /\ h \notin Lost
             /\ issued[running[h].epoch].head = h
  BY <1>2 DEF RanksWork, RecordsStandAlone
<1>3. \A h \in HeadNode : pending'[h] \in {pending[h], None}
  BY DEF RanksWork
<1> QED
  BY <1>1, <1>2, <1>3 DEF Live, Untried

LEMMA ExcusedWhileRanksWork ==
  ASSUME LaunchInv, RecordsStandAlone, NEW S, NEW Lost \in SUBSET HeadNode, RanksWork(S, Lost),
         NEW e \in Epoch, issued[e] # None, NEW i \in Everyone(e), ~Excused(e, i)'
  PROVE  /\ ~Excused(e, i)
         /\ issued[e].head \notin Lost
<1>1. Ranks(e)' = Ranks(e) /\ Ranks(e)[i] \in Node
  BY LaunchesAreLaidOut DEF RanksWork, Ranks, LaunchInv, LaunchTypeOK
<1>2. Live(e)' => Live(e)
  BY LiveWhileRanksWork
<1>3. issued[e].head \in Lost => ~Live(e)' /\ doubtful' = Node
  BY LiveWhileRanksWork DEF RanksWork
<1> QED
  BY <1>1, <1>2, <1>3 DEF Excused, RanksWork

LEMMA UpWhileRanksWork ==
  ASSUME LaunchInv, NEW S, NEW Lost \in SUBSET HeadNode, RanksWork(S, Lost),
         NEW e \in Epoch, issued[e] # None, NEW i \in Everyone(e), RankUp(e, i)'
  PROVE  \/ RankUp(e, i)
         \/ \E c \in Call : /\ Undone(c) /\ calls[c].node = Ranks(e)[i] /\ calls[c].epoch = e
                            /\ calls'[c] # None /\ calls'[c].reply = "yes"
<1> DEFINE n == Ranks(e)[i]
           m == ContainerOf(e, i)
<1>1. n \in Node /\ m \in Name
  BY LaunchesAreLaidOut DEF LaunchInv, LaunchTypeOK
<1>2. Ranks(e)' = Ranks(e) /\ ContainerOf(e, i)' = m
  BY DEF RanksWork, Ranks, ContainerOf
<1>3. containers'[n][m] # None /\ containers'[n][m].up /\ containers'[n][m].epoch = e
  BY <1>2 DEF RankUp, IsUp
<1>4. \/ /\ containers[n][m] # None
         /\ containers'[n][m].epoch = containers[n][m].epoch
         /\ containers'[n][m].up => containers[n][m].up
      \/ \E c \in Call : /\ Undone(c) /\ calls[c].node = n
                         /\ calls[c].epoch = containers'[n][m].epoch
                         /\ calls'[c] # None /\ calls'[c].reply = "yes"
  BY <1>1, <1>3 DEF RanksWork, RankMoves, StartsAreAnswered
<1> QED
  BY <1>3, <1>4 DEF RankUp, IsUp

\* A stop is heard as done when its rank is gone, or its machine is in doubt.
LEMMA HeardWhileRanksWork ==
  ASSUME LaunchInv, WholeInv, NEW S, NEW Lost \in SUBSET HeadNode, RanksWork(S, Lost),
         NEW t \in Task, task[t] # None, task[t].stage \in {"unstart", "halt"},
         NEW i \in Everyone(task[t].epoch),
         RankUp(task[t].epoch, i)', ~Excused(task[t].epoch, i)',
         HeardStop(task[t], Home[t], i)', task'[t] = task[t]
  PROVE  HeardStop(task[t], Home[t], i)
<1>0. PICK k \in Ceremony : k = task[t]
  BY TaskFacts
<1>1. k.epoch \in Epoch /\ issued' = issued /\ Ranks(k.epoch)' = Ranks(k.epoch)
  BY <1>0, TaskFacts DEF RanksWork, Ranks
<1>2. /\ k.call # None /\ i = Min(k.todo)
      /\ calls'[k.call].reply = "yes" \/ (calls'[k.call].reply = "no" /\ Ranks(k.epoch)[i] # Home[t])
  BY <1>0, <1>1 DEF HeardStop
<1>3. /\ k.call \in Call /\ calls[k.call] # None /\ calls[k.call].op = "stop"
      /\ calls[k.call].node = Ranks(k.epoch)[i] /\ calls[k.call].name = ContainerOf(k.epoch, i)
  BY <1>0, <1>2, TaskFacts DEF CallFits, RankOp, Ceremony
<1>4. calls'[k.call] # None
  BY <1>0, <1>2 DEF RanksWork
<1>5. CASE calls[k.call].at = "done"
  <2>1. calls'[k.call] = calls[k.call]
    BY <1>3, <1>4, <1>5 DEF RanksWork, RankMoves, AnswersStand
  <2> QED
    BY <1>0, <1>2, <2>1 DEF HeardStop
<1>6. CASE calls[k.call].at # "done" /\ calls'[k.call].reply = "yes"
  <2>1. containers'[Ranks(k.epoch)[i]][ContainerOf(k.epoch, i)] = None
    BY <1>3, <1>4, <1>6 DEF RanksWork, RankMoves, StopsRemove
  <2>2. ContainerOf(k.epoch, i)' = ContainerOf(k.epoch, i)
    BY <1>1 DEF ContainerOf
  <2> QED
    BY <1>0, <1>1, <2>1, <2>2 DEF RankUp, IsUp
<1>7. CASE calls[k.call].at # "done" /\ calls'[k.call].reply = "no" /\ Ranks(k.epoch)[i] # Home[t]
  <2>1. k.call \in S
    BY <1>3, <1>4, <1>7 DEF RanksWork, RankMoves, RefusalsAreOf
  <2>2. Asked(t) = Ranks(k.epoch)[i] /\ IsRemote(t)
    BY <1>0, <1>2, <1>7 DEF Asked, IsRemote
  <2>3. Ranks(k.epoch)[i] \in doubtful' /\ "rm_fails" \in Faults
    BY <1>0, <2>1, <2>2 DEF RanksWork
  <2> QED
    BY <1>0, <1>1, <2>3 DEF Excused
<1> QED
  BY <1>2, <1>5, <1>6, <1>7

LEMMA HoldsWhileRanksWork ==
  ASSUME LaunchInv, WholeInv, NEW S, NEW Lost \in SUBSET HeadNode, RanksWork(S, Lost),
         NEW t \in Task, task[t] # None, NEW i \in Everyone(task[t].epoch),
         RankUp(task[t].epoch, i)', ~Excused(task[t].epoch, i)',
         Holds(task[t], Home[t], i), task'[t] = task[t]
  PROVE  Holds(task[t], Home[t], i)'
<1>0. PICK k \in Ceremony : k = task[t]
  BY TaskFacts
<1>1. CASE k.stage \in {"unstart", "halt"} /\ ~HeardStop(k, Home[t], i)
  <2>1. ~HeardStop(k, Home[t], i)'
    BY <1>0, <1>1, HeardWhileRanksWork DEF HeardStop
  <2> QED
    BY <1>0, <1>1, <2>1 DEF Holds, HeardStop
<1>2. CASE k.stage = "start" /\ k.call # None /\ calls[k.call].reply = "yes" /\ i = Min(k.todo)
  <2>1. k.call \in Call /\ calls[k.call] # None /\ calls'[k.call] # None
    BY <1>0, <1>2, TaskFacts DEF CallFits, Ceremony, RanksWork
  <2>2. calls[k.call].at = "done"
    BY <1>2, <2>1 DEF WholeInv, AnswersAreFinal
  <2>3. calls'[k.call] = calls[k.call]
    BY <2>1, <2>2 DEF RanksWork, RankMoves, AnswersStand
  <2> QED
    BY <1>0, <1>2, <2>3 DEF Holds
<1>3. CASE \/ k.stage \in {"start", "settle"} /\ i \in k.good
           \/ k.stage = "halt" /\ i \in k.bad
  BY <1>0, <1>3 DEF Holds
<1> QED
  BY <1>0, <1>1, <1>2, <1>3 DEF Holds

\* A launch whose commit is at work is in the hands of that commit, unless its
\* machine is in doubt and the launch given up.
LEMMA StartedByItsCommit ==
  ASSUME LaunchInv, WholeInv, NEW c \in Call, Undone(c),
         NEW e \in Epoch, issued[e] # None, NEW i \in Everyone(e), calls[c].epoch = e,
         calls[c].node = Ranks(e)[i]
  PROVE  \/ \E t \in Task : /\ task[t] # None /\ task[t].stage = "start" /\ task[t].call = c
                            /\ task[t].op = "commit" /\ task[t].epoch = e
                            /\ i = Min(task[t].todo)
         \/ Ranks(e)[i] \in doubtful /\ ~Live(e)
<1>1. CASE WaitedFor(c)
  <2>1. PICK t \in Task : task[t] # None /\ task[t].stage = "start" /\ task[t].call = c
    BY <1>1 DEF WaitedFor
  <2>2. PICK k \in Ceremony : k = task[t]
    BY <2>1, TaskFacts
  <2>3. c # None
    BY LaunchNoneIsFresh
  <2>4. k.op = "commit" /\ k.epoch = e
    BY <2>1, <2>2, <2>3, TaskFacts DEF Fits, CallFits, RankOp, Taking
  <2>5. i = Min(k.todo)
    BY <2>1, <2>2, <2>3, <2>4, AskedRank
  <2> QED
    BY <2>1, <2>2, <2>4, <2>5
<1>2. CASE ~WaitedFor(c)
  BY <1>2 DEF WholeInv, CommitsAttended
<1> QED
  BY <1>1, <1>2

LEMMA AccountedWhileRanksWork ==
  ASSUME LaunchInv, WholeInv, NEW S, NEW Lost \in SUBSET HeadNode, RanksWork(S, Lost)
  PROVE  UpIsAccounted'
<1> SUFFICES ASSUME NEW e \in Epoch, issued'[e] # None, NEW i \in Everyone(e)',
                    RankUp(e, i)', ~Excused(e, i)'
             PROVE  Accounted(e, i)'
  BY DEF UpIsAccounted
<1>1. issued' = issued /\ issued[e] # None /\ i \in Everyone(e)
  BY DEF RanksWork, Everyone, Ranks
<1>2. ~Excused(e, i) /\ issued[e].head \notin Lost
  BY <1>1, ExcusedWhileRanksWork DEF WholeInv
<1>3. ASSUME NEW t \in Task, task[t] # None, task[t].epoch = e
      PROVE  task'[t] = task[t]
  BY <1>2, <1>3 DEF WholeInv, RecordsStandAlone, StandsAlone, RanksWork
<1>4. CASE RankUp(e, i)
  <2>1. Accounted(e, i)
    BY <1>1, <1>2, <1>4 DEF WholeInv, UpIsAccounted
  <2>2. ASSUME NEW t \in Task, task[t] # None, task[t].op = "commit", task[t].epoch = e,
               Holds(task[t], Home[t], i)
        PROVE  Accounted(e, i)'
    <3>1. task'[t] = task[t]
      BY <1>3, <2>2
    <3>2. Holds(task[t], Home[t], i)'
      BY <1>1, <2>2, <3>1, HoldsWhileRanksWork
    <3> QED
      BY <2>2, <3>1, <3>2 DEF Accounted
  <2>3. ASSUME NEW h \in HeadNode, running[h] # None, running[h].epoch = e,
               i \in running[h].started
        PROVE  Accounted(e, i)'
    <3>1. h \notin Lost
      BY <1>2, <2>3 DEF WholeInv, RecordsStandAlone
    <3>2. running'[h] = running[h]
      BY <3>1 DEF RanksWork
    <3> QED
      BY <2>3, <3>2 DEF Accounted
  <2> QED
    BY <2>1, <2>2, <2>3 DEF Accounted
<1>5. CASE ~RankUp(e, i)
  <2>1. PICK c \in Call : /\ Undone(c) /\ calls[c].node = Ranks(e)[i] /\ calls[c].epoch = e
                          /\ calls'[c].reply = "yes"
    BY <1>1, <1>5, UpWhileRanksWork
  <2>2. ASSUME Ranks(e)[i] \in doubtful, ~Live(e)
        PROVE  FALSE
    BY <1>2, <2>2 DEF Excused
  <2>3. PICK t \in Task : /\ task[t] # None /\ task[t].stage = "start" /\ task[t].call = c
                          /\ task[t].op = "commit" /\ task[t].epoch = e
                          /\ i = Min(task[t].todo)
    BY <1>1, <2>1, <2>2, StartedByItsCommit
  <2>4. task'[t] = task[t] /\ c # None
    BY <1>3, <2>3, LaunchNoneIsFresh
  <2>5. Holds(task[t], Home[t], i)'
    BY <2>1, <2>3, <2>4 DEF Holds
  <2> QED
    BY <2>3, <2>4, <2>5 DEF Accounted
<1> QED
  BY <1>4, <1>5

LEMMA RanksKeepWhole ==
  ASSUME LaunchInv, WholeInv, OneAtATime, NEW S, NEW Lost \in SUBSET HeadNode,
         RanksWork(S, Lost)
  PROVE  WholeInv'
<1>0. /\ LaunchTypeOK /\ issued' = issued /\ None \notin Epoch
      /\ \A e \in Epoch : Ranks(e)' = Ranks(e) /\ Everyone(e)' = Everyone(e)
  BY NoneIsFresh DEF LaunchInv, RanksWork, Ranks, Everyone
<1>1. ASSUME NEW c \in Call, calls'[c] # None
      PROVE  /\ calls[c] # None /\ RequestStands(c)
             /\ calls[c].at = "done" => calls'[c] = calls[c]
             /\ calls'[c].reply # calls[c].reply => calls'[c].at = "done"
  BY <1>1 DEF RanksWork, RankMoves, RequestsStand, AnswersStand
<1>2. ASSUME NEW t \in Task, task'[t] # None
      PROVE  task'[t] = task[t] /\ task[t] # None /\ Home[t] \notin Lost
  BY <1>2 DEF RanksWork
<1>3. AnswersAreFinal'
  BY <1>1 DEF WholeInv, AnswersAreFinal
<1>4. RecordsStandAlone'
  <2>1. ASSUME NEW h \in HeadNode, running'[h] # None
        PROVE  pending'[h] = None /\ issued'[running'[h].epoch].head = h
    BY <1>0, <2>1 DEF RanksWork, WholeInv, RecordsStandAlone
  <2>2. ASSUME NEW t \in Task, task'[t] # None
        PROVE  StandsAlone(task[t], Home[t])'
    <3>1. Home[t] \in HeadNode /\ task[t] \in Ceremony
      BY <1>0, <1>2, <2>2, LaunchAssumption DEF LaunchTypeOK
    <3>2. /\ running'[Home[t]] = running[Home[t]] /\ pending'[Home[t]] = pending[Home[t]]
      BY <1>2, <2>2, <3>1 DEF RanksWork
    <3>3. StandsAlone(task[t], Home[t])
      BY <1>2, <2>2 DEF WholeInv, RecordsStandAlone
    <3> QED
      BY <1>0, <1>2, <2>2, <3>2, <3>3 DEF StandsAlone
  <2> QED
    BY <2>1, <2>2 DEF RecordsStandAlone
<1>5. UntriedIsClean'
  <2>0. \A e \in Epoch : Untried(e)' => Untried(e)
    BY <1>0, LiveWhileRanksWork DEF WholeInv
  <2>1. ASSUME NEW c \in Call, calls'[c] # None, calls'[c].op = "commit"
        PROVE  ~Untried(calls[c].epoch)'
    <3>1. /\ calls[c].op = "commit" /\ calls[c].epoch \in Epoch
      BY <1>1, <2>1 DEF RequestStands, LaunchInv, RequestsFit, Unanimous
    <3>2. calls'[c].epoch = calls[c].epoch /\ ~Untried(calls[c].epoch)
      BY <1>1, <2>1, <3>1 DEF RequestStands, WholeInv, UntriedIsClean
    <3>3. PICK e \in Epoch : e = calls[c].epoch
      BY <3>1
    <3>4. ~Untried(e)'
      BY <2>0, <3>2, <3>3
    <3> QED
      BY <3>2, <3>3, <3>4 DEF Untried
  <2>2. ASSUME NEW n \in Node, NEW m \in Name, containers'[n][m] # None
        PROVE  ~Untried(containers[n][m].epoch)'
    <3>1. PICK e \in Epoch : e = containers'[n][m].epoch /\ ~Untried(e)
      <4>1. CASE containers[n][m] # None /\ containers'[n][m].epoch = containers[n][m].epoch
        BY <4>1 DEF LaunchInv, ContainersFit, Unanimous, WholeInv, UntriedIsClean
      <4>2. CASE \E c \in Call : Undone(c) /\ calls[c].epoch = containers'[n][m].epoch
        BY <4>2 DEF LaunchInv, RequestsFit, Unanimous, WholeInv, UntriedIsClean, Undone
      <4> QED
        BY <2>2, <4>1, <4>2 DEF RanksWork, RankMoves, StartsAreAnswered
    <3>2. ~Untried(e)'
      BY <2>0, <3>1
    <3> QED
      BY <3>1, <3>2 DEF Untried
  <2> QED
    BY <2>1, <2>2 DEF UntriedIsClean
<1>6. CommitsAttended'
  <2> SUFFICES ASSUME NEW c \in Call, Undone(c)'
               PROVE  WaitedFor(c)' \/ (calls'[c].node \in doubtful' /\ ~Live(calls[c].epoch)')
    BY DEF CommitsAttended
  <2>1. /\ Undone(c) /\ calls'[c].node = calls[c].node /\ calls'[c].epoch = calls[c].epoch
    BY <1>1 DEF Undone, RequestStands
  <2>2. PICK e \in Epoch : e = calls[c].epoch /\ issued[e] # None
    BY <2>1 DEF LaunchInv, RequestsFit, Unanimous, Undone
  <2>3. calls[c].node \in Node
    BY <2>1 DEF LaunchInv, LaunchTypeOK, TypeOK, CallRecord, Undone
  <2>4. CASE WaitedFor(c)
    <3>1. PICK t \in Task : task[t] # None /\ task[t].stage = "start" /\ task[t].call = c
      BY <2>4 DEF WaitedFor
    <3>2. CASE Home[t] \notin Lost
      BY <3>1, <3>2 DEF RanksWork, WaitedFor
    <3>3. CASE Home[t] \in Lost
      <4>1. task[t].epoch = e /\ issued[e].head = Home[t]
        <5>1. c # None
          BY LaunchNoneIsFresh
        <5>2. task[t].epoch = e
          BY <2>2, <3>1, <5>1, TaskFacts DEF CallFits, RankOp, Taking
        <5> QED
          BY <3>1, <5>2 DEF WholeInv, RecordsStandAlone, StandsAlone
      <4>2. ~Live(e)' /\ doubtful' = Node
        BY <2>2, <3>3, <4>1, LiveWhileRanksWork DEF WholeInv, RanksWork
      <4> QED
        BY <2>1, <2>2, <2>3, <4>2 DEF Live
    <3> QED
      BY <3>2, <3>3
  <2>5. CASE ~WaitedFor(c)
    <3>1. calls[c].node \in doubtful /\ ~Live(e)
      BY <2>1, <2>2, <2>5 DEF WholeInv, CommitsAttended
    <3>2. ~Live(e)'
      BY <3>1, LiveWhileRanksWork DEF WholeInv
    <3> QED
      BY <2>1, <2>2, <3>1, <3>2 DEF RanksWork, Live
  <2> QED
    BY <2>4, <2>5
<1>7. UpIsAccounted'
  BY AccountedWhileRanksWork
<1>8. StopsAccount'
  <2> SUFFICES ASSUME NEW t \in Task, task'[t] # None
               PROVE  StopAccounts(task[t], Home[t])'
    BY DEF StopsAccount
  <2>1. task'[t] = task[t] /\ task[t] # None
    BY <1>2
  <2>2. PICK k \in Ceremony : k = task[t]
    BY <2>1, TaskFacts
  <2>3. PICK e \in Epoch : e = k.epoch /\ issued[e] # None
    BY <2>1, <2>2, TaskFacts
  <2>4. ASSUME NEW i \in Everyone(e), RankUp(e, i)', ~RankUp(e, i), k.stage \in {"halt", "clear"}
        PROVE  Excused(e, i) /\ Ranks(e)[i] \in doubtful
    <3>1. PICK c \in Call : /\ Undone(c) /\ calls[c].node = Ranks(e)[i] /\ calls[c].epoch = e
      BY <2>3, <2>4, UpWhileRanksWork
    <3>2. \A u \in Task : task[u] # None /\ task[u].epoch = e => task[u].stage # "start"
      BY <2>1, <2>2, <2>3, <2>4, OneCeremonyOfALaunch DEF WholeInv
    <3> QED
      BY <2>3, <3>1, <3>2, StartedByItsCommit DEF Excused
  <2>5. ASSUME NEW i \in Everyone(e), k.stage = "halt", RankUp(e, i)', ~Excused(e, i)'
        PROVE  Holds(k, Home[t], i)'
    <3>1. ~Excused(e, i)
      BY <2>3, <2>5, ExcusedWhileRanksWork DEF WholeInv
    <3>2. RankUp(e, i)
      BY <2>4, <2>5, <3>1
    <3>3. Holds(k, Home[t], i)
      BY <2>1, <2>2, <2>3, <2>5, <3>1, <3>2 DEF WholeInv, StopsAccount, StopAccounts
    <3>4. Holds(task[t], Home[t], i)'
      BY <2>1, <2>2, <2>3, <2>5, <3>3, HoldsWhileRanksWork
    <3> QED
      BY <2>1, <2>2, <3>4 DEF Holds, HeardStop
  <2>6. ASSUME NEW i \in Everyone(e), k.stage = "halt", k.op = "supervise", i \in k.bad
        PROVE  Ranks(e)[i] \in doubtful'
    BY <2>1, <2>2, <2>3, <2>6 DEF WholeInv, StopsAccount, StopAccounts, RanksWork
  <2>7. ASSUME NEW i \in Everyone(e), k.stage = "clear", RankUp(e, i)'
        PROVE  Ranks(e)[i] \in doubtful'
    BY <2>1, <2>2, <2>3, <2>4, <2>7 DEF WholeInv, StopsAccount, StopAccounts, RanksWork
  <2>8. StopAccounts(k, Home[t])'
    BY <1>0, <2>3, <2>5, <2>6, <2>7 DEF StopAccounts
  <2> QED
    BY <2>1, <2>2, <2>8 DEF StopAccounts
<1> QED
  BY <1>3, <1>4, <1>5, <1>6, <1>7, <1>8 DEF WholeInv

LEMMA CallAtWorkKeepsWhole ==
  ASSUME LaunchInv, WholeInv, OneAtATime, NEW c \in Call,
         Works(c) \/ Fails(c) \/ StopRefused(c)
  PROVE  WholeInv'
<1>0. LaunchTypeOK /\ TypeOK /\ WellTyped /\ AnswersAreFinal
  BY DEF LaunchInv, LaunchTypeOK, GrantInv, WholeInv
<1>1. UNCHANGED <<pending, running, task, issued>>
  BY DEF Works, Fails, StopRefused, driverVars
<1>2. \A t \in Task : task[t] # None /\ task[t].call # None =>
         task[t].call \in Call /\ calls[task[t].call] # None
  BY TaskFacts DEF CallFits, Ceremony
<1>3. CASE Collect(c) /\ (\A t \in Task : task[t] # None => task[t].call # c) /\ UNCHANGED driverVars
  <2>1. calls'[c] = None /\ \A d \in Call : d # c => calls'[d] = calls[d]
    BY <1>0, <1>3 DEF Collect, TypeOK
  <2>2. RankMoves({})
    BY <1>0, <1>3, NobodyMoves
  <2>3. RanksWork({}, {})
    BY <1>1, <1>2, <1>3, <2>1, <2>2 DEF RanksWork, driverVars
  <2> QED
    BY <2>3, RanksKeepWhole
<1>4. CASE Serve(c) /\ ~StopRefused(c)
  <2>1. ~StopFails(c)
    <3> SUFFICES ASSUME StopFails(c) PROVE FALSE
      OBVIOUS
    <3>1. calls[c] # None /\ calls[c].op = "stop" /\ calls[c].at = "start"
      BY DEF StopFails, InStage
    <3>2. Stop(c)
      BY <1>4, <3>1 DEF Works, Fails, PrepareCheck, PrepareHold, CommitTake, CommitRefuse,
         CommitClear, CommitRun, CommitRunFails, Abort, Alive, PrepareRefuse,
         CommitClearFails, InStage, Collect
    <3> QED
      BY <1>0, <3>1, <3>2, FinishAnswers DEF Stop, StopFails
  <2>2. RankMoves({})
    BY <1>0, <1>4, <2>1, ServeMoves
  <2>3. doubtful' = doubtful
    BY <1>4 DEF Works, Fails, driverVars
  <2>4. RanksWork({}, {})
    BY <1>1, <1>4, <2>2, <2>3, ServeStep DEF RanksWork
  <2> QED
    BY <2>4, RanksKeepWhole
<1>5. CASE StopRefused(c)
  <2>1. Serve(c)
    BY <1>5 DEF StopRefused, Serve
  <2>2. RankMoves({c})
    BY <1>0, <2>1, ServeMoves
  <2>3. "rm_fails" \in Faults /\ doubtful \subseteq doubtful'
    BY <1>5 DEF StopRefused, Fault
  <2>4. ASSUME NEW t \in Task, task[t] # None, task[t].call = c, IsRemote(t)
        PROVE  Asked(t) \in doubtful'
    <3>1. Waiting(t)
      BY <2>4, LaunchNoneIsFresh DEF Waiting
    <3>2. Asked(t) = calls[c].node
      BY <2>4, <3>1, TaskFacts DEF CallFits, Asked, Waiting
    <3> QED
      BY <1>5, <2>4, <3>1, <3>2 DEF StopRefused
  <2>5. RanksWork({c}, {})
    BY <1>1, <2>1, <2>2, <2>3, <2>4, ServeStep DEF RanksWork
  <2> QED
    BY <2>5, RanksKeepWhole
<1>6. \/ Collect(c) /\ (\A t \in Task : task[t] # None => task[t].call # c) /\ UNCHANGED driverVars
      \/ Serve(c)
  BY DEF Works, Fails, StopRefused, Serve
<1> QED
  BY <1>3, <1>4, <1>5, <1>6

LEMMA MachineKeepsWhole ==
  ASSUME LaunchInv, WholeInv, OneAtATime,
         \/ \E n \in Node : ReservationExpires(n)
         \/ \E n \in Node, m \in Name : RankDies(n, m)
         \/ UNCHANGED vars
  PROVE  WholeInv'
<1>0. TypeOK /\ AnswersAreFinal
  BY DEF LaunchInv, LaunchTypeOK, WholeInv
<1>1. UNCHANGED <<calls, pending, running, task, issued, doubtful>>
  BY DEF ReservationExpires, RankDies, Expire, Dies, vars, rankVars, driverVars
<1>2. \A t \in Task : task[t] # None /\ task[t].call # None => calls[task[t].call] # None
  BY TaskFacts DEF CallFits
<1>3. RankMoves({})
  BY <1>0, NobodyMoves DEF ReservationExpires, RankDies, Expire, vars, rankVars
<1>4. RanksWork({}, {})
  BY <1>1, <1>2, <1>3 DEF RanksWork
<1> QED
  BY <1>4, RanksKeepWhole

LEMMA RestartKeepsWhole ==
  ASSUME LaunchInv, WholeInv, OneAtATime, NEW n \in Node, AgentRestarts(n)
  PROVE  WholeInv'
<1>0. LaunchTypeOK /\ TypeOK /\ AnswersAreFinal
  BY DEF LaunchInv, LaunchTypeOK, WholeInv
<1> DEFINE lost == {n} \cap HeadNode
<1>1. Restart(n) /\ issued' = issued /\ RankMoves({})
  BY <1>0, RestartMoves DEF AgentRestarts
<1>2. lost \in SUBSET HeadNode /\ \A h \in HeadNode : h \in lost <=> h = n
  OBVIOUS
<1>3. lost # {} => n \in HeadNode
  OBVIOUS
<1> HIDE DEF lost
<1>4. doubtful \subseteq doubtful' /\ (lost # {} => doubtful' = Node)
  BY <1>0, <1>3 DEF AgentRestarts, LaunchTypeOK
<1>5. /\ \A h \in HeadNode : pending'[h] = IF h \in lost THEN None ELSE pending[h]
      /\ \A h \in HeadNode : running'[h] = IF h \in lost THEN None ELSE running[h]
  BY <1>2 DEF AgentRestarts
<1>6. \A t \in Task : task'[t] = IF Home[t] \in lost THEN None ELSE task[t]
  BY <1>2, LaunchAssumption DEF AgentRestarts, Mine
<1>7. \A c \in Call : (calls'[c] # None) = (calls[c] # None)
  <2>1. ASSUME NEW c \in Call, calls[c] # None PROVE calls'[c] # None
    <3>1. calls[c] \in CallRecord
      BY <1>0, <2>1 DEF TypeOK
    <3>2. [calls[c] EXCEPT !.at = "done", !.reply = "lost"] \in CallRecord
      BY <3>1 DEF CallRecord, Stage
    <3> QED
      BY <1>1, <2>1, <3>2, NoneIsFresh DEF Restart
  <2>2. \A c \in Call : calls[c] = None => calls'[c] = None
    BY <1>1 DEF Restart
  <2> QED
    BY <2>1, <2>2
<1>8. \A t \in Task : task[t] # None /\ task[t].call # None =>
         task[t].call \in Call /\ calls[task[t].call] # None
  BY TaskFacts DEF CallFits, Ceremony
<1>9. RanksWork({}, lost)
  BY <1>1, <1>4, <1>5, <1>6, <1>7, <1>8 DEF RanksWork
<1> QED
  BY <1>2, <1>9, RanksKeepWhole

-----------------------------------------------------------------------------
(* Ceremonies on their way keep the invariant *)

\* Task t goes on in its ceremony, begins one or ends it.  Nothing happens at a
\* rank, but that its request is made or collected.
CeremonyTurns(t) ==
  /\ containers' = containers
  /\ doubtful \subseteq doubtful'
  /\ \A e \in Epoch : issued[e] # None => issued'[e] = issued[e]
  /\ \A u \in Task : u # t => task'[u] = task[u]
  /\ \A u \in Task : u # t /\ task[u] # None /\ task[u].call # None
                       => calls'[task[u].call] = calls[task[u].call]
  /\ \A c \in Call : calls'[c] # None =>
       calls'[c] = calls[c] \/ (calls[c] = None /\ calls'[c].reply = "none")

\* The rank is up, and nothing that happens now excuses its head.
Matters(e, i) == issued[e] # None /\ i \in Everyone(e) /\ RankUp(e, i) /\ ~Excused(e, i)'
\* No launch comes to life that was tried before.
NewlyLive == \A e \in Epoch : Live(e)' => Live(e) \/ Untried(e)

\* A commit at work stays with its ceremony, or its machine is in doubt.
CommitsPassOn(t) ==
  \A c \in Call : Undone(c)' =>
    \/ WaitedFor(c)'
    \/ calls'[c].node \in doubtful' /\ ~Live(calls[c].epoch)'
    \/ /\ Undone(c) /\ calls'[c] = calls[c]
       /\ ~(task[t] # None /\ task[t].stage = "start" /\ task[t].call = c)

\* What the ceremony of t holds, and what is on record, is accounted for next.
CeremonyPassesOn(t) ==
  \A e \in Epoch, i \in Nat :
    /\ task[t] # None /\ task[t].op = "commit" /\ task[t].epoch = e
    /\ Matters(e, i) /\ Holds(task[t], Home[t], i)
    => Accounted(e, i)'

RecordsPassOn ==
  \A h \in HeadNode, e \in Epoch, i \in Nat :
    /\ running[h] # None /\ running'[h] # running[h] /\ running[h].epoch = e
    /\ i \in running[h].started /\ Matters(e, i)
    => Accounted(e, i)'

StopPassesOn(t) == task'[t] # None => StopAccounts(task[t], Home[t])'

LEMMA UpAsItWas ==
  ASSUME LaunchInv, LaunchTypeOK', NEW t \in Task, CeremonyTurns(t),
         NEW e \in Epoch, issued'[e] # None, NEW i, i \in Everyone(e)', RankUp(e, i)'
  PROVE  /\ issued[e] # None /\ i \in Everyone(e) /\ RankUp(e, i)
         /\ Ranks(e)' = Ranks(e)
<1>1. CASE issued[e] # None
  <2>1. issued'[e] = issued[e]
    BY <1>1 DEF CeremonyTurns
  <2>2. Ranks(e)' = Ranks(e) /\ Everyone(e)' = Everyone(e) /\ ContainerOf(e, i)' = ContainerOf(e, i)
    BY <2>1 DEF Ranks, Everyone, ContainerOf
  <2> QED
    BY <1>1, <2>2 DEF CeremonyTurns, RankUp, IsUp
<1>2. CASE issued[e] = None
  <2>1. Ranks(e)'[i] \in Node /\ ContainerOf(e, i)' \in Name
    <3> DEFINE ranks == issued'[e].ranks
    <3>1. issued'[e].recipe \in Recipe /\ ranks \in Roster
      BY DEF LaunchTypeOK, Attempt
    <3>2. ranks \in Seq(Node) /\ \A j \in 1..Len(ranks) : <<issued'[e].recipe, j>> \in Name
      BY <3>1, LaunchAssumption
    <3> QED
      BY <3>2 DEF Everyone, Ranks, ContainerOf
  <2>2. \A n \in Node, m \in Name : containers[n][m] # None => containers[n][m].epoch # e
    BY <1>2 DEF LaunchInv, ContainersFit, Unanimous
  <2> QED
    BY <1>2, <2>1, <2>2 DEF CeremonyTurns, RankUp, IsUp
<1> QED
  BY <1>1, <1>2

\* An excuse stays one.
LEMMA StaysUnexcused ==
  ASSUME LaunchInv, WholeInv, NEW t \in Task, CeremonyTurns(t), NewlyLive,
         NEW e \in Epoch, NEW i, Matters(e, i)
  PROVE  ~Excused(e, i)
<1>1. Ranks(e)' = Ranks(e) /\ doubtful \subseteq doubtful'
  BY DEF Matters, CeremonyTurns, Ranks
<1>2. Live(e)' => Live(e)
  BY UpWasTried DEF Matters, WholeInv, NewlyLive
<1> QED
  BY <1>1, <1>2 DEF Matters, Excused

\* A ceremony that is left alone holds what it held.
LEMMA OthersHold ==
  ASSUME LaunchInv, NEW t \in Task, CeremonyTurns(t),
         NEW u \in Task, u # t, task[u] # None, NEW i
  PROVE  /\ task'[u] = task[u] /\ issued'[task[u].epoch] = issued[task[u].epoch]
         /\ Holds(task[u], Home[u], i)' <=> Holds(task[u], Home[u], i)
<1>1. task'[u] = task[u] /\ (task[u].call # None => calls'[task[u].call] = calls[task[u].call])
  BY DEF CeremonyTurns
<1>2. issued'[task[u].epoch] = issued[task[u].epoch]
  BY TaskFacts DEF CeremonyTurns
<1> QED
  BY <1>1, <1>2 DEF Holds, HeardStop, Ranks

LEMMA CeremonyKeepsWhole ==
  ASSUME LaunchInv, LaunchTypeOK', WholeInv, NEW t \in Task, CeremonyTurns(t),
         RecordsStandAlone', UntriedIsClean', NewlyLive, CommitsPassOn(t),
         CeremonyPassesOn(t), RecordsPassOn, StopPassesOn(t)
  PROVE  WholeInv'
<1>1. AnswersAreFinal'
  BY DEF CeremonyTurns, WholeInv, AnswersAreFinal
<1>2. CommitsAttended'
  <2> SUFFICES ASSUME NEW c \in Call, Undone(c)', ~WaitedFor(c)',
                      Undone(c), calls'[c] = calls[c],
                      ~(task[t] # None /\ task[t].stage = "start" /\ task[t].call = c)
               PROVE  calls'[c].node \in doubtful' /\ ~Live(calls[c].epoch)'
    BY DEF CommitsAttended, CommitsPassOn
  <2>1. ~WaitedFor(c)
    BY DEF WaitedFor, CeremonyTurns
  <2>2. calls[c].node \in doubtful /\ ~Live(calls[c].epoch)
    BY <2>1 DEF WholeInv, CommitsAttended
  <2>3. PICK e \in Epoch : e = calls[c].epoch
    BY DEF Undone, LaunchInv, RequestsFit, Unanimous
  <2>4. ~Untried(e) /\ ~Live(e)
    BY <2>2, <2>3 DEF WholeInv, UntriedIsClean, Undone
  <2>5. ~Live(e)'
    BY <2>4 DEF NewlyLive
  <2>6. ~Live(calls[c].epoch)'
    BY <2>3, <2>5 DEF Live
  <2> QED
    BY <2>2, <2>6 DEF CeremonyTurns
<1>3. UpIsAccounted'
  <2> SUFFICES ASSUME NEW e \in Epoch, issued'[e] # None, NEW i, i \in Everyone(e)',
                      RankUp(e, i)', ~Excused(e, i)'
               PROVE  Accounted(e, i)'
    BY DEF UpIsAccounted
  <2>1. /\ issued[e] # None /\ i \in Everyone(e) /\ RankUp(e, i) /\ i \in Nat
        /\ Matters(e, i)
    BY UpAsItWas, LaunchesAreLaidOut DEF Matters, LaunchInv, LaunchTypeOK
  <2>2. Accounted(e, i)
    BY <2>1, StaysUnexcused DEF WholeInv, UpIsAccounted
  <2>3. ASSUME NEW u \in Task, task[u] # None, task[u].op = "commit", task[u].epoch = e,
               Holds(task[u], Home[u], i)
        PROVE  Accounted(e, i)'
    <3>1. CASE u = t
      BY <2>1, <2>3, <3>1 DEF CeremonyPassesOn
    <3>2. CASE u # t
      <4>1. task'[u] = task[u] /\ Holds(task[u], Home[u], i)'
        BY <2>3, <3>2, OthersHold
      <4> QED
        BY <2>3, <4>1 DEF Accounted
    <3> QED
      BY <3>1, <3>2
  <2>4. ASSUME NEW h \in HeadNode, running[h] # None, running[h].epoch = e,
               i \in running[h].started
        PROVE  Accounted(e, i)'
    <3>1. CASE running'[h] = running[h]
      BY <2>4, <3>1 DEF Accounted
    <3>2. CASE running'[h] # running[h]
      BY <2>1, <2>4, <3>2 DEF RecordsPassOn
    <3> QED
      BY <3>1, <3>2
  <2> QED
    BY <2>2, <2>3, <2>4 DEF Accounted
<1>4. StopsAccount'
  <2> SUFFICES ASSUME NEW u \in Task, task'[u] # None, u # t
               PROVE  StopAccounts(task[u], Home[u])'
    BY DEF StopsAccount, StopPassesOn
  <2>1. task'[u] = task[u] /\ task[u] # None
    BY DEF CeremonyTurns
  <2>2. PICK e \in Epoch : e = task[u].epoch /\ issued[e] # None
    BY <2>1, TaskFacts
  <2>3. issued'[e] = issued[e] /\ Ranks(e)' = Ranks(e) /\ Everyone(e)' = Everyone(e)
    BY <2>1, <2>2, OthersHold DEF Ranks, Everyone
  <2>4. ASSUME NEW i, i \in Everyone(e)
        PROVE  /\ task[u].stage = "halt" /\ RankUp(e, i)' /\ ~Excused(e, i)'
                    => Holds(task[u], Home[u], i)'
               /\ task[u].stage = "halt" /\ task[u].op = "supervise" /\ i \in task[u].bad
                    => Ranks(e)[i] \in doubtful'
               /\ task[u].stage = "clear" /\ RankUp(e, i)' => Ranks(e)[i] \in doubtful'
    <3>1. StopAccounts(task[u], Home[u])
      BY <2>1 DEF WholeInv, StopsAccount
    <3>2. RankUp(e, i)' => RankUp(e, i)
      BY <2>2, <2>3, <2>4, UpAsItWas
    <3>3. RankUp(e, i)' /\ ~Excused(e, i)' => ~Excused(e, i)
      BY <2>2, <2>4, <3>2, StaysUnexcused DEF Matters
    <3>4. Holds(task[u], Home[u], i)' <=> Holds(task[u], Home[u], i)
      BY <2>1, OthersHold
    <3> QED
      BY <2>2, <2>4, <3>1, <3>2, <3>3, <3>4 DEF StopAccounts, CeremonyTurns
  <2> QED
    BY <2>1, <2>2, <2>3, <2>4 DEF StopAccounts
<1> QED
  BY <1>1, <1>2, <1>3, <1>4 DEF WholeInv

\* The records, when only those of the ceremony's head are written.
LEMMA RecordsTurn ==
  ASSUME LaunchInv, RecordsStandAlone, OneAtATime, OneAtATime',
         NEW t \in Task, CeremonyTurns(t), task[t] # None \/ task'[t] # None,
         \A h \in HeadNode \ {Home[t]} : pending'[h] = pending[h] /\ running'[h] = running[h],
         running'[Home[t]] # None =>
           /\ pending'[Home[t]] = None
           /\ running'[Home[t]].epoch \in Epoch
           /\ issued[running'[Home[t]].epoch] # None
           /\ issued[running'[Home[t]].epoch].head = Home[t],
         task'[t] # None => StandsAlone(task[t], Home[t])'
  PROVE  RecordsStandAlone'
<1>1. ASSUME NEW h \in HeadNode, running'[h] # None
      PROVE  pending'[h] = None /\ issued'[running'[h].epoch].head = h
  <2>1. CASE h = Home[t]
    BY <1>1, <2>1 DEF CeremonyTurns
  <2>2. CASE h # Home[t]
    <3>1. running'[h] = running[h] /\ pending'[h] = pending[h]
      BY <2>2
    <3>2. running[h].epoch \in Epoch /\ issued[running[h].epoch] # None
      BY <1>1, <3>1 DEF LaunchInv, LaunchTypeOK, RecordsFit, Cluster
    <3> QED
      BY <1>1, <3>1, <3>2 DEF RecordsStandAlone, CeremonyTurns
  <2> QED
    BY <2>1, <2>2
<1>2. ASSUME NEW u \in Task, u # t, task'[u] # None
      PROVE  StandsAlone(task[u], Home[u])'
  <2>1. task'[u] = task[u] /\ task[u] # None
    BY <1>2 DEF CeremonyTurns
  <2>2. Home[u] # Home[t]
    BY <1>2, <2>1 DEF OneAtATime
  <2>3. /\ Home[u] \in HeadNode /\ running'[Home[u]] = running[Home[u]]
        /\ pending'[Home[u]] = pending[Home[u]] /\ issued'[task[u].epoch] = issued[task[u].epoch]
    BY <1>2, <2>1, <2>2, TaskFacts, OthersHold
  <2>4. StandsAlone(task[u], Home[u])
    BY <2>1 DEF RecordsStandAlone
  <2> QED
    BY <2>1, <2>3, <2>4 DEF StandsAlone
<1> QED
  BY <1>1, <1>2 DEF RecordsStandAlone

\* Launches not tried stay clean while no request to start one is made.
LEMMA UntriedTurn ==
  ASSUME LaunchInv, UntriedIsClean, NEW t \in Task, CeremonyTurns(t),
         \A e \in Epoch : Untried(e)' => Untried(e) \/ issued[e] = None,
         \A c \in Call : calls'[c] # None /\ calls'[c].op = "commit" =>
           \/ calls'[c] = calls[c]
           \/ calls'[c].epoch \in Epoch /\ ~Untried(calls[c].epoch)'
  PROVE  UntriedIsClean'
<1>1. ASSUME NEW e \in Epoch, ~Untried(e), issued[e] # None
      PROVE  ~Untried(e)'
  BY <1>1
<1>2. ASSUME NEW c \in Call, calls'[c] # None, calls'[c].op = "commit"
      PROVE  ~Untried(calls[c].epoch)'
  <2>1. CASE calls'[c] = calls[c]
    <3>1. PICK e \in Epoch : e = calls[c].epoch /\ issued[e] # None /\ ~Untried(e)
      BY <1>2, <2>1 DEF LaunchInv, RequestsFit, Unanimous, UntriedIsClean
    <3>2. ~Untried(e)'
      BY <1>1, <3>1
    <3> QED
      BY <2>1, <3>1, <3>2 DEF Untried
  <2> QED
    BY <1>2, <2>1
<1>3. ASSUME NEW n \in Node, NEW m \in Name, containers'[n][m] # None
      PROVE  ~Untried(containers[n][m].epoch)'
  <2>1. containers' = containers
    BY DEF CeremonyTurns
  <2>2. PICK e \in Epoch : e = containers[n][m].epoch /\ issued[e] # None /\ ~Untried(e)
    BY <1>3, <2>1 DEF LaunchInv, ContainersFit, Unanimous, UntriedIsClean
  <2>3. ~Untried(e)'
    BY <1>1, <2>2
  <2> QED
    BY <2>1, <2>2, <2>3 DEF Untried
<1> QED
  BY <1>2, <1>3 DEF UntriedIsClean

-----------------------------------------------------------------------------
(* What a ceremony makes of an answer *)

LEMMA OnwardOutcome ==
  ASSUME NEW k \in Ceremony, NEW j, j = Onward(k)
  PROVE  /\ k.stage \in {"ask", "settle", "halt"} \/ k.todo # {} => j = k
         /\ k.stage = "start" /\ k.todo = {} =>
              j # None /\ j.stage = "settle" /\ j.good = k.good
         /\ k.stage = "unstart" /\ k.todo = {} => j = None \/ j.stage = "release"
         /\ k.stage = "watch" /\ k.todo = {} => j = None \/ j.stage = "reread"
         /\ k.stage = "release" /\ k.todo = {} => j = None
<1>1. /\ [k EXCEPT !.stage = "settle", !.todo = k.good] \in Ceremony
      /\ [k EXCEPT !.stage = "settle", !.todo = k.good].stage = "settle"
      /\ [k EXCEPT !.stage = "settle", !.todo = k.good].good = k.good
      /\ [k EXCEPT !.stage = "release", !.todo = Everyone(k.epoch) \ k.good].stage = "release"
      /\ [k EXCEPT !.stage = "reread"].stage = "reread"
  BY DEF Ceremony
<1>2. [k EXCEPT !.stage = "settle", !.todo = k.good] # None
  BY <1>1, LaunchNoneIsFresh
<1>3. CASE k.stage = "start" /\ k.todo = {}
  BY <1>1, <1>2, <1>3 DEF Onward
<1>4. CASE k.stage = "unstart" /\ k.todo = {}
  BY <1>1, <1>4 DEF Onward
<1>5. CASE k.stage = "watch" /\ k.todo = {}
  BY <1>1, <1>5 DEF Onward
<1>6. CASE k.stage = "release" /\ k.todo = {}
  BY <1>6 DEF Onward
<1>7. CASE k.todo # {}
  BY <1>7 DEF Onward
<1>8. CASE k.stage \in {"ask", "settle", "halt"}
  BY <1>8 DEF Onward
<1> QED
  BY <1>3, <1>4, <1>5, <1>6, <1>7, <1>8

\* Ceremony j is what k becomes when it hears that rank i said yes, or did not.
Learned(k, yes, i, j) ==
  /\ k.stage = "start" /\ yes =>
       j # None /\ j.stage \in {"start", "settle"} /\ j.good = k.good \cup {i}
  /\ k.stage = "start" /\ ~yes =>
       \/ (j = None \/ j.stage = "release") /\ k.good = {}
       \/ j # None /\ j.stage = "unstart" /\ j.todo = k.good
  /\ k.stage = "settle" => j # None /\ j.stage = "settle" /\ j.good = k.good
  /\ k.stage = "unstart" =>
       \/ (j = None \/ j.stage = "release") /\ k.todo \ {i} = {}
       \/ j # None /\ j.stage = "unstart" /\ j.todo = k.todo \ {i}
  /\ k.stage = "halt" =>
       /\ j # None /\ j.stage = "halt" /\ j.todo = k.todo \ {i}
       /\ j.bad = IF yes THEN k.bad ELSE k.bad \cup {i}
  /\ k.stage = "ask" =>
       /\ j # None /\ j.stage = "ask"
       /\ j.good = IF yes THEN k.good \cup {i} ELSE k.good
  /\ k.stage = "release" => j = None \/ j.stage = "release"
  /\ k.stage = "watch" => j = None \/ j.stage \in {"watch", "reread"}

LEMMA LearnOutcome ==
  ASSUME NEW k \in Ceremony, NEW yes \in BOOLEAN, NEW i \in Nat, i = Min(k.todo),
         NEW j, j = Learn(k, yes)
  PROVE  Learned(k, yes, i, j)
<1> DEFINE next == [k EXCEPT !.todo = @ \ {i}, !.call = None]
<1>1. /\ next \in Ceremony /\ next.stage = k.stage /\ next.todo = k.todo \ {i}
      /\ next.good = k.good /\ next.bad = k.bad
  BY DEF Ceremony
<1>2. Learn(k, yes) = Onward(
        CASE k.stage \in {"ask", "start"} /\ yes ->
               [next EXCEPT !.good = @ \cup {i}]
          [] k.stage = "start" /\ ~yes ->
               [next EXCEPT !.stage = "unstart", !.todo = k.good]
          [] k.stage \in {"settle", "watch", "halt"} /\ ~yes ->
               [next EXCEPT !.bad = @ \cup {i}]
          [] OTHER -> next)
  BY DEF Learn
<1> HIDE DEF next
<1>3. \A x \in Ceremony : x # None
  BY LaunchNoneIsFresh
<1>4. CASE k.stage \in {"ask", "start"} /\ yes
  <2> DEFINE x == [next EXCEPT !.good = @ \cup {i}]
  <2>1. /\ x \in Ceremony /\ x.stage = k.stage /\ x.todo = next.todo
        /\ x.good = k.good \cup {i}
    BY <1>1 DEF Ceremony
  <2>2. j = Onward(x)
    BY <1>2, <1>4
  <2> HIDE DEF x
  <2>3. CASE k.stage = "start"
    BY <1>3, <1>4, <2>1, <2>2, <2>3, OnwardOutcome DEF Learned
  <2>4. CASE k.stage = "ask"
    <3>1. j = x
      BY <2>1, <2>2, <2>4, OnwardOutcome
    <3> QED
      BY <1>3, <1>4, <2>1, <2>4, <3>1 DEF Learned
  <2> QED
    BY <1>4, <2>3, <2>4
<1>5. CASE k.stage = "start" /\ ~yes
  <2> DEFINE x == [next EXCEPT !.stage = "unstart", !.todo = k.good]
  <2>1. x \in Ceremony /\ x.stage = "unstart" /\ x.todo = k.good
    BY <1>1 DEF Ceremony
  <2>2. j = Onward(x)
    BY <1>2, <1>5
  <2> HIDE DEF x
  <2> QED
    BY <1>3, <1>5, <2>1, <2>2, OnwardOutcome DEF Learned
<1>6. CASE k.stage \in {"settle", "watch", "halt"} /\ ~yes
  <2> DEFINE x == [next EXCEPT !.bad = @ \cup {i}]
  <2>1. /\ x \in Ceremony /\ x.stage = k.stage /\ x.todo = next.todo
        /\ x.good = k.good /\ x.bad = k.bad \cup {i}
    BY <1>1 DEF Ceremony
  <2>2. j = Onward(x)
    BY <1>2, <1>6
  <2> HIDE DEF x
  <2> QED
    BY <1>1, <1>3, <1>6, <2>1, <2>2, OnwardOutcome DEF Learned
<1>7. CASE ~(k.stage \in {"ask", "start"} /\ yes) /\ k.stage # "start"
           /\ ~(k.stage \in {"settle", "watch", "halt"} /\ ~yes)
  <2>1. j = Onward(next)
    BY <1>2, <1>7
  <2> QED
    BY <1>1, <1>3, <1>7, <2>1, OnwardOutcome DEF Learned
<1> QED
  BY <1>4, <1>5, <1>6, <1>7

-----------------------------------------------------------------------------
(* Steps that write no record *)

\* The commit of a launch is what tries it.
LEMMA CommittedIsTried ==
  ASSUME LaunchInv, NEW t \in Task, task[t] # None, task[t].op = "commit"
  PROVE  ~Untried(task[t].epoch)
<1>1. \A u \in Task : task[u] # None /\ task[u].op \in {"prepare", "abort"}
                        => u # t /\ task[u].op \in Taking
  BY DEF Taking
<1>2. task[t].op \in Taking
  BY DEF Taking
<1> QED
  BY <1>1, <1>2 DEF Untried, LaunchInv, InOneHand

LEMMA TurnKeepsWhole ==
  ASSUME LaunchInv, LaunchTypeOK', WholeInv, OneAtATime, OneAtATime',
         NEW t \in Task, task[t] # None, CeremonyTurns(t),
         pending' = pending, running' = running, issued' = issued,
         task'[t] # None =>
           /\ task'[t].op = task[t].op /\ task'[t].epoch = task[t].epoch
           /\ task'[t].stage \in {"start", "settle"} => task[t].stage \in {"start", "settle"}
           /\ task'[t].stage \in {"watch", "reread", "halt", "clear"}
                => task[t].stage \in {"watch", "reread", "halt"},
         \A c \in Call : calls'[c] # None /\ calls'[c].op = "commit" =>
           calls'[c] = calls[c] \/ (task[t].op = "commit" /\ calls'[c].epoch = task[t].epoch),
         CommitsPassOn(t), CeremonyPassesOn(t), StopPassesOn(t)
  PROVE  WholeInv'
<1>1. \A u \in Task : task'[u] # None =>
         task[u] # None /\ task'[u].op = task[u].op /\ task'[u].epoch = task[u].epoch
  BY DEF CeremonyTurns
<1>2. \A e \in Epoch : Untried(e)' => Untried(e)
  BY <1>1 DEF Untried
<1>3. NewlyLive
  <2>1. \A u \in Task : task'[u] # None /\ task'[u].stage \in {"start", "settle"}
          => task[u].stage \in {"start", "settle"}
    BY DEF CeremonyTurns
  <2> QED
    BY <1>1, <2>1 DEF NewlyLive, Live
<1>4. RecordsStandAlone'
  <2>1. task'[t] # None => StandsAlone(task[t], Home[t])'
    <3>1. StandsAlone(task[t], Home[t])
      BY DEF WholeInv, RecordsStandAlone
    <3> QED
      BY <3>1 DEF StandsAlone
  <2>2. running[Home[t]] # None =>
           /\ pending[Home[t]] = None
           /\ running[Home[t]].epoch \in Epoch
           /\ issued[running[Home[t]].epoch] # None
           /\ issued[running[Home[t]].epoch].head = Home[t]
    BY TaskFacts DEF WholeInv, RecordsStandAlone, LaunchInv, LaunchTypeOK, RecordsFit, Cluster
  <2> QED
    BY <2>1, <2>2, RecordsTurn DEF WholeInv
<1>5. UntriedIsClean'
  <2>1. ASSUME NEW c \in Call, calls'[c] # None, calls'[c].op = "commit", calls'[c] # calls[c]
        PROVE  calls'[c].epoch \in Epoch /\ ~Untried(calls[c].epoch)'
    <3>1. task[t].op = "commit" /\ calls'[c].epoch = task[t].epoch
      BY <2>1
    <3>2. PICK e \in Epoch : e = task[t].epoch
      BY TaskFacts
    <3>3. ~Untried(e)'
      BY <1>2, <3>1, <3>2, CommittedIsTried
    <3> QED
      BY <3>1, <3>2, <3>3 DEF Untried
  <2> QED
    BY <1>2, <2>1, UntriedTurn DEF WholeInv
<1>6. RecordsPassOn
  BY DEF RecordsPassOn
<1> QED
  BY <1>3, <1>4, <1>5, <1>6, CeremonyKeepsWhole

\* A launch whose ceremony has turned back is live no more.
LEMMA NotLiveNext ==
  ASSUME LaunchInv, RecordsStandAlone, OneAtATime, NEW t \in Task, CeremonyTurns(t),
         task[t] # None, task[t].op \in Taking, running' = running,
         task'[t] = None \/ task'[t].stage \notin {"start", "settle"},
         NEW e \in Epoch, e = task[t].epoch
  PROVE  ~Live(e)'
<1>1. \A u \in Task : u # t /\ task'[u] # None => task'[u] = task[u] /\ task[u].epoch # e
  BY OneCeremonyOfALaunch DEF CeremonyTurns
<1>2. \A h \in HeadNode : running[h] # None => running[h].epoch # e
  BY LaunchingIsNotOnRecord
<1> QED
  BY <1>1, <1>2 DEF Live

\* What the ceremony of t hears, or goes without: all that is said of it here is
\* that it takes no answer for more than it is, and doubts a machine it gives up.
Learns(t, yes) ==
  /\ task[t] # None /\ task[t].todo # {}
  /\ task' = [task EXCEPT ![t] = Learn(task[t], yes)]
  /\ Learn(task[t], yes) = None \/ Continues(Learn(task[t], yes), task[t])
  /\ UNCHANGED <<containers, pending, running, issued>>
  /\ doubtful \subseteq doubtful'
  /\ \A c \in Call : calls'[c] # None => calls'[c] = calls[c]
  /\ \A u \in Task : u # t /\ task[u] # None /\ task[u].call # None
                       => calls'[task[u].call] = calls[task[u].call]
  /\ task[t].stage = "start" =>
       /\ \A c \in Call : task[t].call = c /\ Undone(c)' => ~yes /\ Asked(t) \in doubtful'
       /\ ~yes /\ Asked(t) \notin doubtful'
            => task[t].call = None \/ calls[task[t].call].reply # "yes"
  /\ task[t].stage \in {"unstart", "halt"} /\ yes
       => HeardStop(task[t], Home[t], Min(task[t].todo))
  /\ ~yes /\ Forgets(task[t]) => Asked(t) \in doubtful'

LEMMA LearnTurns ==
  ASSUME LaunchInv, NEW t \in Task, NEW yes \in BOOLEAN, Learns(t, yes)
  PROVE  CeremonyTurns(t)
  BY DEF LaunchInv, LaunchTypeOK, Learns, CeremonyTurns

\* What a commit held before it heard of a rank is accounted for after.
LEMMA LearnPassesOn ==
  ASSUME LaunchInv, LaunchTypeOK', WholeInv, OneAtATime,
         NEW t \in Task, NEW yes \in BOOLEAN, Learns(t, yes)
  PROVE  CeremonyPassesOn(t)
<1> SUFFICES ASSUME NEW e \in Epoch, NEW i \in Nat, task[t].op = "commit", task[t].epoch = e,
                    Matters(e, i), Holds(task[t], Home[t], i)
             PROVE  Accounted(e, i)'
  BY DEF CeremonyPassesOn
<1>1. CeremonyTurns(t) /\ task[t] # None /\ task[t].todo # {}
  BY LearnTurns DEF Learns
<1>2. PICK k \in Ceremony : k = task[t] /\ k.op = "commit" /\ k.epoch = e /\ Fits(k, Home[t])
  BY <1>1, TaskFacts
<1>3. PICK j : j = Learn(k, yes) /\ task'[t] = j /\ (j = None \/ Continues(j, k))
  BY <1>2 DEF Learns, LaunchInv, LaunchTypeOK
<1>4. PICK i0 \in Nat : i0 = Min(k.todo) /\ Asked(t) = Ranks(e)[i0]
  BY <1>1, <1>2, AskedFacts DEF Asked
<1>5. issued' = issued /\ Ranks(e)' = Ranks(e)
  BY DEF Learns, Ranks
<1>5a. Learned(k, yes, i0, j)
  BY <1>3, <1>4, LearnOutcome
<1>6. ASSUME j # None, j.stage = "unstart", i \in j.todo
      PROVE  Accounted(e, i)'
    <2>1. Holds(task[t], Home[t], i)'
      BY <1>2, <1>3, <1>6 DEF Holds, HeardStop, Continues
    <2> QED
      BY <1>2, <1>3, <1>6, <2>1 DEF Accounted, Continues
<1>7. ASSUME j # None, j.stage \in {"start", "settle"}, i \in j.good
      PROVE  Accounted(e, i)'
    <2>1. Holds(task[t], Home[t], i)'
      BY <1>3, <1>7 DEF Holds
    <2> QED
      BY <1>2, <1>3, <1>7, <2>1 DEF Accounted, Continues
<1>8. ASSUME j = None \/ j.stage \notin {"start", "settle"}, i = i0
      PROVE  Asked(t) \notin doubtful'
  <2>1. ~Live(e)'
    BY <1>1, <1>2, <1>3, <1>8, NotLiveNext DEF WholeInv, Taking, Learns
  <2> QED
    BY <1>4, <1>5, <1>8, <2>1 DEF Matters, Excused
<1>9. CASE k.stage = "start" /\ yes
  BY <1>2, <1>3, <1>4, <1>7, <1>5a, <1>9 DEF Holds, Learned
<1>10. CASE k.stage = "start" /\ ~yes
  <2>1. j = None \/ j.stage \notin {"start", "settle"}
    BY <1>3, <1>4, <1>5a, <1>10 DEF Learned
  <2>2. i \in k.good
    BY <1>2, <1>4, <1>8, <1>10, <2>1 DEF Holds, Learns
  <2> QED
    BY <1>3, <1>4, <1>6, <1>5a, <1>10, <2>2 DEF Learned
<1>11. CASE k.stage = "settle"
  BY <1>2, <1>3, <1>4, <1>7, <1>5a, <1>11 DEF Holds, Learned
<1>12. CASE k.stage = "unstart"
  <2>1. i \in k.todo /\ ~HeardStop(k, Home[t], i)
    BY <1>2, <1>12 DEF Holds
  <2>2. j = None \/ j.stage \notin {"start", "settle"}
    BY <1>3, <1>4, <1>5a, <1>12 DEF Learned
  <2>3. CASE i = i0
    <3>1. ~yes
      BY <1>2, <1>4, <1>12, <2>1, <2>3 DEF Learns
    <3>2. Asked(t) \in doubtful'
      BY <1>2, <1>12, <3>1 DEF Learns, Forgets
    <3> QED
      BY <1>8, <2>2, <2>3, <3>2
  <2>4. CASE i # i0
    <3>1. j # None /\ j.stage = "unstart" /\ j.todo = k.todo \ {i0}
      BY <1>3, <1>4, <1>12, <1>5a, <2>1, <2>4 DEF Learned
    <3> QED
      BY <1>6, <2>1, <2>4, <3>1
  <2> QED
    BY <2>3, <2>4
<1>13. k.stage \in {"start", "settle", "unstart"}
  BY <1>2 DEF Holds, Fits
<1> QED
  BY <1>9, <1>10, <1>11, <1>12, <1>13

LEMMA NothingNewlyLive ==
  ASSUME NEW t \in Task, CeremonyTurns(t), running' = running,
         task'[t] # None /\ task'[t].stage \in {"start", "settle"} =>
           /\ task[t] # None /\ task[t].stage \in {"start", "settle"}
           /\ task'[t].epoch = task[t].epoch
  PROVE  NewlyLive
<1>1. \A u \in Task : task'[u] # None /\ task'[u].stage \in {"start", "settle"}
        => task[u] # None /\ task[u].stage \in {"start", "settle"}
           /\ task'[u].epoch = task[u].epoch
  BY DEF CeremonyTurns
<1> QED
  BY <1>1 DEF NewlyLive, Live

LEMMA LearnKeepsWhole ==
  ASSUME LaunchInv, LaunchTypeOK', WholeInv, OneAtATime, OneAtATime',
         NEW t \in Task, NEW yes \in BOOLEAN, Learns(t, yes)
  PROVE  WholeInv'
<1>1. CeremonyTurns(t) /\ task[t] # None /\ task[t].todo # {} /\ running' = running
      /\ issued' = issued /\ pending' = pending
  BY LearnTurns DEF Learns
<1>2. PICK k \in Ceremony : k = task[t] /\ Fits(k, Home[t])
  BY <1>1, TaskFacts
<1>3. PICK j : j = Learn(k, yes) /\ task'[t] = j /\ (j = None \/ Continues(j, k))
  BY <1>2 DEF Learns, LaunchInv, LaunchTypeOK
<1>4. PICK e \in Epoch : e = k.epoch /\ issued[e] # None
  BY <1>1, <1>2, TaskFacts
<1>5. PICK i0 \in Nat : i0 = Min(k.todo) /\ Asked(t) = Ranks(e)[i0]
  BY <1>1, <1>2, <1>4, AskedFacts DEF Asked
<1>6. Learned(k, yes, i0, j)
  BY <1>3, <1>5, LearnOutcome
<1>7. k.stage \in {"ask", "start", "settle", "unstart", "release", "watch", "halt"}
  BY <1>1, <1>2, AskedFacts
<1>8. j # None => /\ j.stage \in {"start", "settle"} => k.stage \in {"start", "settle"}
                  /\ j.stage = "halt" => k.stage = "halt"
                  /\ j.stage \in {"watch", "reread", "halt", "clear"} => k.stage \in {"watch", "halt"}
                  /\ j.stage # "clear"
  BY <1>6, <1>7 DEF Learned
<1>9. NewlyLive
  BY <1>1, <1>2, <1>3, <1>8, NothingNewlyLive DEF Continues
<1>10. Ranks(e)' = Ranks(e) /\ Everyone(e)' = Everyone(e)
  BY <1>1 DEF Ranks, Everyone
<1>11. StopPassesOn(t)
  <2> SUFFICES ASSUME j # None PROVE StopAccounts(task[t], Home[t])'
    BY <1>3 DEF StopPassesOn
  <2>1. ASSUME NEW i \in Everyone(e), j.stage = "halt"
        PROVE  /\ RankUp(e, i)' /\ ~Excused(e, i)' => Holds(task[t], Home[t], i)'
               /\ j.op = "supervise" /\ i \in j.bad => Ranks(e)[i] \in doubtful'
    <3>1. /\ k.stage = "halt" /\ j.todo = k.todo \ {i0} /\ k.op = j.op /\ j.call = None
          /\ j.bad = IF yes THEN k.bad ELSE k.bad \cup {i0}
      BY <1>3, <1>6, <1>8, <2>1 DEF Learned, Continues
    <3>2. StopAccounts(k, Home[t])
      BY <1>1, <1>2 DEF WholeInv, StopsAccount
    <3>3. yes => HeardStop(k, Home[t], i0)
      BY <1>2, <1>5, <3>1 DEF Learns
    <3>4. ASSUME RankUp(e, i)', ~Excused(e, i)'
          PROVE  Holds(task[t], Home[t], i)'
      <4>1. Matters(e, i)
        BY <1>1, <1>4, <1>10, <2>1, <3>4, UpAsItWas DEF Matters
      <4>2. Holds(k, Home[t], i)
        BY <1>1, <1>4, <1>9, <2>1, <3>1, <3>2, <4>1, StaysUnexcused DEF StopAccounts, Matters
      <4>3. (i \in k.todo /\ ~HeardStop(k, Home[t], i)) \/ i \in k.bad
        BY <3>1, <4>2 DEF Holds
      <4>4. i \in j.todo \/ i \in j.bad
        BY <3>1, <3>3, <4>3
      <4> QED
        BY <1>3, <2>1, <3>1, <4>4 DEF Holds, HeardStop
    <3>5. ASSUME j.op = "supervise", i \in j.bad
          PROVE  Ranks(e)[i] \in doubtful'
      <4>1. CASE i \in k.bad
        BY <1>1, <1>4, <2>1, <3>1, <3>2, <3>5, <4>1 DEF StopAccounts, CeremonyTurns
      <4>2. CASE i \notin k.bad
        BY <1>2, <1>5, <3>1, <3>5, <4>2 DEF Learns, Forgets
      <4> QED
        BY <4>1, <4>2
    <3> QED
      BY <3>4, <3>5
  <2> QED
    BY <1>3, <1>4, <1>8, <1>10, <2>1 DEF StopAccounts, Continues
<1>12. CommitsPassOn(t)
  <2> SUFFICES ASSUME NEW c \in Call, Undone(c)',
                      k.stage = "start", k.call = c
               PROVE  calls'[c].node \in doubtful' /\ ~Live(calls[c].epoch)'
    BY <1>2 DEF CommitsPassOn, Undone, Learns
  <2>1. calls'[c] = calls[c] /\ c # None
    BY LaunchNoneIsFresh DEF Undone, Learns
  <2>2. ~yes /\ Asked(t) \in doubtful'
    BY <1>2, <2>1 DEF Learns
  <2>3. calls[c].node = Ranks(e)[i0] /\ calls[c].epoch = e
    BY <1>1, <1>2, <1>4, <1>5, <2>1, TaskFacts DEF CallFits, RankOp, Taking
  <2>4. task'[t] = None \/ task'[t].stage \notin {"start", "settle"}
    BY <1>3, <1>6, <2>2 DEF Learned
  <2>5. task[t].op \in Taking
    BY <1>2 DEF Fits, Taking
  <2>6. ~Live(e)'
    BY <1>1, <1>2, <1>4, <2>4, <2>5, NotLiveNext DEF WholeInv
  <2> QED
    BY <1>5, <2>1, <2>2, <2>3, <2>6 DEF Live
<1>13. CeremonyPassesOn(t)
  BY LearnPassesOn
<1>14. \A c \in Call : calls'[c] # None => calls'[c] = calls[c]
  BY DEF Learns
<1> QED
  BY <1>1, <1>2, <1>3, <1>8, <1>11, <1>12, <1>13, <1>14, TurnKeepsWhole DEF Continues

LEMMA AnswerKeepsWhole ==
  ASSUME LaunchInv, LaunchTypeOK', WholeInv, OneAtATime, OneAtATime',
         NEW t \in Task, Answer(t)
  PROVE  WholeInv'
<1>1. /\ task[t] # None /\ task[t].todo # {} /\ task[t].call # None /\ TypeOK
      /\ UNCHANGED <<pending, running, issued>>
  BY TaskFacts DEF Answer, Waiting, Fits, LaunchInv, LaunchTypeOK
<1>2. Collect(task[t].call) /\ task[t].call \in Call
  BY <1>1, TaskFacts DEF Answer, Ceremony
<1>3. PICK yes \in BOOLEAN : yes = Heard(t)
  BY DEF Heard
<1>4. Learn(task[t], yes) = None \/ Continues(Learn(task[t], yes), task[t])
  <2>1. task[t].stage = "ask" /\ yes => Min(task[t].todo) \in Agreeing[task[t].epoch]
    BY <1>3, YesToPrepare DEF Answer
  <2> QED
    BY <1>1, <2>1, LearnStep DEF Continues
<1>5. /\ \A c \in Call : c # task[t].call => calls'[c] = calls[c]
      /\ calls'[task[t].call] = None
      /\ containers' = containers
  BY <1>1, <1>2 DEF Collect, TypeOK
<1>6. ASSUME NEW u \in Task, u # t, task[u] # None, task[u].call # None
      PROVE  calls'[task[u].call] = calls[task[u].call]
  <2>1. task[u].call # task[t].call /\ task[u].call \in Call
    BY <1>1, <1>6, TaskFacts DEF LaunchInv, NoSharedCall, Ceremony
  <2> QED
    BY <1>5, <2>1
<1>7. /\ task[t].stage = "start" =>
           /\ \A c \in Call : task[t].call = c => ~Undone(c)'
           /\ ~yes => calls[task[t].call].reply # "yes"
      /\ task[t].stage \in {"unstart", "halt"} /\ yes
           => HeardStop(task[t], Home[t], Min(task[t].todo))
  BY <1>1, <1>3, <1>5 DEF Undone, Heard, HeardStop, IsRemote, Asked
<1>8. /\ task' = [task EXCEPT ![t] = Learn(task[t], yes)]
      /\ doubtful \subseteq doubtful'
      /\ ~yes /\ Forgets(task[t]) => Asked(t) \in doubtful'
  BY <1>3 DEF Answer
<1>9. Learns(t, yes)
  BY <1>1, <1>4, <1>5, <1>6, <1>7, <1>8 DEF Learns
<1> QED
  BY <1>9, LearnKeepsWhole

LEMMA NoAnswerKeepsWhole ==
  ASSUME LaunchInv, LaunchTypeOK', WholeInv, OneAtATime, OneAtATime',
         NEW t \in Task, Unreachable(t) \/ GiveUp(t)
  PROVE  WholeInv'
<1>1. /\ task[t] # None /\ task[t].todo # {}
      /\ UNCHANGED <<calls, containers, pending, running, issued>>
  BY TaskFacts DEF Unreachable, GiveUp, ToAsk, Waiting, Fits, rankVars
<1>2. PICK yes \in BOOLEAN : yes = FALSE
  OBVIOUS
<1>3. Learn(task[t], yes) = None \/ Continues(Learn(task[t], yes), task[t])
  BY <1>1, <1>2, LearnStep DEF Continues
<1>4. /\ task' = [task EXCEPT ![t] = Learn(task[t], yes)]
      /\ doubtful \subseteq doubtful'
      /\ Forgets(task[t]) => Asked(t) \in doubtful'
  BY <1>2 DEF Unreachable, GiveUp
<1>5. task[t].stage = "start" => task[t].call = None \/ Asked(t) \in doubtful'
  BY DEF Unreachable, GiveUp, ToAsk
<1>6. \A c \in Call : c # None
  BY LaunchNoneIsFresh
<1>7. Learns(t, yes)
  BY <1>1, <1>2, <1>3, <1>4, <1>5, <1>6 DEF Learns
<1> QED
  BY <1>7, LearnKeepsWhole

LEMMA AskKeepsWhole ==
  ASSUME LaunchInv, LaunchTypeOK', WholeInv, OneAtATime, OneAtATime',
         NEW t \in Task, Ask(t)
  PROVE  WholeInv'
<1>1. /\ task[t] # None /\ task[t].todo # {} /\ task[t].call = None /\ TypeOK
      /\ UNCHANGED <<containers, pending, running, issued, doubtful>>
  BY DEF Ask, ToAsk, Request, LaunchInv, LaunchTypeOK
<1> DEFINE op == RankOp(task[t].stage)
           x == IF op \in {"prepare", "commit", "abort"} THEN task[t].epoch ELSE None
           m == IF op \in {"prepare", "alive", "stop"}
                THEN ContainerOf(task[t].epoch, Min(task[t].todo)) ELSE None
           r == [op |-> op, node |-> Asked(t), epoch |-> x, name |-> m,
                 at |-> "start", grant |-> 0, reply |-> "none"]
<1>2. PICK c \in Call : /\ calls[c] = None
                        /\ Request(c, op, Asked(t), x, m)
                        /\ task' = [task EXCEPT ![t] = [@ EXCEPT !.call = c]]
  BY DEF Ask
<1>3. calls' = [calls EXCEPT ![c] = r]
  BY <1>2 DEF Request
<1>4. r.op = op /\ r.reply = "none" /\ (op = "commit" => r.epoch = task[t].epoch)
  OBVIOUS
<1>5. op = "commit" => task[t].stage = "start" /\ task[t].op = "commit"
  <2>1. task[t].stage \in {"ask", "start", "settle", "unstart", "release", "watch", "halt"}
    BY <1>1, AskedFacts
  <2> QED
    BY <1>1, <2>1, RankOpTyped, TaskFacts DEF Fits
<1> HIDE DEF op, x, m, r
<1>6. calls'[c] = r /\ \A d \in Call : d # c => calls'[d] = calls[d]
  BY <1>1, <1>3 DEF TypeOK
<1>7. PICK k \in Ceremony : k = task[t]
  BY <1>1, TaskFacts
<1>8. PICK j \in Ceremony :
        /\ j = [k EXCEPT !.call = c] /\ j.call = c /\ c # None /\ j # None
        /\ j.op = k.op /\ j.stage = k.stage /\ j.epoch = k.epoch
        /\ j.todo = k.todo /\ j.good = k.good /\ j.bad = k.bad
  <2> DEFINE j == [k EXCEPT !.call = c]
  <2>1. /\ j \in Ceremony /\ j.call = c
        /\ j.op = k.op /\ j.stage = k.stage /\ j.epoch = k.epoch
        /\ j.todo = k.todo /\ j.good = k.good /\ j.bad = k.bad
    BY DEF Ceremony
  <2>2. c # None /\ j # None
    BY <2>1, LaunchNoneIsFresh
  <2> QED
    BY <2>1, <2>2
<1>9. task'[t] = j /\ \A u \in Task : u # t => task'[u] = task[u]
  BY <1>2, <1>7, <1>8 DEF LaunchInv, LaunchTypeOK
<1>10. \A u \in Task : task[u] # None /\ task[u].call # None =>
         task[u].call \in Call /\ task[u].call # c
  BY <1>2, TaskFacts DEF CallFits, Ceremony
<1>11. CeremonyTurns(t)
  BY <1>1, <1>2, <1>4, <1>6, <1>9, <1>10 DEF CeremonyTurns
<1>12. PICK e \in Epoch : e = k.epoch /\ issued[e] # None
  BY <1>1, <1>7, TaskFacts
<1>13. \A i : Holds(k, Home[t], i) => Holds(task[t], Home[t], i)'
  BY <1>1, <1>4, <1>6, <1>7, <1>8, <1>9 DEF Holds, HeardStop
<1>14. NewlyLive
  BY <1>1, <1>7, <1>8, <1>9, <1>11, NothingNewlyLive
<1>15. CeremonyPassesOn(t)
  <2> SUFFICES ASSUME NEW y \in Epoch, NEW i \in Nat, k.op = "commit", k.epoch = y,
                      Holds(k, Home[t], i)
               PROVE  Accounted(y, i)'
    BY <1>7 DEF CeremonyPassesOn
  <2>1. Holds(task[t], Home[t], i)'
    BY <1>13
  <2> QED
    BY <1>8, <1>9, <2>1 DEF Accounted
<1>16. CommitsPassOn(t)
  <2>1. WaitedFor(c)' \/ ~Undone(c)'
    BY <1>4, <1>5, <1>6, <1>7, <1>8, <1>9 DEF WaitedFor, Undone
  <2>2. \A d \in Call : d # c => (Undone(d)' => Undone(d)) /\ d # None
    BY <1>6, LaunchNoneIsFresh DEF Undone
  <2> QED
    BY <1>1, <1>6, <2>1, <2>2 DEF CommitsPassOn
<1>17. StopPassesOn(t)
  <2>0. Ranks(e)' = Ranks(e) /\ Everyone(e)' = Everyone(e)
    BY <1>1 DEF Ranks, Everyone
  <2>1. StopAccounts(k, Home[t])
    BY <1>1, <1>7 DEF WholeInv, StopsAccount
  <2>2. ASSUME NEW i \in Everyone(e), RankUp(e, i)'
        PROVE  RankUp(e, i) /\ (~Excused(e, i)' => ~Excused(e, i))
    BY <1>1, <1>11, <1>12, <1>14, <2>0, <2>2, UpAsItWas, StaysUnexcused DEF Matters
  <2>3. ASSUME NEW i \in Everyone(e)
        PROVE  /\ j.stage = "halt" /\ RankUp(e, i)' /\ ~Excused(e, i)'
                    => Holds(task[t], Home[t], i)'
               /\ j.stage = "halt" /\ j.op = "supervise" /\ i \in j.bad
                    => Ranks(e)[i] \in doubtful'
               /\ j.stage = "clear" /\ RankUp(e, i)' => Ranks(e)[i] \in doubtful'
    BY <1>1, <1>8, <1>12, <1>13, <2>1, <2>2, <2>3 DEF StopAccounts
  <2> QED
    BY <1>8, <1>9, <1>12, <2>0, <2>3 DEF StopPassesOn, StopAccounts
<1>18. \A d \in Call : calls'[d] # None /\ calls'[d].op = "commit" =>
         calls'[d] = calls[d] \/ (task[t].op = "commit" /\ calls'[d].epoch = task[t].epoch)
  BY <1>4, <1>5, <1>6
<1>19. k.stage # "clear"
  <2>1. k.stage \in {"ask", "start", "settle", "unstart", "release", "watch", "halt"}
    BY <1>1, <1>7, AskedFacts
  <2> QED
    BY <2>1
<1>20. /\ task'[t].op = task[t].op /\ task'[t].epoch = task[t].epoch
       /\ task'[t].stage \in {"start", "settle"} => task[t].stage \in {"start", "settle"}
       /\ task'[t].stage \in {"watch", "reread", "halt", "clear"}
            => task[t].stage \in {"watch", "reread", "halt"}
  BY <1>7, <1>8, <1>9, <1>19
<1> QED
  BY <1>1, <1>11, <1>15, <1>16, <1>17, <1>18, <1>20, TurnKeepsWhole

-----------------------------------------------------------------------------
(* The ends of stages, which ask nobody *)

\* Nothing happens at any rank.
LEMMA StageTurns ==
  ASSUME LaunchTypeOK, NEW t \in Task, NEW j, task' = [task EXCEPT ![t] = j],
         UNCHANGED <<calls, containers, doubtful>>,
         \A e \in Epoch : issued[e] # None => issued'[e] = issued[e]
  PROVE  /\ CeremonyTurns(t) /\ task'[t] = j
         /\ task[t] = None \/ task[t].stage # "start" => CommitsPassOn(t)
<1>1. task'[t] = j /\ \A u \in Task : u # t => task'[u] = task[u]
  BY DEF LaunchTypeOK
<1>2. CeremonyTurns(t)
  BY <1>1 DEF CeremonyTurns
<1> QED
  BY <1>1, <1>2 DEF CommitsPassOn, Undone

\* What is up of a cluster on record is in the record, unless its head is excused.
LEMMA OnRecordIsAccounted ==
  ASSUME LaunchInv, WholeInv, NEW h \in HeadNode, running[h] # None,
         NEW e \in Epoch, e = running[h].epoch, NEW i \in Everyone(e),
         RankUp(e, i), ~Excused(e, i)
  PROVE  i \in running[h].started
<1>1. issued[e] # None /\ Accounted(e, i)
  BY DEF LaunchInv, RecordsFit, WholeInv, UpIsAccounted
<1>2. \A t \in Task : ~(task[t] # None /\ task[t].op = "commit" /\ task[t].epoch = e)
  BY LaunchingIsNotOnRecord DEF WholeInv, Taking
<1>3. \A g \in HeadNode : running[g] # None /\ running[g].epoch = e => g = h
  BY DEF WholeInv, RecordsStandAlone
<1> QED
  BY <1>1, <1>2, <1>3 DEF Accounted

\* A ceremony that takes up the record, to stop what it names.
LEMMA HaltTakesAll ==
  ASSUME LaunchInv, LaunchTypeOK', WholeInv, NEW t \in Task, CeremonyTurns(t), NewlyLive,
         running' = running, running[Home[t]] # None,
         task'[t] # None, task'[t].stage = "halt", task'[t].call = None, task'[t].bad = {},
         task'[t].epoch = running[Home[t]].epoch,
         task'[t].todo = running[Home[t]].started
  PROVE  StopPassesOn(t)
<1>1. Home[t] \in HeadNode
  BY LaunchAssumption
<1>2. PICK e \in Epoch : e = running[Home[t]].epoch /\ issued[e] # None /\ issued'[e] = issued[e]
  BY <1>1 DEF LaunchInv, LaunchTypeOK, RecordsFit, Cluster, CeremonyTurns
<1>3. Everyone(e)' = Everyone(e)
  BY <1>2 DEF Everyone, Ranks
<1>4. ASSUME NEW i \in Everyone(e), RankUp(e, i)', ~Excused(e, i)'
      PROVE  Holds(task[t], Home[t], i)'
  <2>1. Matters(e, i)
    BY <1>2, <1>3, <1>4, UpAsItWas DEF Matters
  <2>2. i \in running[Home[t]].started
    BY <1>1, <1>2, <2>1, StaysUnexcused, OnRecordIsAccounted DEF Matters
  <2> QED
    BY <2>2 DEF Holds, HeardStop
<1> QED
  BY <1>2, <1>3, <1>4 DEF StopPassesOn, StopAccounts

LEMMA EndPrepareKeepsWhole ==
  ASSUME LaunchInv, LaunchTypeOK', WholeInv, OneAtATime, OneAtATime',
         NEW t \in Task, EndPrepare(t)
  PROVE  WholeInv'
<1>1. /\ task[t] # None /\ task[t].stage = "ask" /\ LaunchTypeOK
      /\ UNCHANGED <<calls, containers, running, issued, doubtful>>
  BY DEF EndPrepare, StageOver, At, rankVars, LaunchInv
<1>2. PICK k \in Ceremony : k = task[t] /\ k.op = "prepare" /\ Fits(k, Home[t])
  BY <1>1, TaskFacts DEF Fits
<1>3. CeremonyPassesOn(t)
  BY <1>2 DEF CeremonyPassesOn
<1>4. CASE pending' = [pending EXCEPT ![Home[t]] = k.epoch] /\ Return(t)
  <2>1. CeremonyTurns(t) /\ task'[t] = None /\ CommitsPassOn(t)
    BY <1>1, <1>4, StageTurns DEF Return
  <2>2. running[Home[t]] = None /\ Home[t] \in HeadNode
    BY <1>1, <1>2, TaskFacts DEF WholeInv, RecordsStandAlone, StandsAlone, Taking
  <2>3. RecordsStandAlone'
    BY <1>1, <1>4, <2>1, <2>2, RecordsTurn DEF WholeInv
  <2>4. \A e \in Epoch : Untried(e)' => Untried(e)
    BY <1>1, <1>2, <1>4, <2>1 DEF Untried, CeremonyTurns, LaunchTypeOK
  <2>5. UntriedIsClean'
    BY <1>1, <2>1, <2>4, UntriedTurn DEF WholeInv
  <2>6. NewlyLive
    BY <1>1, <2>1, NothingNewlyLive
  <2>7. RecordsPassOn /\ StopPassesOn(t)
    BY <1>1, <2>1 DEF RecordsPassOn, StopPassesOn
  <2> QED
    BY <1>3, <2>1, <2>3, <2>5, <2>6, <2>7, CeremonyKeepsWhole
<1>5. CASE /\ task' = [task EXCEPT ![t] =
                         Onward([k EXCEPT !.stage = "release", !.todo = k.good])]
           /\ UNCHANGED pending
  <2> DEFINE x == [k EXCEPT !.stage = "release", !.todo = k.good]
  <2>1. x \in Ceremony /\ x.stage = "release" /\ x.op = k.op /\ x.epoch = k.epoch
    BY DEF Ceremony
  <2>2. PICK j : j = Onward(x)
    OBVIOUS
  <2>3. task' = [task EXCEPT ![t] = j]
    BY <1>5, <2>2
  <2> HIDE DEF x
  <2>4. CeremonyTurns(t) /\ task'[t] = j /\ CommitsPassOn(t)
    BY <1>1, <2>3, StageTurns
  <2>5. j = None \/ j = x
    BY <2>1, <2>2, OnwardOutcome
  <2>6. StopPassesOn(t)
    BY <2>1, <2>4, <2>5 DEF StopPassesOn, StopAccounts
  <2>7. task'[t] # None => /\ task'[t].op = task[t].op /\ task'[t].epoch = task[t].epoch
                           /\ task'[t].stage = "release"
    BY <1>2, <2>1, <2>4, <2>5
  <2> QED
    BY <1>1, <1>3, <1>5, <2>4, <2>6, <2>7, TurnKeepsWhole
<1> QED
  BY <1>2, <1>4, <1>5 DEF EndPrepare, Mine

LEMMA EndCommitKeepsWhole ==
  ASSUME LaunchInv, LaunchTypeOK', WholeInv, OneAtATime, OneAtATime',
         NEW t \in Task, EndCommit(t)
  PROVE  WholeInv'
<1>1. /\ task[t] # None /\ task[t].stage = "settle" /\ LaunchTypeOK
      /\ UNCHANGED <<calls, containers, pending, issued, doubtful>>
  BY DEF EndCommit, StageOver, At, rankVars, LaunchInv
<1>2. PICK k \in Ceremony : /\ k = task[t] /\ k.op = "commit" /\ k.call = None
                            /\ Fits(k, Home[t])
  BY <1>1, TaskFacts DEF Fits, EndCommit, StageOver
<1>3. PICK e \in Epoch : e = k.epoch /\ issued[e] # None /\ issued[e].head = Home[t]
  BY <1>1, <1>2, TaskFacts DEF Fits, Taking
<1>4. Home[t] \in HeadNode /\ running[Home[t]] = None /\ pending[Home[t]] = None
  BY <1>1, <1>2, TaskFacts DEF WholeInv, RecordsStandAlone, StandsAlone, Taking
<1>5. CASE /\ running' = [running EXCEPT ![Home[t]] = [epoch |-> e, started |-> k.good]]
           /\ Return(t)
  <2>1. CeremonyTurns(t) /\ task'[t] = None /\ CommitsPassOn(t)
    BY <1>1, <1>5, StageTurns DEF Return
  <2> DEFINE r == [epoch |-> e, started |-> k.good]
  <2>2. r \in Cluster /\ r.epoch = e /\ r.started = k.good
    BY DEF Cluster, Ceremony
  <2>3. /\ running'[Home[t]] = r /\ r # None
        /\ \A h \in HeadNode : h # Home[t] => running'[h] = running[h]
    BY <1>1, <1>4, <1>5, <2>2, LaunchNoneIsFresh DEF LaunchTypeOK
  <2> HIDE DEF r
  <2>4. RecordsStandAlone'
    BY <1>1, <1>3, <1>4, <2>1, <2>2, <2>3, RecordsTurn DEF WholeInv
  <2>5. \A x \in Epoch : Untried(x)' => Untried(x)
    BY <1>1, <2>1 DEF Untried, CeremonyTurns
  <2>6. UntriedIsClean'
    BY <1>1, <2>1, <2>5, UntriedTurn DEF WholeInv
  <2>7. NewlyLive
    BY <1>1, <1>2, <1>3, <2>1, <2>2, <2>3 DEF NewlyLive, Live, CeremonyTurns
  <2>8. RecordsPassOn /\ StopPassesOn(t)
    BY <1>4, <2>1, <2>3 DEF RecordsPassOn, StopPassesOn
  <2>9. CeremonyPassesOn(t)
    <3> SUFFICES ASSUME NEW i \in Nat, Holds(task[t], Home[t], i)
                 PROVE  Accounted(e, i)'
      BY <1>2, <1>3 DEF CeremonyPassesOn
    <3>1. i \in k.good
      BY <1>1, <1>2 DEF Holds
    <3> QED
      BY <1>4, <2>2, <2>3, <3>1 DEF Accounted
  <2> QED
    BY <2>1, <2>4, <2>6, <2>7, <2>8, <2>9, CeremonyKeepsWhole
<1>6. CASE /\ task' = [task EXCEPT ![t] = [k EXCEPT !.stage = "unstart", !.todo = k.good]]
           /\ UNCHANGED running
  <2> DEFINE j == [k EXCEPT !.stage = "unstart", !.todo = k.good]
  <2>1. /\ j \in Ceremony /\ j.stage = "unstart" /\ j.op = k.op /\ j.epoch = k.epoch
        /\ j.call = k.call /\ j.todo = k.good
    BY DEF Ceremony
  <2>2. task' = [task EXCEPT ![t] = j] /\ j # None
    BY <1>6, <2>1, LaunchNoneIsFresh
  <2> HIDE DEF j
  <2>3. CeremonyTurns(t) /\ task'[t] = j /\ CommitsPassOn(t)
    BY <1>1, <2>2, StageTurns
  <2>4. CeremonyPassesOn(t)
    <3> SUFFICES ASSUME NEW i \in Nat, Holds(task[t], Home[t], i)
                 PROVE  Accounted(e, i)'
      BY <1>2, <1>3 DEF CeremonyPassesOn
    <3>1. i \in k.good
      BY <1>1, <1>2 DEF Holds
    <3>2. Holds(task[t], Home[t], i)'
      BY <1>2, <2>1, <2>3, <3>1 DEF Holds, HeardStop
    <3> QED
      BY <1>2, <1>3, <2>1, <2>2, <2>3, <3>2 DEF Accounted
  <2>5. StopPassesOn(t)
    BY <2>1, <2>3 DEF StopPassesOn, StopAccounts
  <2>6. task'[t] # None => /\ task'[t].op = task[t].op /\ task'[t].epoch = task[t].epoch
                           /\ task'[t].stage = "unstart"
    BY <1>2, <2>1, <2>3
  <2> QED
    BY <1>1, <1>6, <2>3, <2>4, <2>5, <2>6, TurnKeepsWhole
<1> QED
  BY <1>2, <1>3, <1>5, <1>6 DEF EndCommit, Mine

LEMMA EndHaltKeepsWhole ==
  ASSUME LaunchInv, LaunchTypeOK', WholeInv, OneAtATime, OneAtATime',
         NEW t \in Task, EndHalt(t)
  PROVE  WholeInv'
<1>1. /\ task[t] # None /\ task[t].stage = "halt" /\ LaunchTypeOK
      /\ UNCHANGED <<calls, containers, pending, issued, doubtful>>
  BY DEF EndHalt, StageOver, At, rankVars, LaunchInv
<1>2. PICK k \in Ceremony : /\ k = task[t] /\ k.op \in {"stop", "supervise"} /\ k.todo = {}
                            /\ Fits(k, Home[t])
  BY <1>1, TaskFacts DEF Fits, EndHalt, StageOver
<1>3. PICK e \in Epoch : e = k.epoch /\ issued[e] # None /\ issued[e].head = Home[t]
  BY <1>1, <1>2, TaskFacts DEF WholeInv, RecordsStandAlone, StandsAlone
<1>4. /\ Home[t] \in HeadNode /\ running[Home[t]] # None /\ running[Home[t]].epoch = e
      /\ pending[Home[t]] = None /\ StopAccounts(k, Home[t])
  BY <1>1, <1>2, <1>3, TaskFacts
     DEF WholeInv, RecordsStandAlone, StandsAlone, StopsAccount
<1> DEFINE r == [epoch |-> e, started |-> k.bad]
           x == [k EXCEPT !.stage = "clear"]
<1>5. /\ r \in Cluster /\ r.epoch = e /\ r.started = k.bad
      /\ x \in Ceremony /\ x.stage = "clear" /\ x.op = k.op /\ x.epoch = e /\ x.bad = k.bad
  BY <1>3 DEF Cluster, Ceremony
<1>6. /\ running' = [running EXCEPT ![Home[t]] = IF k.bad = {} THEN None ELSE r]
      /\ task' = [task EXCEPT ![t] = IF k.op = "stop" THEN None ELSE x]
  BY <1>2, <1>3 DEF EndHalt, Mine
<1>7. r # None /\ x # None
  BY <1>5, LaunchNoneIsFresh
<1> HIDE DEF r, x
<1>8. /\ running'[Home[t]] = IF k.bad = {} THEN None ELSE r
      /\ \A h \in HeadNode : h # Home[t] => running'[h] = running[h]
  BY <1>1, <1>4, <1>6 DEF LaunchTypeOK
<1>9. PICK j : j = (IF k.op = "stop" THEN None ELSE x) /\ task' = [task EXCEPT ![t] = j]
  BY <1>6
<1>10. CeremonyTurns(t) /\ task'[t] = j /\ CommitsPassOn(t)
  BY <1>1, <1>9, StageTurns
<1>11. RecordsStandAlone'
  <2>1. task'[t] # None => StandsAlone(task[t], Home[t])'
    BY <1>1, <1>2, <1>3, <1>5, <1>8, <1>9, <1>10 DEF StandsAlone, Taking
  <2> QED
    BY <1>1, <1>3, <1>4, <1>5, <1>8, <1>10, <2>1, RecordsTurn DEF WholeInv
<1>12. \A y \in Epoch : Untried(y)' => Untried(y)
  BY <1>1, <1>2, <1>5, <1>9, <1>10 DEF Untried, CeremonyTurns
<1>13. UntriedIsClean'
  BY <1>1, <1>10, <1>12, UntriedTurn DEF WholeInv
<1>14. NewlyLive
  BY <1>4, <1>5, <1>8, <1>9, <1>10 DEF NewlyLive, Live, CeremonyTurns
<1>15. CeremonyPassesOn(t)
  BY <1>2 DEF CeremonyPassesOn
<1>16. \A i \in Everyone(e) : Matters(e, i) => i \in k.bad
  <2> SUFFICES ASSUME NEW i \in Everyone(e), Matters(e, i) PROVE i \in k.bad
    OBVIOUS
  <2>1. Holds(k, Home[t], i)
    BY <1>1, <1>2, <1>3, <1>4, <1>10, <1>14, StaysUnexcused DEF StopAccounts, Matters
  <2> QED
    BY <1>1, <1>2, <2>1 DEF Holds
<1>17. RecordsPassOn
  <2> SUFFICES ASSUME NEW i \in Nat, Matters(e, i)
               PROVE  Accounted(e, i)'
    BY <1>4, <1>8 DEF RecordsPassOn
  <2>1. i \in k.bad
    BY <1>16 DEF Matters
  <2> QED
    BY <1>4, <1>5, <1>7, <1>8, <2>1 DEF Accounted
<1>18. StopPassesOn(t)
  <2> SUFFICES ASSUME task'[t] # None PROVE StopAccounts(task[t], Home[t])'
    BY DEF StopPassesOn
  <2>1. j = x /\ k.op = "supervise"
    BY <1>2, <1>9, <1>10
  <2>2. Ranks(e)' = Ranks(e) /\ Everyone(e)' = Everyone(e)
    BY <1>1 DEF Ranks, Everyone
  <2>3. ASSUME NEW i \in Everyone(e), RankUp(e, i)'
        PROVE  Ranks(e)[i] \in doubtful'
    <3>1. RankUp(e, i)
      BY <1>1, <1>3, <1>10, <2>2, <2>3, UpAsItWas
    <3>2. CASE Excused(e, i)
      BY <1>1, <3>2 DEF Excused
    <3>3. CASE ~Excused(e, i)
      <4>1. i \in k.bad
        BY <1>1, <1>2, <1>3, <1>4, <3>1, <3>3 DEF StopAccounts, Holds
      <4> QED
        BY <1>1, <1>2, <1>3, <1>4, <2>1, <4>1 DEF StopAccounts
    <3> QED
      BY <3>2, <3>3
  <2> QED
    BY <1>5, <1>10, <2>1, <2>2, <2>3 DEF StopAccounts
<1> QED
  BY <1>10, <1>11, <1>13, <1>14, <1>15, <1>17, <1>18, CeremonyKeepsWhole

LEMMA RereadKeepsWhole ==
  ASSUME LaunchInv, LaunchTypeOK', WholeInv, OneAtATime, OneAtATime',
         NEW t \in Task, Reread(t)
  PROVE  WholeInv'
<1>1. /\ task[t] # None /\ task[t].stage = "reread" /\ LaunchTypeOK
      /\ UNCHANGED <<calls, containers, pending, running, issued, doubtful>>
  BY DEF Reread, At, rankVars, LaunchInv
<1>2. PICK k \in Ceremony : /\ k = task[t] /\ k.op = "supervise" /\ k.call = None
  BY <1>1, TaskFacts DEF Fits
<1>3. /\ Home[t] \in HeadNode /\ running[Home[t]] # None
      /\ running[Home[t]].epoch = k.epoch
  BY <1>1, <1>2, TaskFacts DEF WholeInv, RecordsStandAlone, StandsAlone
<1>4. PICK r \in Cluster : r = running[Home[t]]
  BY <1>1, <1>3 DEF LaunchTypeOK
<1> DEFINE j == [k EXCEPT !.stage = "halt", !.bad = {}, !.epoch = r.epoch, !.todo = r.started]
<1>5. /\ j \in Ceremony /\ j.stage = "halt" /\ j.bad = {} /\ j.epoch = r.epoch
      /\ j.todo = r.started /\ j.call = None /\ j.op = k.op
  BY <1>2 DEF Ceremony, Cluster
<1>6. task' = [task EXCEPT ![t] = j] /\ j # None
  BY <1>2, <1>3, <1>4, <1>5, LaunchNoneIsFresh DEF Reread, Mine
<1> HIDE DEF j
<1>7. CeremonyTurns(t) /\ task'[t] = j /\ CommitsPassOn(t)
  BY <1>1, <1>6, StageTurns
<1>8. NewlyLive
  BY <1>1, <1>5, <1>7, NothingNewlyLive
<1>9. StopPassesOn(t)
  BY <1>1, <1>3, <1>4, <1>5, <1>6, <1>7, <1>8, HaltTakesAll
<1>10. CeremonyPassesOn(t)
  BY <1>2 DEF CeremonyPassesOn
<1>11. task'[t] # None => /\ task'[t].op = task[t].op /\ task'[t].epoch = task[t].epoch
                          /\ task'[t].stage = "halt"
  BY <1>2, <1>3, <1>4, <1>5, <1>7
<1> QED
  BY <1>1, <1>7, <1>9, <1>10, <1>11, TurnKeepsWhole

LEMMA ClearRecordKeepsWhole ==
  ASSUME LaunchInv, LaunchTypeOK', WholeInv, OneAtATime, OneAtATime',
         NEW t \in Task, ClearRecord(t)
  PROVE  WholeInv'
<1>1. /\ task[t] # None /\ task[t].stage = "clear" /\ LaunchTypeOK
      /\ UNCHANGED <<calls, containers, pending, issued, doubtful>>
  BY DEF ClearRecord, At, rankVars, LaunchInv
<1>2. PICK k \in Ceremony : k = task[t] /\ k.op = "supervise" /\ StopAccounts(k, Home[t])
  BY <1>1, TaskFacts DEF Fits, WholeInv, StopsAccount
<1>3. PICK e \in Epoch : e = k.epoch /\ issued[e] # None /\ issued[e].head = Home[t]
  BY <1>1, <1>2, TaskFacts DEF WholeInv, RecordsStandAlone, StandsAlone
<1>4. /\ Home[t] \in HeadNode
      /\ running[Home[t]] # None => running[Home[t]].epoch = e
  BY <1>1, <1>2, <1>3, TaskFacts DEF WholeInv, RecordsStandAlone, StandsAlone
<1>5. running' = [running EXCEPT ![Home[t]] = None] /\ Return(t)
  BY DEF ClearRecord, Mine
<1>6. /\ running'[Home[t]] = None
      /\ \A h \in HeadNode : h # Home[t] => running'[h] = running[h]
  BY <1>1, <1>4, <1>5 DEF LaunchTypeOK
<1>7. CeremonyTurns(t) /\ task'[t] = None /\ CommitsPassOn(t)
  BY <1>1, <1>5, StageTurns DEF Return
<1>8. RecordsStandAlone'
  BY <1>1, <1>6, <1>7, RecordsTurn DEF WholeInv
<1>9. \A y \in Epoch : Untried(y)' => Untried(y)
  BY <1>1, <1>7 DEF Untried, CeremonyTurns
<1>10. UntriedIsClean'
  BY <1>1, <1>7, <1>9, UntriedTurn DEF WholeInv
<1>11. NewlyLive
  BY <1>6, <1>7 DEF NewlyLive, Live, CeremonyTurns
<1>12. CeremonyPassesOn(t) /\ StopPassesOn(t)
  BY <1>2, <1>7 DEF CeremonyPassesOn, StopPassesOn
<1>13. ~Live(e)'
  <2>1. \A u \in Task : task'[u] # None => task'[u].epoch # e
    BY <1>1, <1>2, <1>3, <1>7, OneCeremonyOfALaunch DEF WholeInv, CeremonyTurns
  <2>2. \A h \in HeadNode : running'[h] # None => running'[h].epoch # e
    BY <1>3, <1>6 DEF WholeInv, RecordsStandAlone
  <2> QED
    BY <2>1, <2>2 DEF Live
<1>14. RecordsPassOn
  <2>1. ASSUME NEW i \in Nat, Matters(e, i) PROVE FALSE
    <3>1. Ranks(e)[i] \in doubtful
      BY <1>1, <1>2, <1>3, <2>1 DEF StopAccounts, Matters
    <3>2. Ranks(e)' = Ranks(e)
      BY <1>1 DEF Ranks
    <3> QED
      BY <1>1, <1>13, <2>1, <3>1, <3>2 DEF Matters, Excused
  <2> QED
    BY <1>4, <1>6, <2>1 DEF RecordsPassOn
<1> QED
  BY <1>7, <1>8, <1>10, <1>11, <1>12, <1>14, CeremonyKeepsWhole

-----------------------------------------------------------------------------
(* The beginnings *)

\* Task t was idle and has this ceremony before it.
Begins(t, op, stage, e, todo) ==
  /\ task[t] = None
  /\ \E j \in Ceremony :
       /\ j # None /\ task' = [task EXCEPT ![t] = j]
       /\ j.op = op /\ j.stage = stage /\ j.epoch = e /\ j.todo = todo
       /\ j.good = {} /\ j.bad = {} /\ j.call = None

LEMMA BeginsWith ==
  ASSUME NEW t, NEW op \in {"prepare", "commit", "abort", "stop", "supervise"},
         NEW stage \in {"ask", "start", "release", "watch", "halt"},
         NEW e \in Epoch, NEW todo, todo \in SUBSET Nat, Begin(t, op, stage, e, todo)
  PROVE  Begins(t, op, stage, e, todo)
<1> DEFINE j == [op |-> op, stage |-> stage, epoch |-> e, todo |-> todo,
                 good |-> {}, bad |-> {}, call |-> None]
<1>1. j \in Ceremony
  BY DEF Ceremony
<1>2. j # None
  BY <1>1, LaunchNoneIsFresh
<1> QED
  BY <1>1, <1>2 DEF Begin, Begins

\* A ceremony begins, and no record is written.
LEMMA BeginKeepsWhole ==
  ASSUME LaunchInv, LaunchTypeOK', WholeInv, OneAtATime, OneAtATime',
         NEW t \in Task, task[t] = None, CeremonyTurns(t), CommitsPassOn(t), task'[t] # None,
         running' = running, calls' = calls,
         \A h \in HeadNode : pending'[h] = pending[h] \/ pending'[h] = None,
         \A h \in HeadNode : h # Home[t] => pending'[h] = pending[h],
         \A e \in Epoch : task'[t].epoch = e =>
           /\ task'[t].op \in {"prepare", "abort"} => Untried(e) \/ issued[e] = None
           /\ task'[t].stage \in {"start", "settle"} => Untried(e),
         StandsAlone(task[t], Home[t])', StopPassesOn(t)
  PROVE  WholeInv'
<1>1. /\ Home[t] \in HeadNode /\ None \notin Epoch
      /\ task'[t].epoch \in Epoch /\ LaunchTypeOK
  BY LaunchAssumption, NoneIsFresh DEF LaunchTypeOK, Ceremony, LaunchInv
<1>2. RecordsStandAlone'
  <2>1. running[Home[t]] # None =>
           /\ pending'[Home[t]] = None
           /\ running[Home[t]].epoch \in Epoch
           /\ issued[running[Home[t]].epoch] # None
           /\ issued[running[Home[t]].epoch].head = Home[t]
    BY <1>1 DEF WholeInv, RecordsStandAlone, LaunchInv, LaunchTypeOK, RecordsFit, Cluster
  <2>2. \A h \in HeadNode \ {Home[t]} : running'[h] = running[h]
    OBVIOUS
  <2>3. running'[Home[t]] # None =>
           /\ pending'[Home[t]] = None
           /\ running'[Home[t]].epoch \in Epoch
           /\ issued[running'[Home[t]].epoch] # None
           /\ issued[running'[Home[t]].epoch].head = Home[t]
    BY <2>1
  <2> QED
    BY <2>2, <2>3, RecordsTurn DEF WholeInv
<1>3. ASSUME NEW e \in Epoch, Untried(e)'
      PROVE  Untried(e) \/ issued[e] = None
  BY <1>1, <1>3 DEF Untried, CeremonyTurns
<1>4. UntriedIsClean'
  BY <1>3, UntriedTurn DEF WholeInv
<1>5. NewlyLive
  BY DEF NewlyLive, Live, CeremonyTurns
<1>6. RecordsPassOn /\ CeremonyPassesOn(t)
  BY DEF RecordsPassOn, CeremonyPassesOn
<1> QED
  BY <1>2, <1>4, <1>5, <1>6, CeremonyKeepsWhole

LEMMA BeginPrepareKeepsWhole ==
  ASSUME LaunchInv, LaunchTypeOK', WholeInv, OneAtATime, OneAtATime',
         NEW t \in Task, BeginPrepare(t)
  PROVE  WholeInv'
<1>1. /\ running[Home[t]] = None /\ LaunchTypeOK
      /\ UNCHANGED <<calls, containers, pending, running, doubtful>>
  BY DEF BeginPrepare, Mine, rankVars, LaunchInv
<1>2. PICK e \in Epoch, r \in Recipe, ranks \in Roster :
        /\ issued[e] = None
        /\ issued' = [issued EXCEPT ![e] = [head |-> Home[t], recipe |-> r, ranks |-> ranks]]
        /\ Begin(t, "prepare", "ask", e, 1..Len(ranks))
  BY DEF BeginPrepare, Mine
<1>3. /\ issued'[e].head = Home[t]
      /\ \A x \in Epoch : issued[x] # None => issued'[x] = issued[x]
  BY <1>1, <1>2 DEF LaunchTypeOK
<1>4. 1..Len(ranks) \in SUBSET Nat
  BY LaunchAssumption
<1>5. PICK j \in Ceremony :
        /\ task[t] = None /\ j # None /\ task' = [task EXCEPT ![t] = j]
        /\ j.op = "prepare" /\ j.stage = "ask" /\ j.epoch = e
  <2>1. Begins(t, "prepare", "ask", e, 1..Len(ranks))
    BY <1>2, <1>4, BeginsWith
  <2> QED
    BY <2>1 DEF Begins
<1>6. CeremonyTurns(t) /\ task'[t] = j /\ CommitsPassOn(t)
  BY <1>1, <1>3, <1>5, StageTurns
<1>7. StandsAlone(task[t], Home[t])'
  BY <1>1, <1>3, <1>5, <1>6 DEF StandsAlone, Taking
<1>8. StopPassesOn(t)
  BY <1>5, <1>6 DEF StopPassesOn, StopAccounts
<1> QED
  BY <1>1, <1>2, <1>5, <1>6, <1>7, <1>8, BeginKeepsWhole

LEMMA BeginOutcomeKeepsWhole ==
  ASSUME LaunchInv, LaunchTypeOK', WholeInv, OneAtATime, OneAtATime',
         NEW t \in Task, BeginCommit(t) \/ BeginAbort(t)
  PROVE  WholeInv'
<1>1. LaunchTypeOK /\ UNCHANGED <<calls, containers, running, issued, doubtful>>
  BY DEF BeginCommit, BeginAbort, rankVars, LaunchInv
<1>2. PICK e \in Epoch :
        /\ TakePending(t, e)
        /\ \/ Begin(t, "commit", "start", e, Everyone(e))
           \/ Begin(t, "abort", "release", e, Everyone(e))
  BY DEF BeginCommit, BeginAbort
<1>3. /\ Home[t] \in HeadNode /\ pending[Home[t]] = e /\ e # None
      /\ pending' = [pending EXCEPT ![Home[t]] = None]
  BY <1>2, LaunchAssumption, NoneIsFresh DEF TakePending, Mine
<1>4. /\ pending'[Home[t]] = None
      /\ \A h \in HeadNode : h # Home[t] => pending'[h] = pending[h]
  BY <1>1, <1>3 DEF LaunchTypeOK
<1>5. /\ issued[e] # None /\ issued[e].head = Home[t] /\ running[Home[t]] = None
      /\ Untried(e)
  BY <1>3 DEF LaunchInv, RecordsFit, Unanimous, WholeInv, RecordsStandAlone, Untried
<1>6. Everyone(e) \in SUBSET Nat
  BY <1>1, <1>5, LaunchesAreLaidOut DEF LaunchTypeOK
<1>7. PICK j \in Ceremony :
        /\ task[t] = None /\ j # None /\ task' = [task EXCEPT ![t] = j]
        /\ j.epoch = e /\ j.stage \in {"start", "release"}
  <2>1. CASE Begin(t, "commit", "start", e, Everyone(e))
    BY <1>6, <2>1, BeginsWith DEF Begins
  <2>2. CASE Begin(t, "abort", "release", e, Everyone(e))
    BY <1>6, <2>2, BeginsWith DEF Begins
  <2> QED
    BY <1>2, <2>1, <2>2
<1>8. CeremonyTurns(t) /\ task'[t] = j /\ CommitsPassOn(t)
  BY <1>1, <1>7, StageTurns
<1>9. StandsAlone(task[t], Home[t])'
  BY <1>1, <1>4, <1>5, <1>7, <1>8 DEF StandsAlone
<1>10. StopPassesOn(t)
  BY <1>7, <1>8 DEF StopPassesOn, StopAccounts
<1>11. task'[t].epoch = e /\ task'[t] # None
  BY <1>7, <1>8
<1> QED
  BY <1>1, <1>4, <1>5, <1>7, <1>8, <1>9, <1>10, <1>11, BeginKeepsWhole

LEMMA BeginWithRunningKeepsWhole ==
  ASSUME LaunchInv, LaunchTypeOK', WholeInv, OneAtATime, OneAtATime',
         NEW t \in Task, BeginStop(t) \/ BeginSupervise(t)
  PROVE  WholeInv'
<1>1. /\ LaunchTypeOK /\ running[Home[t]] # None /\ Home[t] \in HeadNode
      /\ UNCHANGED <<calls, containers, pending, running, issued, doubtful>>
  BY LaunchAssumption DEF BeginStop, BeginSupervise, Mine, rankVars, LaunchInv
<1>2. PICK r \in Cluster : r = running[Home[t]]
  BY <1>1 DEF LaunchTypeOK
<1>3. r.epoch \in Epoch /\ r.started \in SUBSET Nat
  BY DEF Cluster
<1>4. issued[r.epoch] # None /\ issued[r.epoch].head = Home[t]
  BY <1>1, <1>2 DEF LaunchInv, RecordsFit, WholeInv, RecordsStandAlone
<1>5. PICK op \in {"stop", "supervise"}, stage \in {"halt", "watch"} :
        Begin(t, op, stage, r.epoch, r.started)
  BY <1>2 DEF BeginStop, BeginSupervise, Mine
<1>6. PICK j \in Ceremony :
        /\ task[t] = None /\ j # None /\ task' = [task EXCEPT ![t] = j]
        /\ j.op = op /\ j.stage = stage
        /\ j.epoch = r.epoch /\ j.todo = r.started /\ j.bad = {} /\ j.call = None
  <2>1. /\ op \in {"prepare", "commit", "abort", "stop", "supervise"}
        /\ stage \in {"ask", "start", "release", "watch", "halt"}
    OBVIOUS
  <2>2. Begins(t, op, stage, r.epoch, r.started)
    BY <1>3, <1>5, <2>1, BeginsWith
  <2> QED
    BY <2>2 DEF Begins
<1>7. CeremonyTurns(t) /\ task'[t] = j /\ CommitsPassOn(t)
  BY <1>1, <1>6, StageTurns
<1>8. StandsAlone(task[t], Home[t])'
  BY <1>1, <1>2, <1>4, <1>6, <1>7 DEF StandsAlone, Taking
<1>9. NewlyLive
  BY <1>1, <1>6, <1>7, NothingNewlyLive
<1>10. StopPassesOn(t)
  <2>1. CASE j.stage = "halt"
    BY <1>1, <1>2, <1>6, <1>7, <1>9, <2>1, HaltTakesAll
  <2>2. CASE j.stage = "watch"
    BY <1>7, <2>2 DEF StopPassesOn, StopAccounts
  <2> QED
    BY <1>6, <2>1, <2>2
<1>11. /\ task'[t] # None /\ task'[t].op \notin {"prepare", "abort"}
       /\ task'[t].stage \notin {"start", "settle"}
  BY <1>6, <1>7
<1> QED
  BY <1>1, <1>6, <1>7, <1>8, <1>10, <1>11, BeginKeepsWhole

-----------------------------------------------------------------------------
(* The invariant *)

LEMMA WholeInvInit == LaunchInit => WholeInv /\ OneAtATime
<1> SUFFICES ASSUME LaunchInit PROVE WholeInv /\ OneAtATime
  OBVIOUS
<1>1. /\ \A c \in Call : calls[c] = None
      /\ \A n \in Node, m \in Name : containers[n][m] = None
      /\ \A h \in HeadNode : running[h] = None
      /\ \A t \in Task : task[t] = None
  BY DEF LaunchInit, RankInit
<1>2. AnswersAreFinal /\ RecordsStandAlone /\ UntriedIsClean /\ CommitsAttended
  BY <1>1 DEF AnswersAreFinal, RecordsStandAlone, UntriedIsClean, CommitsAttended, Undone
<1>3. UpIsAccounted /\ StopsAccount
  BY <1>1 DEF UpIsAccounted, StopsAccount, LaunchInit
<1> QED
  BY <1>1, <1>2, <1>3 DEF WholeInv, OneAtATime

LEMMA WholeInvStep ==
  LaunchInv /\ WholeInv /\ OneAtATime /\ [LaunchNext /\ OneAtATime']_vars
    => LaunchInv' /\ WholeInv' /\ OneAtATime'
<1> SUFFICES ASSUME LaunchInv, WholeInv, OneAtATime, [LaunchNext /\ OneAtATime']_vars
             PROVE  LaunchInv' /\ WholeInv' /\ OneAtATime'
  OBVIOUS
<1>1. LaunchInv' /\ LaunchTypeOK'
  BY LaunchInvStep DEF LaunchInv
<1>2. OneAtATime'
  <2>1. UNCHANGED vars => OneAtATime'
    BY DEF vars, driverVars, OneAtATime
  <2> QED
    BY <2>1
<1>3. ASSUME NEW t \in Task,
             Operate(t) \/ BeginSupervise(t) \/ Drive(t) \/ Unreachable(t) \/ GiveUp(t)
      PROVE  WholeInv'
  <2>1. CASE BeginPrepare(t)
    BY <1>1, <1>2, <2>1, BeginPrepareKeepsWhole
  <2>2. CASE BeginCommit(t) \/ BeginAbort(t)
    BY <1>1, <1>2, <2>2, BeginOutcomeKeepsWhole
  <2>3. CASE BeginStop(t) \/ BeginSupervise(t)
    BY <1>1, <1>2, <2>3, BeginWithRunningKeepsWhole
  <2>4. CASE Ask(t)
    BY <1>1, <1>2, <2>4, AskKeepsWhole
  <2>5. CASE Answer(t)
    BY <1>1, <1>2, <2>5, AnswerKeepsWhole
  <2>6. CASE EndPrepare(t)
    BY <1>1, <1>2, <2>6, EndPrepareKeepsWhole
  <2>7. CASE EndCommit(t)
    BY <1>1, <1>2, <2>7, EndCommitKeepsWhole
  <2>8. CASE EndHalt(t)
    BY <1>1, <1>2, <2>8, EndHaltKeepsWhole
  <2>9. CASE Reread(t)
    BY <1>1, <1>2, <2>9, RereadKeepsWhole
  <2>10. CASE ClearRecord(t)
    BY <1>1, <1>2, <2>10, ClearRecordKeepsWhole
  <2>11. CASE Unreachable(t) \/ GiveUp(t)
    BY <1>1, <1>2, <2>11, NoAnswerKeepsWhole
  <2> QED
    BY <1>3, <2>1, <2>2, <2>3, <2>4, <2>5, <2>6, <2>7, <2>8, <2>9, <2>10, <2>11
       DEF Operate, Drive
<1>4. ASSUME NEW c \in Call, Works(c) \/ Fails(c) \/ StopRefused(c)
      PROVE  WholeInv'
  BY <1>4, CallAtWorkKeepsWhole
<1>5. ASSUME \/ \E n \in Node : ReservationExpires(n)
             \/ \E n \in Node, m \in Name : RankDies(n, m)
             \/ UNCHANGED vars
      PROVE  WholeInv'
  BY <1>5, MachineKeepsWhole
<1>6. ASSUME NEW n \in Node, AgentRestarts(n)
      PROVE  WholeInv'
  BY <1>6, RestartKeepsWhole
<1> QED
  BY <1>1, <1>2, <1>3, <1>4, <1>5, <1>6 DEF LaunchNext, AtRest

LEMMA WholeInvHolds == LaunchInTurn => [](LaunchInv /\ WholeInv /\ OneAtATime)
<1>1. LaunchInit => LaunchInv /\ WholeInv /\ OneAtATime
  BY LaunchInvInit, WholeInvInit
<1> QED
  BY <1>1, WholeInvStep, PTL DEF LaunchInTurn

-----------------------------------------------------------------------------
(* What the operator can count on *)

\* A cluster is whole or absent (clusterdriver.rs): when a head is at no
\* ceremony, a rank of its launches that is up is on its record, or on a machine
\* it lost touch with.  It holds whatever refuses, dies, restarts or cannot be
\* reached, as long as the ceremonies of one head are taken in turn.
THEOREM WholeOrAbsent == LaunchInTurn => []NoOrphanRank
<1>1. LaunchInv /\ WholeInv /\ OneAtATime => NoOrphanRank
  <2> SUFFICES ASSUME LaunchInv, WholeInv,
                      NEW e \in Epoch, issued[e] # None, Quiet(issued[e].head),
                      NEW i \in Everyone(e), RankUp(e, i), Ranks(e)[i] \notin doubtful
               PROVE  LET r == running[issued[e].head]
                      IN  r # None /\ r.epoch = e /\ i \in r.started
    BY DEF NoOrphanRank
  <2>1. Accounted(e, i)
    BY DEF WholeInv, UpIsAccounted, Excused
  <2>2. \A t \in Task : task[t] # None => task[t].epoch # e
    BY DEF WholeInv, RecordsStandAlone, StandsAlone, Quiet, Mine
  <2>3. PICK h \in HeadNode : running[h] # None /\ running[h].epoch = e /\ i \in running[h].started
    BY <2>1, <2>2 DEF Accounted
  <2>4. issued[e].head = h
    BY <2>3 DEF WholeInv, RecordsStandAlone
  <2> QED
    BY <2>3, <2>4
<1> QED
  BY <1>1, WholeInvHolds, PTL

\* An operator who is told that the cluster has stopped has no rank of it running
\* (transport.rs, stop), where docker removes what it is asked to remove: a
\* remote machine acknowledges a stop that docker refused.
THEOREM StoppedIsGone ==
  ASSUME "rm_fails" \notin Faults
  PROVE  LaunchInTurn => []StopMeansGone
<1>1. LaunchInv /\ WholeInv /\ OneAtATime => StopMeansGone
  <2> SUFFICES ASSUME LaunchInv, WholeInv,
                      NEW t \in Task, StageOver(t, "halt"), task[t].op = "stop", task[t].bad = {},
                      NEW i \in Everyone(task[t].epoch), RankUp(task[t].epoch, i)
               PROVE  FALSE
    BY DEF StopMeansGone
  <2>1. task[t] # None /\ task[t].stage = "halt" /\ task[t].todo = {}
    BY DEF StageOver, At
  <2>2. StopAccounts(task[t], Home[t]) /\ Home[t] \in HeadNode
    BY <2>1, LaunchAssumption DEF WholeInv, StopsAccount
  <2>3. Live(task[t].epoch)
    BY <2>1, <2>2 DEF WholeInv, RecordsStandAlone, StandsAlone, Live
  <2>4. Holds(task[t], Home[t], i)
    BY <2>1, <2>2, <2>3 DEF StopAccounts, Excused
  <2> QED
    BY <2>1, <2>4 DEF Holds
<1> QED
  BY <1>1, WholeInvHolds, PTL

\* The record of a running cluster is never replaced by another cluster's
\* (prepare_inner): a head that has one prepares no other, a commit in progress
\* is the only thing its head has, and what a stop writes back is the cluster it
\* was stopping.
THEOREM RecordStands == LaunchInTurn => RunningNeverReplaced
<1>1. ASSUME LaunchInv, WholeInv, OneAtATime, [LaunchNext /\ OneAtATime']_vars,
             NEW h \in HeadNode, running[h] # None, running'[h] # None
      PROVE  running'[h].epoch = running[h].epoch
  <2>0. /\ running \in [HeadNode -> Cluster \cup {None}] /\ LaunchTypeOK
        /\ \A t \in Task : task[t] # None => StandsAlone(task[t], Home[t])
    BY <1>1 DEF LaunchInv, LaunchTypeOK, WholeInv, RecordsStandAlone
  <2>1. ASSUME NEW t \in Task, EndCommit(t)
        PROVE  running'[h] = running[h]
    <3>0. task[t] # None /\ task[t].stage = "settle"
      BY <2>1 DEF EndCommit, StageOver, At
    <3>1. task[t].op = "commit"
      BY <1>1, <3>0, TaskFacts DEF Fits
    <3>2. running[Home[t]] = None
      BY <2>0, <3>0, <3>1 DEF StandsAlone, Taking
    <3> QED
      BY <1>1, <2>0, <2>1, <3>2 DEF EndCommit, Mine
  <2>2. ASSUME NEW t \in Task, EndHalt(t)
        PROVE  running'[h].epoch = running[h].epoch
    <3>1. task[t] # None /\ task[t].stage = "halt"
      BY <2>2 DEF EndHalt, StageOver, At
    <3>2. running[Home[t]] # None /\ running[Home[t]].epoch = task[t].epoch
      BY <2>0, <3>1 DEF StandsAlone
    <3>3. CASE h = Home[t]
      BY <1>1, <2>0, <2>2, <3>2, <3>3 DEF EndHalt, Mine
    <3>4. CASE h # Home[t]
      BY <2>0, <2>2, <3>4 DEF EndHalt, Mine
    <3> QED
      BY <3>3, <3>4
  <2>3. ASSUME NEW t \in Task, ClearRecord(t)
        PROVE  running'[h] = running[h]
    BY <1>1, <2>0, <2>3 DEF ClearRecord, Mine
  <2>4. ASSUME NEW n \in Node, AgentRestarts(n)
        PROVE  running'[h] = running[h]
    BY <1>1, <2>4 DEF AgentRestarts
  <2>5. \/ running' = running
        \/ \E t \in Task : EndCommit(t) \/ EndHalt(t) \/ ClearRecord(t)
        \/ \E n \in Node : AgentRestarts(n)
    <3>1. ASSUME NEW t \in Task, \/ Operate(t) \/ BeginSupervise(t) \/ Unreachable(t)
                                 \/ GiveUp(t) \/ Ask(t) \/ Answer(t) \/ EndPrepare(t) \/ Reread(t)
          PROVE  running' = running
      BY <3>1 DEF Operate, BeginPrepare, BeginCommit, BeginAbort, BeginStop, BeginSupervise,
         Unreachable, GiveUp, Ask, Answer, EndPrepare, Reread
    <3>2. ASSUME NEW c \in Call, Works(c) \/ Fails(c) \/ StopRefused(c)
          PROVE  running' = running
      BY <3>2 DEF Works, Fails, StopRefused, driverVars
    <3>3. ASSUME \/ \E n \in Node : ReservationExpires(n)
                 \/ \E n \in Node, m \in Name : RankDies(n, m)
                 \/ UNCHANGED vars
          PROVE  running' = running
      BY <3>3 DEF ReservationExpires, RankDies, vars, driverVars
    <3> QED
      BY <1>1, <3>1, <3>2, <3>3 DEF LaunchNext, AtRest, Drive
  <2> QED
    BY <2>1, <2>2, <2>3, <2>4, <2>5
<1>2. LaunchInv /\ WholeInv /\ OneAtATime /\ [LaunchNext /\ OneAtATime']_vars
        => [\A h \in HeadNode :
              running[h] # None /\ running'[h] # None
                => running'[h].epoch = running[h].epoch]_vars
  BY <1>1
<1> QED
  BY <1>2, WholeInvHolds, PTL DEF LaunchInTurn, RunningNeverReplaced

-----------------------------------------------------------------------------
(* What is pending can be committed *)

\* One machine drives the launches.  Two heads that prepare on one machine at
\* once may displace each other: DisplacedOnlyInTheWindow is all that holds then.
OneHead == \A h, g \in HeadNode : h = g

\* Machine n holds its reservation for launch e.
Backs(n, e) == reserved[n] # None /\ reserved[n].epoch = e

\* Launch e is asking its machines, or all of them have agreed.
Asking(e) ==
  \/ \E h \in HeadNode : pending[h] = e
  \/ \E t \in Task : task[t] # None /\ task[t].stage = "ask" /\ task[t].epoch = e

\* Rank i has said yes, whether or not ceremony k has heard it.
SaidYes(k, i) ==
  \/ i \in k.good
  \/ k.call # None /\ i = Min(k.todo) /\ calls[k.call].reply = "yes"

AsksBacked(k) ==
  k.stage = "ask" =>
    \A i \in Everyone(k.epoch) :
      SaidYes(k, i) /\ Ranks(k.epoch)[i] \notin lapsed => Backs(Ranks(k.epoch)[i], k.epoch)

\* A prepare at work is waited for; once it has looked, no other launch holds
\* the machine.
PrepareAttended(c) ==
  /\ \E t \in Task : task[t] # None /\ task[t].stage = "ask" /\ task[t].call = c
  /\ calls[c].at = "verify" =>
       reserved[calls[c].node] = None \/ reserved[calls[c].node].epoch = calls[c].epoch

PrepareAtWork(c) ==
  /\ calls[c] # None /\ calls[c].op = "prepare" /\ calls[c].at # "done"
  /\ calls[c].node \notin lapsed

BackInv ==
  /\ \A n \in Node : reserved[n] # None /\ reserved[n].expired => n \in lapsed
  /\ PendingIsBacked
  /\ \A t \in Task : task[t] # None => AsksBacked(task[t])
  /\ \A c \in Call : PrepareAtWork(c) => PrepareAttended(c)
  /\ \A c \in Call : calls[c] # None /\ calls[c].op \in {"commit", "abort"} =>
       issued[calls[c].epoch] # None /\ ~Asking(calls[c].epoch)

LEMMA OneTask ==
  ASSUME OneHead, OneAtATime, NEW t \in Task, NEW u \in Task, task[t] # None, task[u] # None
  PROVE  t = u
  BY LaunchAssumption DEF OneHead, OneAtATime

\* The slot of a machine, when the handler of a request takes a step.
SlotMoves(c, n) ==
  \/ reserved'[n] = reserved[n]
  \/ /\ n = calls[c].node
     /\ \/ /\ reserved[n] # None /\ reserved[n].expired
           /\ reserved'[n] = None
        \/ /\ calls[c].op = "prepare" /\ calls[c].at = "verify"
           /\ reserved'[n] # None /\ ~reserved'[n].expired
           /\ reserved'[n].epoch = calls[c].epoch
        \/ /\ calls[c].op \in {"commit", "abort"}
           /\ reserved[n].epoch = calls[c].epoch
           /\ reserved'[n] = None

\* A prepare that has looked finds the slot empty or its own, and its yes fills it.
PrepareMoves(c) ==
  calls[c].op = "prepare" =>
    /\ calls'[c].at = "verify" =>
         reserved'[calls[c].node] = None \/ reserved'[calls[c].node].epoch = calls[c].epoch
    /\ calls'[c].reply = "yes" =>
         reserved'[calls[c].node] # None /\ reserved'[calls[c].node].epoch = calls[c].epoch

LEMMA ServeMovesSlots ==
  ASSUME WellTyped, AnswersAreFinal, NEW c \in Call, Serve(c)
  PROVE  PrepareMoves(c) /\ \A n \in Node : SlotMoves(c, n)
<1>0. TypeOK /\ calls[c] # None /\ calls[c] \in CallRecord /\ calls[c].node \in Node
  <2>1. TypeOK /\ calls[c] # None
    BY DEF WellTyped, Serve, PrepareCheck, PrepareRefuse, PrepareHold, CommitTake,
       CommitRefuse, CommitClear, CommitClearFails, CommitRun, CommitRunFails, Abort, Alive,
       Stop, StopFails, InStage
  <2> QED
    BY <2>1 DEF TypeOK, CallRecord
<1>1. calls[c].at # "done" /\ calls[c].reply # "yes"
  BY <1>0, ServeAnswers DEF AnswersAreFinal
<1> DEFINE n == calls[c].node
<1>2. CASE PrepareCheck(c)
  <2>1. CASE Finish(c, "no") /\ UNCHANGED reserved
    <3>1. calls'[c].at = "done" /\ calls'[c].reply = "no"
      BY <1>0, <2>1, FinishAnswers
    <3> QED
      BY <2>1, <3>1 DEF PrepareMoves, SlotMoves
  <2>2. CASE /\ HeldByAnother(n, calls[c].epoch) => reserved[n].expired
             /\ reserved' = [reserved EXCEPT ![n] =
                               IF HeldByAnother(n, calls[c].epoch) THEN None ELSE @]
             /\ calls' = [calls EXCEPT ![c] = [@ EXCEPT !.at = "verify",
                                                        !.grant = Len(granted[n])]]
    <3>1. /\ reserved'[n] = IF HeldByAnother(n, calls[c].epoch) THEN None ELSE reserved[n]
          /\ \A m \in Node : m # n => reserved'[m] = reserved[m]
      BY <1>0, <2>2 DEF TypeOK
    <3>2. calls'[c].reply # "yes"
      <4>1. [calls[c] EXCEPT !.at = "verify", !.grant = Len(granted[n])].reply = calls[c].reply
        BY <1>0 DEF CallRecord
      <4> QED
        BY <1>0, <1>1, <2>2, <4>1 DEF TypeOK
    <3> QED
      BY <2>2, <3>1, <3>2 DEF PrepareMoves, SlotMoves, HeldByAnother
  <2> QED
    BY <1>2, <2>1, <2>2 DEF PrepareCheck
<1>3. CASE PrepareRefuse(c)
  <2>1. calls'[c].at = "done" /\ calls'[c].reply = "no" /\ reserved' = reserved
    BY <1>0, <1>3, FinishAnswers DEF PrepareRefuse
  <2> QED
    BY <2>1 DEF PrepareMoves, SlotMoves
<1>4. CASE PrepareHold(c)
  <2> DEFINE r == [epoch |-> calls[c].epoch, name |-> calls[c].name,
                   grant |-> Len(granted[n]) + 1, expired |-> FALSE]
  <2>1. r.epoch = calls[c].epoch /\ ~r.expired /\ r # None
    <3>1. calls[c].epoch \in Epoch /\ calls[c].name \in Name
      BY <1>0, <1>4 DEF PrepareHold, InStage, WellTyped, RequestsComplete
    <3>2. Len(granted[n]) + 1 \in Nat
      BY <1>0 DEF TypeOK
    <3>3. r \in Reservation
      BY <3>1, <3>2 DEF Reservation
    <3> QED
      BY <3>3, NoneIsFresh
  <2>2. reserved' = [reserved EXCEPT ![n] = r]
    BY <1>4 DEF PrepareHold
  <2> HIDE DEF r
  <2>3. reserved'[n] = r /\ \A m \in Node : m # n => reserved'[m] = reserved[m]
    BY <1>0, <2>2 DEF TypeOK
  <2>4. calls'[c].at = "done"
    BY <1>0, <1>4, FinishAnswers DEF PrepareHold
  <2> QED
    BY <1>4, <2>1, <2>3, <2>4 DEF PrepareMoves, SlotMoves, PrepareHold, InStage
<1>5. CASE CommitTake(c)
  <2>1. reserved'[n] = None /\ \A m \in Node : m # n => reserved'[m] = reserved[m]
    BY <1>0, <1>5 DEF CommitTake, TypeOK
  <2> QED
    BY <1>5, <2>1 DEF PrepareMoves, SlotMoves, CommitTake, InStage
<1>6. CASE Abort(c)
  <2>1. /\ reserved'[n] = IF reserved[n] # None /\ ~HeldByAnother(n, calls[c].epoch)
                          THEN None ELSE reserved[n]
        /\ \A m \in Node : m # n => reserved'[m] = reserved[m]
    BY <1>0, <1>6 DEF Abort, TypeOK
  <2> QED
    BY <1>6, <2>1 DEF PrepareMoves, SlotMoves, Abort, InStage, HeldByAnother
<1>7. CASE \/ CommitRefuse(c) \/ CommitClear(c) \/ CommitClearFails(c) \/ CommitRun(c)
           \/ CommitRunFails(c) \/ Alive(c) \/ Stop(c) \/ StopFails(c)
  <2>1. reserved' = reserved /\ calls[c].op # "prepare"
    BY <1>7 DEF CommitRefuse, CommitClear, CommitClearFails, CommitRun, CommitRunFails,
       Alive, Stop, StopFails, InStage
  <2> QED
    BY <2>1 DEF PrepareMoves, SlotMoves
<1> QED
  BY <1>2, <1>3, <1>4, <1>5, <1>6, <1>7 DEF Serve

\* The slot of a machine outside `lapsed` that some launch counts on stays as it is.
StaysBacked ==
  \A n \in Node, e \in Epoch : n \notin lapsed' /\ Asking(e) /\ Backs(n, e) => Backs(n, e)'

\* The handlers move, and the heads know what they knew or have forgotten it.
LEMMA RanksKeepBacked ==
  ASSUME LaunchInv, LaunchInv', BackInv, issued' = issued, lapsed \subseteq lapsed',
         \A h \in HeadNode : pending'[h] # None => pending'[h] = pending[h],
         \A t \in Task : task'[t] # None => task'[t] = task[t],
         StaysBacked,
         \A n \in Node : reserved'[n] # None /\ reserved'[n].expired => n \in lapsed',
         \A c \in Call : calls'[c] # None => calls[c] # None /\ RequestStands(c),
         \A c \in Call : PrepareAtWork(c)' => PrepareAttended(c)',
         \A c \in Call : calls'[c] # None /\ calls'[c].op = "prepare" /\ calls'[c].reply = "yes"
                           /\ calls'[c].node \notin lapsed' =>
           \/ calls[c].reply = "yes"
           \/ /\ reserved'[calls[c].node] # None
              /\ reserved'[calls[c].node].epoch = calls[c].epoch
  PROVE  BackInv'
<1>0. None \notin Epoch /\ LaunchTypeOK
  BY NoneIsFresh DEF LaunchInv
<1>1. \A e \in Epoch : Everyone(e)' = Everyone(e) /\ Ranks(e)' = Ranks(e)
  BY DEF Everyone, Ranks
<1>2. \A e \in Epoch : Asking(e)' => Asking(e)
  BY <1>0 DEF Asking
<1>3. \A e \in Epoch : issued[e] # None => \A i \in Everyone(e) : Ranks(e)[i] \in Node
  BY <1>0, LaunchesAreLaidOut DEF LaunchTypeOK
<1>4. PendingIsBacked'
  <2> SUFFICES ASSUME NEW h \in HeadNode, NEW e \in Epoch, pending'[h] = e,
                      NEW i \in Everyone(e), NEW n, n = Ranks(e)[i], n \notin lapsed'
               PROVE  Backs(n, e)'
    <3>1. \A h \in HeadNode : pending'[h] # None => pending'[h] \in Epoch
      BY DEF LaunchInv, LaunchTypeOK
    <3> QED
      BY <1>1, <3>1 DEF PendingIsBacked, Backs
  <2>1. pending[h] = e /\ Asking(e) /\ issued[e] # None
    BY <1>0 DEF Asking, LaunchInv, RecordsFit, Unanimous
  <2>2. n \in Node /\ Backs(n, e)
    BY <1>0, <1>3, <2>1 DEF BackInv, PendingIsBacked, Backs
  <2> QED
    BY <2>1, <2>2 DEF StaysBacked
<1>5. ASSUME NEW t \in Task, task'[t] # None, NEW k \in Ceremony, k = task[t], k.stage = "ask",
             NEW e \in Epoch, e = k.epoch, NEW i \in Everyone(e), SaidYes(k, i)',
             NEW n \in Node, n = Ranks(e)[i], n \notin lapsed'
      PROVE  Backs(n, e)'
  <2>1. task[t] = k /\ task'[t] = k /\ k # None
    BY <1>5
  <2>2. issued[e] # None /\ Asking(e)
    BY <1>5, <2>1, TaskFacts DEF Asking
  <2>4. SaidYes(k, i) \/ Backs(n, e)'
    <3> SUFFICES ASSUME k.call # None, i = Min(k.todo), calls'[k.call].reply = "yes"
                 PROVE  SaidYes(k, i) \/ Backs(n, e)'
      BY <1>5 DEF SaidYes
    <3>1. PICK c \in Call : c = k.call
      BY DEF Ceremony
    <3>2. CallFits(k) /\ CallFits(k)'
      BY <2>1 DEF LaunchInv, CeremoniesFit
    <3>3. RankOp("ask") = "prepare"
      BY RankOpTyped
    <3>4. /\ calls[c].op = "prepare" /\ calls[c].node = n /\ calls[c].epoch = e
          /\ calls'[c] # None /\ RequestStands(c)
      BY <1>5, <3>1, <3>2, <3>3 DEF CallFits, Taking
    <3>5. calls[c].reply = "yes" \/ Backs(n, e)'
      BY <1>5, <3>1, <3>4 DEF RequestStands, Backs
    <3> QED
      BY <3>1, <3>5 DEF SaidYes
  <2>5. SaidYes(k, i) => Backs(n, e)
    BY <1>5, <2>1 DEF BackInv, AsksBacked
  <2> QED
    BY <1>5, <2>2, <2>4, <2>5 DEF StaysBacked
<1>6. ASSUME NEW t \in Task, task'[t] # None
      PROVE  AsksBacked(task[t])'
  <2>1. PICK k \in Ceremony : k = task[t] /\ task'[t] = k
    BY <1>0, <1>6 DEF LaunchTypeOK
  <2>2. PICK e \in Epoch : e = k.epoch /\ issued[e] # None
    BY <1>6, <2>1, TaskFacts
  <2>3. k.stage = "ask" =>
          \A i \in Everyone(e) : SaidYes(k, i)' /\ Ranks(e)[i] \notin lapsed' =>
            reserved'[Ranks(e)[i]] # None /\ reserved'[Ranks(e)[i]].epoch = e
    BY <1>3, <1>5, <1>6, <2>1, <2>2 DEF Backs
  <2> QED
    BY <1>1, <2>1, <2>2, <2>3 DEF AsksBacked, Backs, SaidYes
<1>7. ASSUME NEW c \in Call, calls'[c] # None, calls'[c].op \in {"commit", "abort"}
      PROVE  issued'[calls'[c].epoch] # None /\ ~Asking(calls[c].epoch)'
  <2>1. /\ calls[c] # None /\ calls[c].op \in {"commit", "abort"}
        /\ calls'[c].epoch = calls[c].epoch
    BY <1>7 DEF RequestStands
  <2>2. PICK e \in Epoch : e = calls[c].epoch
    BY <2>1 DEF LaunchInv, GrantInv, WellTyped, RequestsComplete
  <2>3. issued[e] # None /\ ~Asking(e)
    BY <2>1, <2>2 DEF BackInv
  <2>4. ~Asking(e)'
    BY <1>2, <2>3
  <2> QED
    BY <2>1, <2>2, <2>3, <2>4 DEF Asking
<1> QED
  BY <1>4, <1>6, <1>7 DEF BackInv

\* The request of a prepare at work is the one its ceremony waits for.
LEMMA AttendedPrepare ==
  ASSUME LaunchInv, BackInv, NEW c \in Call, PrepareAtWork(c)
  PROVE  \E t \in Task : /\ task[t] # None /\ task[t].stage = "ask" /\ task[t].call = c
                         /\ calls[c].epoch = task[t].epoch /\ calls[c].epoch \in Epoch
                         /\ Asking(calls[c].epoch)
<1>1. PICK t \in Task : task[t] # None /\ task[t].stage = "ask" /\ task[t].call = c
  BY DEF BackInv, PrepareAttended
<1>2. c # None /\ RankOp("ask") = "prepare"
  BY RankOpTyped, LaunchNoneIsFresh
<1>3. calls[c].epoch = task[t].epoch /\ task[t].epoch \in Epoch
  BY <1>1, <1>2, TaskFacts DEF CallFits, Taking
<1> QED
  BY <1>1, <1>3 DEF Asking

LEMMA OnePrepareAtWork ==
  ASSUME LaunchInv, BackInv, OneHead, OneAtATime,
         NEW c \in Call, NEW d \in Call, PrepareAtWork(c), PrepareAtWork(d)
  PROVE  c = d
<1>1. PICK t \in Task : task[t] # None /\ task[t].call = c
  BY AttendedPrepare
<1>2. PICK u \in Task : task[u] # None /\ task[u].call = d
  BY AttendedPrepare
<1> QED
  BY <1>1, <1>2, OneTask

LEMMA ServeKeepsBacked ==
  ASSUME LaunchInv, LaunchInv', WholeInv, BackInv, OneHead, OneAtATime,
         NEW c \in Call, Serve(c), UNCHANGED <<pending, task, issued, lapsed>>
  PROVE  BackInv'
<1>1. PrepareMoves(c) /\ \A n \in Node : SlotMoves(c, n)
  BY ServeMovesSlots DEF LaunchInv, GrantInv, WholeInv
<1>2. /\ ServesTheRequest(c) /\ calls[c].at # "done" /\ TypeOK
      /\ calls[c] # None /\ calls[c].node \in Node
  BY ServeKeepsRequest, ServeAnswers
     DEF LaunchInv, GrantInv, WellTyped, ServesTheRequest, TypeOK, CallRecord
<1>3. \A d \in Call : d # c => calls'[d] = calls[d]
  BY <1>2 DEF ServesTheRequest
<1>4. calls[c].op = "prepare" /\ calls[c].node \notin lapsed => PrepareAtWork(c)
  BY <1>2 DEF PrepareAtWork
<1>5. ASSUME NEW n \in Node, n \notin lapsed, reserved'[n] # reserved[n]
      PROVE  /\ n = calls[c].node
             /\ \/ PrepareAtWork(c) /\ calls[c].at = "verify"
                   /\ ~reserved'[n].expired /\ reserved'[n].epoch = calls[c].epoch
                \/ calls[c].op \in {"commit", "abort"}
                   /\ reserved[n].epoch = calls[c].epoch /\ reserved'[n] = None
  BY <1>1, <1>4, <1>5 DEF SlotMoves, BackInv
<1>6. StaysBacked
  <2> SUFFICES ASSUME NEW n \in Node, NEW e \in Epoch, n \notin lapsed, Asking(e), Backs(n, e)
               PROVE  Backs(n, e)'
    BY DEF StaysBacked
  <2>1. CASE reserved'[n] = reserved[n]
    BY <2>1 DEF Backs
  <2>2. CASE reserved'[n] # reserved[n] /\ PrepareAtWork(c) /\ calls[c].at = "verify"
    <3>1. n = calls[c].node /\ (reserved[n] = None \/ reserved[n].epoch = calls[c].epoch)
      BY <1>5, <2>2 DEF BackInv, PrepareAttended
    <3>2. SlotMoves(c, n) /\ ~(reserved[n] # None /\ reserved[n].expired)
      BY <1>1 DEF BackInv
    <3> QED
      BY <2>2, <3>1, <3>2 DEF SlotMoves, Backs, PrepareAtWork
  <2>3. CASE reserved'[n] # reserved[n] /\ calls[c].op \in {"commit", "abort"}
    <3>1. e = calls[c].epoch
      BY <1>5, <2>3 DEF Backs, PrepareAtWork
    <3> QED
      BY <1>2, <2>3, <3>1 DEF BackInv
  <2> QED
    BY <1>5, <2>1, <2>2, <2>3
<1>7. ASSUME NEW n \in Node, reserved'[n] # None, reserved'[n].expired
      PROVE  n \in lapsed
  BY <1>1, <1>7 DEF SlotMoves, BackInv
<1>8. \A d \in Call : calls'[d] # None => calls[d] # None /\ RequestStands(d)
  BY <1>2, <1>3 DEF ServesTheRequest, RequestStands
<1>9. ASSUME NEW d \in Call, PrepareAtWork(d)'
      PROVE  PrepareAttended(d)'
  <2>1. PrepareAtWork(d)
    BY <1>2, <1>3, <1>8, <1>9 DEF PrepareAtWork, ServesTheRequest, RequestStands
  <2>2. PrepareAttended(d) /\ calls[d].node \in Node /\ calls[d].node \notin lapsed
        /\ calls'[d].node = calls[d].node /\ calls'[d].epoch = calls[d].epoch
    BY <1>2, <1>8, <1>9, <2>1 DEF BackInv, PrepareAtWork, RequestStands, TypeOK, CallRecord
  <2>3. calls'[d].at = "verify" =>
          reserved'[calls[d].node] = None \/ reserved'[calls[d].node].epoch = calls[d].epoch
    <3>1. CASE d = c
      BY <1>1, <2>1, <3>1 DEF PrepareMoves, PrepareAtWork
    <3>2. CASE d # c
      <4>1. ~PrepareAtWork(c)
        BY <2>1, <3>2, OnePrepareAtWork
      <4> QED
        BY <1>3, <1>5, <2>2, <3>2, <4>1 DEF PrepareAttended
    <3> QED
      BY <3>1, <3>2
  <2> QED
    BY <2>2, <2>3 DEF PrepareAttended
<1>10. \A d \in Call : calls'[d] # None /\ calls'[d].op = "prepare" /\ calls'[d].reply = "yes" =>
         \/ calls[d].reply = "yes"
         \/ reserved'[calls[d].node] # None /\ reserved'[calls[d].node].epoch = calls[d].epoch
  BY <1>1, <1>3, <1>8 DEF PrepareMoves, RequestStands
<1> QED
  BY <1>6, <1>7, <1>8, <1>9, <1>10, RanksKeepBacked

\* Where no handler takes a step, and what is lost is known to have lapsed.
LEMMA NobodyServesKeepsBacked ==
  ASSUME LaunchInv, LaunchInv', BackInv, issued' = issued, lapsed \subseteq lapsed',
         \A h \in HeadNode : pending'[h] # None => pending'[h] = pending[h],
         \A t \in Task : task'[t] # None => task'[t] = task[t],
         lapsed' = Node \/ task' = task,
         \A n \in Node : n \notin lapsed' => reserved'[n] = reserved[n],
         \A c \in Call : calls'[c] # None =>
           /\ calls[c] # None /\ RequestStands(c)
           /\ calls'[c] = calls[c] \/ (calls'[c].at = "done" /\ calls'[c].reply = "lost")
  PROVE  BackInv'
<1>1. StaysBacked
  BY DEF StaysBacked, Backs
<1>2. \A n \in Node : reserved'[n] # None /\ reserved'[n].expired => n \in lapsed'
  BY DEF BackInv
<1>3. ASSUME NEW c \in Call, PrepareAtWork(c)'
      PROVE  PrepareAttended(c)'
  <2>1. calls'[c] = calls[c] /\ PrepareAtWork(c)
    BY <1>3 DEF PrepareAtWork, RequestStands
  <2>2. calls[c].node \in Node /\ calls[c].node \notin lapsed'
    BY <1>3, <2>1 DEF PrepareAtWork, LaunchInv, LaunchTypeOK, TypeOK, CallRecord
  <2>3. PrepareAttended(c) /\ task' = task
    BY <2>1, <2>2 DEF BackInv
  <2>4. reserved'[calls[c].node] = reserved[calls[c].node]
    BY <2>2
  <2> QED
    BY <2>1, <2>3, <2>4 DEF PrepareAttended
<1>4. \A c \in Call : calls'[c] # None /\ calls'[c].reply = "yes" => calls[c].reply = "yes"
  OBVIOUS
<1> QED
  BY <1>1, <1>2, <1>3, <1>4, RanksKeepBacked

LEMMA CallAtWorkKeepsBacked ==
  ASSUME LaunchInv, LaunchInv', WholeInv, BackInv, OneHead, OneAtATime,
         NEW c \in Call, Works(c) \/ Fails(c) \/ StopRefused(c)
  PROVE  BackInv'
<1>1. UNCHANGED <<pending, task, issued, lapsed>>
  BY DEF Works, Fails, StopRefused, driverVars
<1>2. CASE Collect(c)
  <2>1. reserved' = reserved /\ \A d \in Call : calls'[d] # None => calls'[d] = calls[d]
    BY <1>2 DEF Collect, LaunchInv, LaunchTypeOK, TypeOK
  <2> QED
    BY <1>1, <2>1, NobodyServesKeepsBacked DEF RequestStands
<1>3. CASE Serve(c)
  BY <1>1, <1>3, ServeKeepsBacked
<1> QED
  BY <1>2, <1>3 DEF Works, Fails, StopRefused, Serve

LEMMA MachineKeepsBacked ==
  ASSUME LaunchInv, LaunchInv', BackInv,
         \/ \E n \in Node : ReservationExpires(n)
         \/ \E n \in Node, m \in Name : RankDies(n, m)
         \/ UNCHANGED vars
  PROVE  BackInv'
<1>1. UNCHANGED <<calls, pending, task, issued>>
  BY DEF ReservationExpires, RankDies, Expire, Dies, vars, rankVars, driverVars
<1>2. lapsed \subseteq lapsed' /\ \A n \in Node : n \notin lapsed' => reserved'[n] = reserved[n]
  BY DEF ReservationExpires, RankDies, Expire, Dies, vars, rankVars, driverVars,
     LaunchInv, LaunchTypeOK, TypeOK
<1> QED
  BY <1>1, <1>2, NobodyServesKeepsBacked DEF RequestStands

LEMMA RestartKeepsBacked ==
  ASSUME LaunchInv, LaunchInv', BackInv, NEW n \in Node, AgentRestarts(n)
  PROVE  BackInv'
<1>0. LaunchTypeOK /\ TypeOK
  BY DEF LaunchInv, LaunchTypeOK
<1>1. Restart(n) /\ issued' = issued /\ lapsed \subseteq lapsed' /\ n \in lapsed'
  BY <1>0 DEF AgentRestarts, LaunchTypeOK
<1>2. \A m \in Node : m \notin lapsed' => reserved'[m] = reserved[m]
  <2>1. reserved' = [reserved EXCEPT ![n] = None]
    BY <1>1, Zenon DEF Restart
  <2> QED
    BY <1>0, <1>1, <2>1 DEF TypeOK
<1>3. \A h \in HeadNode : pending'[h] # None => pending'[h] = pending[h]
  BY DEF AgentRestarts
<1>4. lapsed' = Node \/ task' = task
  <2>1. n \notin HeadNode => \A t \in Task : task'[t] = task[t]
    BY LaunchAssumption DEF AgentRestarts, Mine
  <2>2. task' \in [Task -> Ceremony \cup {None}] /\ task \in [Task -> Ceremony \cup {None}]
    BY <1>0 DEF LaunchTypeOK, LaunchInv
  <2>3. n \notin HeadNode => task' = task
    BY <2>1, <2>2
  <2>4. n \in HeadNode => lapsed' = Node
    BY DEF AgentRestarts
  <2> QED
    BY <2>3, <2>4
<1>5. \A t \in Task : task'[t] # None => task'[t] = task[t]
  BY DEF AgentRestarts
<1>6. ASSUME NEW c \in Call, calls'[c] # None
      PROVE  /\ calls[c] # None /\ RequestStands(c)
             /\ calls'[c] = calls[c] \/ (calls'[c].at = "done" /\ calls'[c].reply = "lost")
  <2> DEFINE k == [calls[c] EXCEPT !.at = "done", !.reply = "lost"]
  <2>0. calls'[c] = IF calls[c] # None /\ calls[c].node = n /\ calls[c].at # "done"
                    THEN k ELSE calls[c]
    BY <1>1, <1>6, Zenon DEF Restart
  <2>1. calls[c] # None /\ calls[c] \in CallRecord
    BY <1>0, <1>6, <2>0 DEF TypeOK
  <2>2. /\ k.op = calls[c].op /\ k.node = calls[c].node /\ k.epoch = calls[c].epoch
        /\ k.name = calls[c].name /\ k.at = "done" /\ k.reply = "lost"
    BY <2>1 DEF CallRecord
  <2> HIDE DEF k
  <2> QED
    BY <2>0, <2>1, <2>2 DEF RequestStands
<1> QED
  BY <1>1, <1>2, <1>3, <1>4, <1>5, <1>6, NobodyServesKeepsBacked

\* What launch e takes for granted of its machines stands.
AsksAsItDid == \A e \in Epoch : Asking(e)' => Asking(e) \/ issued[e] = None

\* What is pending was so before, or is backed now.
PendsBacked ==
  \A h \in HeadNode, e \in Epoch : pending'[h] = e =>
    \/ pending[h] = e
    \/ /\ issued[e] # None
       /\ \A i \in Everyone(e) : Ranks(e)[i] \notin lapsed' =>
            reserved[Ranks(e)[i]] # None /\ reserved[Ranks(e)[i]].epoch = e

\* The ceremony of t turns, and no handler takes a step.
LEMMA TurnKeepsBacked ==
  ASSUME LaunchInv, LaunchInv', BackInv, OneHead, OneAtATime', NEW t \in Task,
         reserved' = reserved, lapsed \subseteq lapsed',
         \A e \in Epoch : issued[e] # None => issued'[e] = issued[e],
         \A u \in Task : u # t => task'[u] = task[u],
         task[t] # None \/ task'[t] # None, OneAtATime,
         AsksAsItDid, PendsBacked, task'[t] # None => AsksBacked(task[t])',
         \A c \in Call : PrepareAtWork(c)' => PrepareAttended(c)',
         \A c \in Call : calls'[c] # None /\ calls'[c].op \in {"commit", "abort"} =>
           calls'[c] = calls[c] \/ (issued[calls'[c].epoch] # None /\ ~Asking(calls[c].epoch)')
  PROVE  BackInv'
<1>0. LaunchTypeOK /\ None \notin Epoch
  BY NoneIsFresh DEF LaunchInv
<1>1. \A e \in Epoch : issued[e] # None => Everyone(e)' = Everyone(e) /\ Ranks(e)' = Ranks(e)
  BY DEF Everyone, Ranks
<1>2. ASSUME NEW u \in Task, u # t, task'[u] # None
      PROVE  FALSE
  <2>1. task[u] # None
    BY <1>2
  <2>2. task[t] # None => u = t
    BY <2>1, OneTask
  <2>3. task'[t] # None => u = t
    BY <1>2, LaunchAssumption DEF OneHead, OneAtATime
  <2> QED
    BY <1>2, <2>2, <2>3
<1>3. PendingIsBacked'
  <2> SUFFICES ASSUME NEW h \in HeadNode, NEW e \in Epoch, pending'[h] = e
               PROVE  \A i \in Everyone(e)' : Ranks(e)'[i] \notin lapsed' =>
                        reserved[Ranks(e)'[i]] # None /\ reserved[Ranks(e)'[i]].epoch = e
    <3>1. \A h \in HeadNode : pending'[h] # None => pending'[h] \in Epoch
      BY DEF LaunchInv, LaunchTypeOK
    <3> QED
      BY <3>1 DEF PendingIsBacked
  <2>1. issued[e] # None
    BY <1>0 DEF LaunchInv, RecordsFit, Unanimous, PendsBacked
  <2>2. Everyone(e)' = Everyone(e) /\ Ranks(e)' = Ranks(e)
    BY <1>1, <2>1
  <2>3. pending[h] = e => \A i \in Everyone(e) : Ranks(e)[i] \notin lapsed =>
          reserved[Ranks(e)[i]] # None /\ reserved[Ranks(e)[i]].epoch = e
    BY <1>0 DEF BackInv, PendingIsBacked
  <2> QED
    BY <2>2, <2>3 DEF PendsBacked
<1>4. \A u \in Task : task'[u] # None => AsksBacked(task[u])'
  BY <1>2
<1>5. ASSUME NEW c \in Call, calls'[c] # None, calls'[c].op \in {"commit", "abort"}
      PROVE  issued'[calls'[c].epoch] # None /\ ~Asking(calls[c].epoch)'
  <2>1. PICK e \in Epoch : e = calls'[c].epoch
    BY <1>5 DEF LaunchInv, GrantInv, WellTyped, RequestsComplete
  <2>2. issued[e] # None /\ ~Asking(e)'
    BY <1>5, <2>1 DEF BackInv, AsksAsItDid, Asking
  <2> QED
    BY <2>1, <2>2 DEF Asking
<1> QED
  BY <1>3, <1>4, <1>5 DEF BackInv

\* No prepare is at work while the one ceremony waits for nothing.
LEMMA NoPrepareAtWork ==
  ASSUME LaunchInv, BackInv, OneHead, OneAtATime, OneAtATime', NEW t \in Task,
         \A u \in Task : u # t => task'[u] = task[u],
         task[t] # None \/ task'[t] # None, task[t] = None \/ task[t].call = None,
         NEW c \in Call
  PROVE  ~PrepareAtWork(c)
<1> SUFFICES ASSUME PrepareAtWork(c) PROVE FALSE
  OBVIOUS
<1>1. PICK u \in Task : task[u] # None /\ task[u].call = c
  BY AttendedPrepare
<1>2. u # t
  BY <1>1, LaunchNoneIsFresh
<1>3. task[t] = None /\ task'[u] # None /\ task'[t] # None
  BY <1>1, <1>2, OneTask
<1> QED
  BY <1>2, <1>3, LaunchAssumption DEF OneHead, OneAtATime

\* The ceremony of t turns and asks nobody.
LEMMA QuietTurnKeepsBacked ==
  ASSUME LaunchInv, LaunchInv', BackInv, OneHead, OneAtATime, OneAtATime', NEW t \in Task,
         UNCHANGED <<reserved, calls, lapsed>>,
         \A e \in Epoch : issued[e] # None => issued'[e] = issued[e],
         \A u \in Task : u # t => task'[u] = task[u],
         task[t] # None \/ task'[t] # None, task[t] = None \/ task[t].call = None,
         AsksAsItDid, PendsBacked, task'[t] # None => AsksBacked(task[t])'
  PROVE  BackInv'
<1>1. \A c \in Call : ~PrepareAtWork(c)'
  BY NoPrepareAtWork DEF PrepareAtWork
<1> QED
  BY <1>1, TurnKeepsBacked

\* Nor does it ask for a launch any more.
LEMMA PastAskingKeepsBacked ==
  ASSUME LaunchInv, LaunchInv', BackInv, OneHead, OneAtATime, OneAtATime', NEW t \in Task,
         UNCHANGED <<reserved, calls, lapsed, issued>>,
         NEW j, task' = [task EXCEPT ![t] = j], j = None \/ j.stage # "ask",
         task[t] # None \/ j # None, task[t] = None \/ task[t].call = None,
         \A h \in HeadNode : pending'[h] # None => pending'[h] = pending[h]
  PROVE  BackInv'
<1>1. task'[t] = j /\ \A u \in Task : u # t => task'[u] = task[u]
  BY DEF LaunchInv, LaunchTypeOK
<1>2. None \notin Epoch
  BY NoneIsFresh
<1>3. AsksAsItDid
  BY <1>1, <1>2 DEF AsksAsItDid, Asking
<1>4. PendsBacked
  BY <1>2 DEF PendsBacked
<1>5. task'[t] # None => AsksBacked(task[t])'
  BY <1>1 DEF AsksBacked
<1> QED
  BY <1>1, <1>3, <1>4, <1>5, QuietTurnKeepsBacked

LEMMA StageEndKeepsBacked ==
  ASSUME LaunchInv, LaunchInv', BackInv, OneHead, OneAtATime, OneAtATime', NEW t \in Task,
         EndCommit(t) \/ EndHalt(t) \/ Reread(t) \/ ClearRecord(t)
  PROVE  BackInv'
<1>1. /\ task[t] # None /\ LaunchTypeOK
      /\ UNCHANGED <<reserved, calls, lapsed, issued, pending>>
  BY DEF EndCommit, EndHalt, Reread, ClearRecord, StageOver, At, rankVars, LaunchInv
<1>2. PICK k \in Ceremony : k = task[t] /\ Fits(k, Home[t])
  BY <1>1, TaskFacts
<1>3. k.call = None
  BY <1>2 DEF Fits, EndCommit, EndHalt, Reread, ClearRecord, StageOver, At
<1>4. \E j : task' = [task EXCEPT ![t] = j] /\ (j = None \/ j.stage # "ask")
  <2>1. CASE EndCommit(t)
    <3>1. [k EXCEPT !.stage = "unstart", !.todo = k.good].stage # "ask"
      BY DEF Ceremony
    <3> QED
      BY <1>2, <2>1, <3>1 DEF EndCommit, Return
  <2>2. CASE EndHalt(t)
    <3>1. [k EXCEPT !.stage = "clear"].stage # "ask"
      BY DEF Ceremony
    <3> QED
      BY <1>2, <2>2, <3>1 DEF EndHalt
  <2>3. CASE Reread(t)
    <3> DEFINE r == running[Home[t]]
               x == [k EXCEPT !.stage = "clear"]
               y == [k EXCEPT !.stage = "halt", !.bad = {}, !.epoch = r.epoch, !.todo = r.started]
    <3>1. x.stage = "clear" /\ y.stage = "halt"
      BY DEF Ceremony
    <3>2. task' = [task EXCEPT ![t] = IF r = None THEN x ELSE y]
      BY <1>1, <1>2, <2>3 DEF Reread, Mine
    <3> HIDE DEF x, y
    <3> QED
      BY <3>1, <3>2
  <2>4. CASE ClearRecord(t)
    BY <2>4 DEF ClearRecord, Return
  <2> QED
    BY <2>1, <2>2, <2>3, <2>4
<1> QED
  BY <1>1, <1>2, <1>3, <1>4, PastAskingKeepsBacked

LEMMA BeginKeepsBacked ==
  ASSUME LaunchInv, LaunchInv', BackInv, OneHead, OneAtATime, OneAtATime', NEW t \in Task,
         BeginCommit(t) \/ BeginAbort(t) \/ BeginStop(t) \/ BeginSupervise(t)
  PROVE  BackInv'
<1>1. LaunchTypeOK /\ UNCHANGED <<reserved, calls, lapsed, issued>>
  BY DEF BeginCommit, BeginAbort, BeginStop, BeginSupervise, rankVars, LaunchInv
<1>2. \A h \in HeadNode : pending'[h] # None => pending'[h] = pending[h]
  BY <1>1 DEF BeginCommit, BeginAbort, BeginStop, BeginSupervise, TakePending, LaunchTypeOK
<1>3. PICK stage, op, e, todo :
        stage \in {"start", "release", "halt", "watch"} /\ Begin(t, op, stage, e, todo)
  BY DEF BeginCommit, BeginAbort, BeginStop, BeginSupervise
<1> DEFINE x == [op |-> op, stage |-> stage, epoch |-> e, todo |-> todo,
                 good |-> {}, bad |-> {}, call |-> None]
<1>4. x.stage # "ask"
  BY <1>3
<1>5. task[t] = None /\ task' = [task EXCEPT ![t] = x]
  BY <1>3 DEF Begin
<1> HIDE DEF x
<1>6. CASE x = None
  <2>1. \A u \in Task : task'[u] = task[u]
    BY <1>1, <1>5, <1>6 DEF LaunchTypeOK
  <2>2. task' = task
    BY <1>1, <2>1 DEF LaunchTypeOK, LaunchInv
  <2> QED
    BY <1>1, <1>2, <2>2, NobodyServesKeepsBacked DEF RequestStands
<1>7. CASE x # None
  BY <1>1, <1>2, <1>4, <1>5, <1>7, PastAskingKeepsBacked
<1> QED
  BY <1>6, <1>7

LEMMA BeginPrepareKeepsBacked ==
  ASSUME LaunchInv, LaunchInv', BackInv, OneHead, OneAtATime, OneAtATime', NEW t \in Task,
         BeginPrepare(t)
  PROVE  BackInv'
<1>1. LaunchTypeOK /\ UNCHANGED <<reserved, calls, lapsed, pending>>
  BY DEF BeginPrepare, rankVars, LaunchInv
<1>2. PICK e \in Epoch, r \in Recipe, ranks \in Roster :
        /\ issued[e] = None
        /\ issued' = [issued EXCEPT ![e] = [head |-> Home[t], recipe |-> r, ranks |-> ranks]]
        /\ Begin(t, "prepare", "ask", e, 1..Len(ranks))
  BY DEF BeginPrepare, Mine
<1>3. \A x \in Epoch : issued[x] # None => issued'[x] = issued[x]
  BY <1>1, <1>2 DEF LaunchTypeOK
<1>4. 1..Len(ranks) \in SUBSET Nat
  BY LaunchAssumption
<1>5. PICK j \in Ceremony :
        /\ task[t] = None /\ j # None /\ task' = [task EXCEPT ![t] = j]
        /\ j.stage = "ask" /\ j.epoch = e /\ j.good = {} /\ j.call = None
  <2>1. Begins(t, "prepare", "ask", e, 1..Len(ranks))
    BY <1>2, <1>4, BeginsWith
  <2> QED
    BY <2>1 DEF Begins
<1>6. task'[t] = j /\ \A u \in Task : u # t => task'[u] = task[u]
  BY <1>1, <1>5 DEF LaunchTypeOK
<1>7. AsksAsItDid
  BY <1>1, <1>2, <1>5, <1>6 DEF AsksAsItDid, Asking
<1>8. PendsBacked
  BY <1>1 DEF PendsBacked
<1>9. AsksBacked(task[t])'
  BY <1>5, <1>6 DEF AsksBacked, SaidYes
<1> QED
  BY <1>1, <1>3, <1>5, <1>6, <1>7, <1>8, <1>9, QuietTurnKeepsBacked

\* A prepare that all have agreed to becomes pending with every machine held.
LEMMA EndPrepareKeepsBacked ==
  ASSUME LaunchInv, LaunchInv', BackInv, OneHead, OneAtATime, OneAtATime', NEW t \in Task,
         EndPrepare(t)
  PROVE  BackInv'
<1>1. /\ task[t] # None /\ task[t].stage = "ask" /\ task[t].call = None /\ LaunchTypeOK
      /\ UNCHANGED <<reserved, calls, lapsed, issued>>
  BY DEF EndPrepare, StageOver, At, rankVars, LaunchInv
<1>2. PICK k \in Ceremony : k = task[t] /\ AsksBacked(k)
  BY <1>1, TaskFacts DEF BackInv
<1>3. PICK e \in Epoch : e = k.epoch /\ issued[e] # None
  BY <1>1, <1>2, TaskFacts
<1>4. CASE k.good = Everyone(e) /\ pending' = [pending EXCEPT ![Home[t]] = e] /\ Return(t)
  <2>1. task'[t] = None /\ \A u \in Task : u # t => task'[u] = task[u]
    BY <1>1, <1>4 DEF Return, LaunchTypeOK
  <2>2. \A h \in HeadNode : pending'[h] = pending[h] \/ pending'[h] = e
    BY <1>1, <1>4 DEF LaunchTypeOK
  <2>3. Asking(e)
    BY <1>1, <1>2, <1>3 DEF Asking
  <2>4. AsksAsItDid
    BY <2>1, <2>2, <2>3 DEF AsksAsItDid, Asking
  <2>5. \A i \in Everyone(e) : Ranks(e)[i] \notin lapsed =>
          reserved[Ranks(e)[i]] # None /\ reserved[Ranks(e)[i]].epoch = e
    BY <1>1, <1>2, <1>3, <1>4 DEF AsksBacked, SaidYes, Backs
  <2>6. PendsBacked
    BY <1>1, <1>3, <2>2, <2>5 DEF PendsBacked
  <2> QED
    BY <1>1, <2>1, <2>4, <2>6, QuietTurnKeepsBacked
<1>5. CASE /\ task' = [task EXCEPT ![t] =
                         Onward([k EXCEPT !.stage = "release", !.todo = k.good])]
           /\ UNCHANGED pending
  <2> DEFINE x == [k EXCEPT !.stage = "release", !.todo = k.good]
  <2>1. x \in Ceremony /\ x.stage = "release"
    BY DEF Ceremony
  <2>2. PICK j : j = Onward(x)
    OBVIOUS
  <2>3. task' = [task EXCEPT ![t] = j]
    BY <1>5, <2>2
  <2> HIDE DEF x
  <2>4. j = None \/ j.stage # "ask"
    BY <2>1, <2>2, OnwardOutcome
  <2> QED
    BY <1>1, <1>5, <2>3, <2>4, PastAskingKeepsBacked
<1> QED
  BY <1>2, <1>3, <1>4, <1>5 DEF EndPrepare, Mine

LEMMA AskKeepsBacked ==
  ASSUME LaunchInv, LaunchInv', BackInv, OneHead, OneAtATime, OneAtATime', NEW t \in Task,
         Ask(t)
  PROVE  BackInv'
<1>1. /\ task[t] # None /\ task[t].todo # {} /\ task[t].call = None /\ TypeOK /\ LaunchTypeOK
      /\ UNCHANGED <<reserved, pending, issued, lapsed>>
  BY DEF Ask, ToAsk, Request, LaunchInv, LaunchTypeOK
<1>2. PICK c \in Call : /\ calls[c] = None
                        /\ task' = [task EXCEPT ![t] = [@ EXCEPT !.call = c]]
                        /\ \A d \in Call : d # c => calls'[d] = calls[d]
                        /\ calls'[c].at = "start" /\ calls'[c].reply = "none"
  <2> DEFINE op == RankOp(task[t].stage)
             x == IF op \in {"prepare", "commit", "abort"} THEN task[t].epoch ELSE None
             m == IF op \in {"prepare", "alive", "stop"}
                  THEN ContainerOf(task[t].epoch, Min(task[t].todo)) ELSE None
             r == [op |-> op, node |-> Asked(t), epoch |-> x, name |-> m,
                   at |-> "start", grant |-> 0, reply |-> "none"]
  <2>1. PICK c \in Call : /\ calls[c] = None
                          /\ Request(c, op, Asked(t), x, m)
                          /\ task' = [task EXCEPT ![t] = [@ EXCEPT !.call = c]]
    BY DEF Ask
  <2>2. calls' = [calls EXCEPT ![c] = r]
    BY <2>1 DEF Request
  <2>3. r.at = "start" /\ r.reply = "none"
    OBVIOUS
  <2> HIDE DEF r
  <2>4. calls'[c] = r /\ \A d \in Call : d # c => calls'[d] = calls[d]
    BY <1>1, <2>2 DEF TypeOK
  <2> QED
    BY <2>1, <2>3, <2>4
<1>3. PICK k \in Ceremony : k = task[t] /\ AsksBacked(k)
  BY <1>1, TaskFacts DEF BackInv
<1>4. PICK j \in Ceremony :
        /\ j = [k EXCEPT !.call = c] /\ j.call = c /\ c # None /\ j # None
        /\ j.stage = k.stage /\ j.epoch = k.epoch /\ j.good = k.good /\ j.op = k.op
  <2> DEFINE j == [k EXCEPT !.call = c]
  <2>1. /\ j \in Ceremony /\ j.call = c
        /\ j.stage = k.stage /\ j.epoch = k.epoch /\ j.good = k.good /\ j.op = k.op
    BY DEF Ceremony
  <2> QED
    BY <2>1, LaunchNoneIsFresh
<1>5. task'[t] = j /\ \A u \in Task : u # t => task'[u] = task[u]
  BY <1>1, <1>2, <1>3, <1>4 DEF LaunchTypeOK
<1>6. PICK e \in Epoch : e = k.epoch /\ issued[e] # None
  BY <1>1, <1>3, TaskFacts
<1>7. AsksAsItDid
  <2>1. \A u \in Task : task'[u] # None =>
          /\ task[u] # None
          /\ task'[u].stage = task[u].stage /\ task'[u].epoch = task[u].epoch
    BY <1>1, <1>3, <1>4, <1>5
  <2> QED
    BY <1>1, <2>1 DEF AsksAsItDid, Asking
<1>8. PendsBacked
  BY <1>1 DEF PendsBacked
<1>9. AsksBacked(task[t])'
  <2>1. Ranks(e)' = Ranks(e) /\ Everyone(e)' = Everyone(e)
    BY <1>1 DEF Ranks, Everyone
  <2> QED
    BY <1>1, <1>2, <1>3, <1>4, <1>5, <1>6, <2>1 DEF AsksBacked, SaidYes, Backs
<1>10. /\ CallFits(j)' /\ RankOp(k.stage) \in Op
       /\ RankOp(k.stage) = "prepare" <=> k.stage = "ask"
       /\ RankOp(k.stage) \in {"commit", "abort"} => k.stage \in {"start", "release"}
  <2>1. CallFits(j)'
    BY <1>4, <1>5 DEF LaunchInv, CeremoniesFit
  <2> QED
    BY <1>1, <1>3, <2>1, AskedFacts, RankOpTyped
<1>11. calls'[c].op = RankOp(k.stage) /\ (calls'[c].op \in Taking => calls'[c].epoch = e)
  BY <1>4, <1>6, <1>10 DEF CallFits
<1>12. ASSUME NEW d \in Call, PrepareAtWork(d)'
       PROVE  PrepareAttended(d)'
  <2>1. d = c
    <3>1. d # c => PrepareAtWork(d)
      BY <1>1, <1>2, <1>12 DEF PrepareAtWork
    <3> QED
      BY <1>1, <1>5, <3>1, NoPrepareAtWork
  <2>2. k.stage = "ask"
    BY <1>10, <1>11, <1>12, <2>1 DEF PrepareAtWork
  <2> QED
    BY <1>2, <1>4, <1>5, <2>1, <2>2 DEF PrepareAttended
<1>13. ASSUME calls'[c].op \in {"commit", "abort"}
       PROVE  issued[calls'[c].epoch] # None /\ ~Asking(calls[c].epoch)'
  <2>1. calls'[c].epoch = e /\ k.stage \in {"start", "release"}
    BY <1>10, <1>11, <1>13 DEF Taking
  <2>2. k.op \in Taking
    BY <1>1, <1>3, <2>1, TaskFacts DEF Fits, Taking
  <2>3. \A h \in HeadNode : pending[h] # e
    BY <1>1, <1>3, <1>6, <2>2 DEF LaunchInv, InOneHand
  <2>4. \A u \in Task : task[u] # None => u = t
    BY <1>1, OneTask
  <2>5. ~Asking(e)'
    BY <1>1, <1>4, <1>5, <2>1, <2>3, <2>4 DEF Asking
  <2> QED
    BY <1>6, <2>1, <2>5 DEF Asking
<1>14. \A d \in Call : calls'[d] # None /\ calls'[d].op \in {"commit", "abort"} =>
         calls'[d] = calls[d] \/ (issued[calls'[d].epoch] # None /\ ~Asking(calls[d].epoch)')
  BY <1>2, <1>13
<1> QED
  BY <1>1, <1>5, <1>7, <1>8, <1>9, <1>12, <1>14, TurnKeepsBacked

\* A yes that is counted was said; a prepare that is not waited for any more is
\* over, or its machine has lapsed.
LEMMA LearnKeepsBacked ==
  ASSUME LaunchInv, LaunchInv', BackInv, OneHead, OneAtATime, OneAtATime', NEW t \in Task,
         task[t] # None, task[t].todo # {}, NEW yes \in BOOLEAN,
         task' = [task EXCEPT ![t] = Learn(task[t], yes)],
         Learn(task[t], yes) = None \/ Continues(Learn(task[t], yes), task[t]),
         UNCHANGED <<reserved, pending, issued>>, lapsed \subseteq lapsed',
         \A c \in Call : calls'[c] # None => calls'[c] = calls[c],
         yes /\ task[t].stage = "ask" => SaidYes(task[t], Min(task[t].todo)),
         \A c \in Call : task[t].stage = "ask" /\ task[t].call = c /\ calls'[c] # None
                           => calls[c].node \in lapsed'
  PROVE  BackInv'
<1>1. LaunchTypeOK
  BY DEF LaunchInv
<1>2. PICK k \in Ceremony : k = task[t] /\ AsksBacked(k)
  BY TaskFacts DEF BackInv
<1>3. PICK j : j = Learn(k, yes) /\ (j = None \/ Continues(j, k))
  BY <1>2
<1>4. task'[t] = j /\ \A u \in Task : u # t => task'[u] = task[u]
  BY <1>1, <1>2, <1>3 DEF LaunchTypeOK
<1>5. PICK e \in Epoch : e = k.epoch /\ issued[e] # None
  BY <1>2, TaskFacts
<1>6. PICK i0 \in Nat : i0 = Min(k.todo)
  BY <1>2, AskedFacts
<1>7. Learned(k, yes, i0, j)
  BY <1>3, <1>6, LearnOutcome
<1>8. k.stage \in {"ask", "start", "settle", "unstart", "release", "watch", "halt"}
  BY <1>2, AskedFacts
<1>9. j # None /\ j.stage = "ask" =>
        /\ k.stage = "ask" /\ j.epoch = e /\ j.call = None
        /\ yes => j.good = k.good \cup {i0}
        /\ ~yes => j.good = k.good
  <2>1. j # None /\ j.stage = "ask" => k.stage = "ask"
    BY <1>7, <1>8 DEF Learned
  <2>2. j # None => j.epoch = e /\ j.call = None
    BY <1>3, <1>5 DEF Continues
  <2> QED
    BY <1>7, <2>1, <2>2 DEF Learned
<1>10. AsksAsItDid
  <2>1. \A u \in Task : task'[u] # None /\ task'[u].stage = "ask" =>
          task[u] # None /\ task[u].stage = "ask" /\ task'[u].epoch = task[u].epoch
    BY <1>2, <1>4, <1>5, <1>9
  <2> QED
    BY <2>1 DEF AsksAsItDid, Asking
<1>11. PendsBacked
  BY DEF PendsBacked
<1>12. task'[t] # None => AsksBacked(task[t])'
  <2> SUFFICES ASSUME j # None, j.stage = "ask"
               PROVE  AsksBacked(task[t])'
    BY <1>4 DEF AsksBacked
  <2>1. Ranks(e)' = Ranks(e) /\ Everyone(e)' = Everyone(e)
    BY DEF Ranks, Everyone
  <2>2. \A i \in j.good : SaidYes(k, i)
    BY <1>2, <1>6, <1>9 DEF SaidYes
  <2>3. \A i \in Everyone(e) : i \in j.good /\ Ranks(e)[i] \notin lapsed' =>
          reserved[Ranks(e)[i]] # None /\ reserved[Ranks(e)[i]].epoch = e
    BY <1>2, <1>5, <1>9, <2>2 DEF AsksBacked, Backs
  <2> QED
    BY <1>4, <1>9, <2>1, <2>3 DEF AsksBacked, SaidYes, Backs
<1>13. ASSUME NEW c \in Call, PrepareAtWork(c)'
       PROVE  FALSE
  <2>1. PrepareAtWork(c) /\ calls[c].node \notin lapsed'
    BY <1>13 DEF PrepareAtWork
  <2>2. PICK u \in Task : task[u] # None /\ task[u].stage = "ask" /\ task[u].call = c
    BY <2>1, AttendedPrepare
  <2>3. u = t
    BY <2>2, OneTask
  <2> QED
    BY <1>13, <2>1, <2>2, <2>3 DEF PrepareAtWork
<1> QED
  BY <1>4, <1>10, <1>11, <1>12, <1>13, TurnKeepsBacked

LEMMA AnswerKeepsBacked ==
  ASSUME LaunchInv, LaunchInv', BackInv, OneHead, OneAtATime, OneAtATime', NEW t \in Task,
         Answer(t)
  PROVE  BackInv'
<1>1. /\ task[t] # None /\ task[t].todo # {} /\ task[t].call # None /\ TypeOK
      /\ UNCHANGED <<pending, issued, lapsed>>
  BY TaskFacts DEF Answer, Waiting, Fits, LaunchInv, LaunchTypeOK
<1>2. Collect(task[t].call) /\ task[t].call \in Call
  BY <1>1, TaskFacts DEF Answer, Ceremony
<1>3. PICK yes \in BOOLEAN : yes = Heard(t)
  BY DEF Heard
<1>4. Learn(task[t], yes) = None \/ Continues(Learn(task[t], yes), task[t])
  <2>1. task[t].stage = "ask" /\ yes => Min(task[t].todo) \in Agreeing[task[t].epoch]
    BY <1>3, YesToPrepare DEF Answer
  <2> QED
    BY <1>1, <2>1, LearnStep DEF Continues
<1>5. /\ \A c \in Call : c # task[t].call => calls'[c] = calls[c]
      /\ calls'[task[t].call] = None
      /\ reserved' = reserved
  BY <1>1, <1>2 DEF Collect, TypeOK
<1>6. yes /\ task[t].stage = "ask" => SaidYes(task[t], Min(task[t].todo))
  <2>1. task[t].stage = "ask" => calls[task[t].call].op = "prepare"
    BY <1>1, TaskFacts, RankOpTyped DEF CallFits
  <2> QED
    BY <1>1, <1>3, <2>1 DEF Heard, SaidYes
<1>7. task' = [task EXCEPT ![t] = Learn(task[t], yes)]
  BY <1>3 DEF Answer
<1> QED
  BY <1>1, <1>4, <1>5, <1>6, <1>7, LearnKeepsBacked

LEMMA NoAnswerKeepsBacked ==
  ASSUME LaunchInv, LaunchInv', BackInv, OneHead, OneAtATime, OneAtATime', NEW t \in Task,
         Unreachable(t) \/ GiveUp(t)
  PROVE  BackInv'
<1>1. /\ task[t] # None /\ task[t].todo # {} /\ LaunchTypeOK
      /\ UNCHANGED <<reserved, calls, pending, issued>>
  BY TaskFacts DEF Unreachable, GiveUp, ToAsk, Waiting, Fits, rankVars, LaunchInv
<1>2. PICK yes \in BOOLEAN : yes = FALSE
  OBVIOUS
<1>3. Learn(task[t], yes) = None \/ Continues(Learn(task[t], yes), task[t])
  BY <1>1, <1>2, LearnStep DEF Continues
<1>4. /\ task' = [task EXCEPT ![t] = Learn(task[t], yes)]
      /\ lapsed \subseteq lapsed'
  BY <1>2 DEF Unreachable, GiveUp
<1>5. ASSUME NEW c \in Call, task[t].stage = "ask", task[t].call = c
      PROVE  calls[c].node \in lapsed'
  <2>1. c # None
    BY LaunchNoneIsFresh
  <2>2. calls[c].node = Asked(t)
    BY <1>1, <1>5, <2>1, TaskFacts DEF CallFits, Asked
  <2> QED
    BY <1>5, <2>1, <2>2 DEF Unreachable, GiveUp, ToAsk
<1> QED
  BY <1>1, <1>2, <1>3, <1>4, <1>5, LearnKeepsBacked

-----------------------------------------------------------------------------
(* The invariant of what is pending *)

LEMMA BackInvInit == LaunchInit => BackInv
<1> SUFFICES ASSUME LaunchInit PROVE BackInv
  OBVIOUS
<1>1. /\ \A c \in Call : calls[c] = None
      /\ \A n \in Node : reserved[n] = None
      /\ \A h \in HeadNode : pending[h] = None
      /\ \A t \in Task : task[t] = None
  BY DEF LaunchInit, RankInit
<1> QED
  BY <1>1 DEF BackInv, PendingIsBacked, PrepareAtWork

LEMMA BackInvStep ==
  ASSUME OneHead, LaunchInv, WholeInv, OneAtATime, LaunchInv', OneAtATime', BackInv,
         [LaunchNext]_vars
  PROVE  BackInv'
<1>1. ASSUME NEW t \in Task,
             Operate(t) \/ BeginSupervise(t) \/ Drive(t) \/ Unreachable(t) \/ GiveUp(t)
      PROVE  BackInv'
  <2>1. CASE BeginPrepare(t)
    BY <2>1, BeginPrepareKeepsBacked
  <2>2. CASE BeginCommit(t) \/ BeginAbort(t) \/ BeginStop(t) \/ BeginSupervise(t)
    BY <2>2, BeginKeepsBacked
  <2>3. CASE Ask(t)
    BY <2>3, AskKeepsBacked
  <2>4. CASE Answer(t)
    BY <2>4, AnswerKeepsBacked
  <2>5. CASE EndPrepare(t)
    BY <2>5, EndPrepareKeepsBacked
  <2>6. CASE EndCommit(t) \/ EndHalt(t) \/ Reread(t) \/ ClearRecord(t)
    BY <2>6, StageEndKeepsBacked
  <2>7. CASE Unreachable(t) \/ GiveUp(t)
    BY <2>7, NoAnswerKeepsBacked
  <2> QED
    BY <1>1, <2>1, <2>2, <2>3, <2>4, <2>5, <2>6, <2>7 DEF Operate, Drive
<1>2. ASSUME NEW c \in Call, Works(c) \/ Fails(c) \/ StopRefused(c)
      PROVE  BackInv'
  BY <1>2, CallAtWorkKeepsBacked
<1>3. ASSUME \/ \E n \in Node : ReservationExpires(n)
             \/ \E n \in Node, m \in Name : RankDies(n, m)
             \/ UNCHANGED vars
      PROVE  BackInv'
  BY <1>3, MachineKeepsBacked
<1>4. ASSUME NEW n \in Node, AgentRestarts(n)
      PROVE  BackInv'
  BY <1>4, RestartKeepsBacked
<1> QED
  BY <1>1, <1>2, <1>3, <1>4 DEF LaunchNext, AtRest

\* What the page offers to commit can be committed (abort_inner: "an abort for a
\* stale epoch arriving late must not release a prepare made since"): with one
\* head in the fleet, every machine of a pending launch holds its reservation,
\* unless it ran out, went down with its agent, or was left to a prepare the head
\* had given up on.
THEOREM PendingCanBeCommitted ==
  ASSUME OneHead
  PROVE  LaunchInTurn => []PendingIsBacked
<1>1. LaunchInit => BackInv
  BY BackInvInit
<1>2. /\ LaunchInv /\ WholeInv /\ OneAtATime
      /\ (LaunchInv /\ WholeInv /\ OneAtATime)'
      /\ BackInv /\ [LaunchNext /\ OneAtATime']_vars
      => BackInv'
  BY BackInvStep
<1>3. BackInv => PendingIsBacked
  BY DEF BackInv
<1> QED
  BY <1>1, <1>2, <1>3, WholeInvHolds, PTL DEF LaunchInTurn
=============================================================================
