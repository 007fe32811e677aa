-------------------------- MODULE BenchQueueProofs --------------------------
(***************************************************************************)
(* What the bench queue guarantees for any number of jobs, keys, requests  *)
(* and restarts.                                                           *)
(***************************************************************************)
EXTENDS BenchQueue, FiniteSetTheorems, SequenceTheorems, WellFoundedInduction, TLAPS

EmptyHanded == {"list", "recover", "idle", "retain"}
BeforeStart == {"begin", "preparing", "prepared", "building", "built", "checked"}

\* The job in hand is on disk, and an ending is known before it is written.
HandIsFull ==
  IF worker.at \in EmptyHanded THEN worker.job = None ELSE worker.job \in OnDisk
EndIsKnown == worker.at \in {"killing", "finish", "record"} => worker.end \in Outcome

\* Recovery is a phase of its own, and has a list only while it lasts.
RecoveryIsAPhase ==
  /\ worker.at \in Recovering => worker.recovering
  /\ worker.at \in {"idle", "picked", "retain"} => ~worker.recovering
  /\ ~worker.recovering => todo = {}
  /\ todo \subseteq OnDisk

WellFormed == TypeOK /\ HandIsFull /\ EndIsKnown /\ RecoveryIsAPhase

\* Once the box was found free and until the gate starts, no gate runs.
BoxIsFree ==
  /\ worker.at \in BeforeStart => Up = {}
  /\ \A i, j \in Up : i = j

\* A job that can still be picked has never had a gate.
QueuedIsFresh ==
  /\ \A j \in Job : j > minted => record[j] = None /\ child[j] = "none"
  /\ \A j \in InState("queued") : child[j] = "none"
  /\ worker.at \in BeforeStart \cup {"picked"} => child[worker.job] = "none"
  /\ worker.at \in BeforeStart \ {"begin"} => record[worker.job].state # "queued"

\* What has begun is in hand or on the list, once there is a list.
BegunIsKnown ==
  /\ worker.at # "list" => Unfinished \subseteq {worker.job} \cup todo
  /\ worker.at = "picked" => worker.job \notin Unfinished

Said(j, o) == \E i \in DOMAIN journal[j] : journal[j][i] = o

\* Whoever is about to record an ending has journaled it; no request is about
\* a job still to be created.
EndingsAreSaid ==
  /\ worker.at = "record" => Said(worker.job, worker.end)
  /\ \A r \in Req : At(r, "save") /\ requests[r].job \in OnDisk
                      => Said(requests[r].job, "cancelled")
  /\ \A r \in Req : requests[r] # None /\ requests[r].job # None
                      => requests[r].job <= minted
  /\ OutcomeIsJournaled

QueueInv ==
  /\ WellFormed
  /\ BoxIsFree
  /\ QueuedIsFresh
  /\ BegunIsKnown
  /\ EndingsAreSaid

LEMMA InitQueueInv == Init => QueueInv
<1> SUFFICES ASSUME Init PROVE QueueInv
  OBVIOUS
<1> USE NoneIsFresh, BoundsAreNat DEF Init, AtStart
<1>1. TypeOK
  BY SMTT(30) DEF TypeOK, Worker, Stage, Recovering, Child
<1>2. HandIsFull /\ EndIsKnown /\ RecoveryIsAPhase
  BY DEF HandIsFull, EmptyHanded, EndIsKnown, RecoveryIsAPhase, Recovering, OnDisk
<1>3. BoxIsFree
  BY DEF BoxIsFree, BeforeStart, Up
<1>4. QueuedIsFresh
  BY DEF QueuedIsFresh, BeforeStart, InState, OnDisk
<1>5. BegunIsKnown
  BY DEF BegunIsKnown
<1>6. EndingsAreSaid
  BY DEF EndingsAreSaid, At, OutcomeIsJournaled, InState, OnDisk
<1> QED
  BY <1>1, <1>2, <1>3, <1>4, <1>5, <1>6 DEF QueueInv, WellFormed

-----------------------------------------------------------------------------
(* The three things a step writes: a record, a request, the worker *)

LEMMA SaveWrites ==
  ASSUME TypeOK, NEW j \in OnDisk, NEW s \in State, NEW o \in Outcome \cup {None},
         s = "done" <=> o # None, Save(j, s, o)
  PROVE  /\ record' \in [Job -> JobRecord \cup {None}]
         /\ \A i \in Job : i # j => record'[i] = record[i]
         /\ record'[j] # None
         /\ record'[j].state = s
         /\ record'[j].outcome = o
         /\ OnDisk' = OnDisk
<1> DEFINE new == [record[j] EXCEPT !.state = s, !.outcome = o]
<1>1. j \in Job /\ record[j] \in JobRecord
  BY DEF OnDisk, TypeOK
<1>2. new \in JobRecord /\ new.state = s /\ new.outcome = o
  BY <1>1 DEF JobRecord
<1>3. record' = [record EXCEPT ![j] = new]
  BY DEF Save
<1>4. new # None
  BY <1>2, NoneIsFresh
<1> HIDE DEF new
<1>5. record'[j] = new /\ \A i \in Job : i # j => record'[i] = record[i]
  BY <1>1, <1>3 DEF TypeOK
<1>6. record' \in [Job -> JobRecord \cup {None}]
  BY <1>1, <1>2, <1>3 DEF TypeOK
<1>7. OnDisk' = OnDisk
  BY <1>1, <1>4, <1>5 DEF OnDisk
<1> QED
  BY <1>2, <1>4, <1>5, <1>6, <1>7

LEMMA JournalGrows ==
  ASSUME TypeOK, NEW j \in Job, NEW e \in Event, Journal(j, e)
  PROVE  /\ journal' \in [Job -> Seq(Event)]
         /\ \E i \in DOMAIN journal'[j] : journal'[j][i] = e
         /\ \A h \in Job : \A o : Said(h, o) => \E i \in DOMAIN journal'[h] : journal'[h][i] = o
<1> DEFINE new == Append(journal[j], e)
<1>1. journal[j] \in Seq(Event) /\ journal' = [journal EXCEPT ![j] = new]
  BY DEF Journal, TypeOK
<1>2. /\ new \in Seq(Event)
      /\ Len(new) = Len(journal[j]) + 1
      /\ \A i \in 1..Len(journal[j]) : new[i] = journal[j][i]
      /\ new[Len(journal[j]) + 1] = e
  BY <1>1, AppendProperties
<1>3. DOMAIN new = 1..(Len(journal[j]) + 1) /\ DOMAIN journal[j] = 1..Len(journal[j])
  BY <1>1, <1>2
<1>4. Len(journal[j]) \in Nat
  BY <1>1
<1> HIDE DEF new
<1>5. journal' \in [Job -> Seq(Event)] /\ journal'[j] = new
  BY <1>1, <1>2 DEF TypeOK
<1>6. \A h \in Job : h # j => journal'[h] = journal[h]
  BY <1>1 DEF TypeOK
<1>7. \E i \in DOMAIN new : new[i] = e
  BY <1>2, <1>3, <1>4
<1>8. \A o : Said(j, o) => \E i \in DOMAIN new : new[i] = o
  <2> SUFFICES ASSUME NEW o, NEW i \in DOMAIN journal[j], journal[j][i] = o
               PROVE  i \in DOMAIN new /\ new[i] = o
    BY DEF Said
  <2> QED
    BY <1>2, <1>3, <1>4
<1>9. \A h \in Job : \A o : Said(h, o) => \E i \in DOMAIN journal'[h] : journal'[h][i] = o
  <2> SUFFICES ASSUME NEW h \in Job, NEW o, Said(h, o)
               PROVE  \E i \in DOMAIN journal'[h] : journal'[h][i] = o
    OBVIOUS
  <2>1. CASE h = j
    BY <2>1, <1>5, <1>8
  <2>2. CASE h # j
    BY <2>2, <1>6 DEF Said
  <2> QED
    BY <2>1, <2>2
<1> QED
  BY <1>5, <1>7, <1>9

\* The worker is at another stage of the same job.
Moved(stage) ==
  /\ worker' \in Worker
  /\ worker'.at = stage
  /\ worker'.job = worker.job
  /\ worker'.end = worker.end
  /\ worker'.recovering = worker.recovering

LEMMA GoMoves ==
  ASSUME TypeOK, NEW stage \in Stage, Go(stage)
  PROVE  Moved(stage)
  BY DEF Go, Moved, TypeOK, Worker

\* A set of numbers that is not empty has a least one.
LEMMA OldestIsOne ==
  ASSUME NEW S \in SUBSET Nat, S # {}
  PROVE  Oldest(S) \in S /\ \A i \in S : Oldest(S) <= i
<1>1. PICK j \in S : \A i \in S : ~ (<<i, j>> \in OpToRel(<, Nat))
  BY NatLessThanWellFounded, WFMin
<1>2. ASSUME NEW i \in S PROVE j <= i
  <2>1. ~ (i < j)
    <3> SUFFICES ASSUME i < j PROVE <<i, j>> \in OpToRel(<, Nat)
      BY <1>1
    <3>1. <<i, j>> \in Nat \X Nat
      OBVIOUS
    <3> QED
      BY <3>1 DEF OpToRel
  <2> QED
    BY <2>1
<1> QED
  BY <1>2 DEF Oldest

\* A bounded one has a greatest.
LEMMA NewestIsOne ==
  ASSUME NEW S \in SUBSET Job, S # {}
  PROVE  Newest(S) \in S /\ \A i \in S : i <= Newest(S)
<1> DEFINE behind == {MaxJobs - i : i \in S}
<1>1. MaxJobs \in Nat
  BY BoundsAreNat
<1>2. behind \in SUBSET Nat /\ behind # {}
  <2>1. \A i \in S : MaxJobs - i \in Nat
    BY <1>1 DEF Job
  <2>2. PICK i \in S : TRUE
    OBVIOUS
  <2>3. MaxJobs - i \in behind
    OBVIOUS
  <2> QED
    BY <2>1, <2>3
<1>3. PICK j \in S : Oldest(behind) = MaxJobs - j
  <2> HIDE DEF behind
  <2>1. Oldest(behind) \in behind
    BY <1>2, OldestIsOne
  <2> QED
    BY <2>1 DEF behind
<1>4. ASSUME NEW i \in S PROVE i <= j
  <2>1. MaxJobs - i \in behind
    OBVIOUS
  <2>2. Oldest(behind) <= MaxJobs - i
    <3> HIDE DEF behind
    <3> QED
      BY <1>2, <2>1, OldestIsOne
  <2> QED
    BY <1>1, <1>3, <2>2 DEF Job
<1> QED
  BY <1>4 DEF Newest

LEMMA EndMoves ==
  ASSUME TypeOK, NEW o \in Outcome, End(o)
  PROVE  /\ worker' \in Worker
         /\ worker'.at = "finish"
         /\ worker'.job = worker.job
         /\ worker'.end = o
         /\ worker'.recovering = worker.recovering
  BY DEF End, TypeOK, Worker, Stage

LEMMA ArriveMoves ==
  ASSUME TypeOK, NEW r \in Req, NEW q \in Request, Arrive(r, q)
  PROVE  /\ requests' \in [Req -> Request \cup {None}]
         /\ requests'[r] = q
         /\ \A p \in Req : p # r => requests'[p] = requests[p]
  BY DEF Arrive, TypeOK

LEMMA AnswerMoves ==
  ASSUME TypeOK, NEW r \in Req, Answer(r)
  PROVE  /\ requests' \in [Req -> Request \cup {None}]
         /\ requests'[r] = None
         /\ \A p \in Req : p # r => requests'[p] = requests[p]
  BY DEF Answer, TypeOK

LEMMA AdvanceMoves ==
  ASSUME TypeOK, NEW r \in Req, requests[r] # None, NEW stage, Advance(r, stage),
         \/ requests[r].at \in {"depth", "create"} /\ stage \in {"create", "index"}
         \/ requests[r].at = "append" /\ stage = "save"
  PROVE  /\ requests' \in [Req -> Request \cup {None}]
         /\ requests'[r] # None
         /\ requests'[r].at = stage
         /\ requests'[r].job = requests[r].job
         /\ \A p \in Req : p # r => requests'[p] = requests[p]
<1> DEFINE new == [requests[r] EXCEPT !.at = stage]
<1>1. requests[r] \in Request
  BY DEF TypeOK
<1>2. new \in Request /\ new.at = stage /\ new.job = requests[r].job
  BY <1>1 DEF Request
<1>3. requests' = [requests EXCEPT ![r] = new]
  BY DEF Advance
<1>4. new # None
  BY <1>2, NoneIsFresh
<1> HIDE DEF new
<1> QED
  BY <1>2, <1>3, <1>4 DEF TypeOK

-----------------------------------------------------------------------------
(* Types *)

LEMMA RequestsKeepTypes ==
  ASSUME WellFormed, NEW r \in Req, Submit(r) \/ Cancel(r)
  PROVE  WellFormed'
<1> USE DEF WellFormed, disk, memory
<1>1. ASSUME NEW k \in Key, NEW s \in JobSpec, SubmitLookup(r, k, s)
      PROVE  WellFormed'
  <2> DEFINE q == [at |-> "depth", key |-> k, spec |-> s, job |-> None]
  <2>1. q \in Request /\ Arrive(r, q)
    BY <1>1 DEF Request, SubmitLookup
  <2> HIDE DEF q
  <2> QED
    BY <1>1, <2>1, ArriveMoves DEF SubmitLookup, TypeOK, HandIsFull, EmptyHanded, EndIsKnown,
       RecoveryIsAPhase, OnDisk
<1>2. ASSUME SubmitDepth(r) PROVE WellFormed'
  BY <1>2, AnswerMoves, AdvanceMoves DEF SubmitDepth, At, TypeOK, HandIsFull, EmptyHanded, EndIsKnown,
       RecoveryIsAPhase, OnDisk
<1>3. ASSUME SubmitRefuse(r) PROVE WellFormed'
  BY <1>3, AnswerMoves DEF SubmitRefuse, At, TypeOK, HandIsFull, EmptyHanded, EndIsKnown,
       RecoveryIsAPhase, OnDisk
<1>4. ASSUME SubmitCreate(r) PROVE WellFormed'
  <2> DEFINE j == minted + 1
             new == [key |-> requests[r].key, spec |-> requests[r].spec,
                     state |-> "queued", outcome |-> None]
             q == [requests[r] EXCEPT !.at = "index", !.job = j]
  <2>1. /\ requests[r] \in Request /\ requests[r].at = "create"
        /\ minted' = j /\ minted \in Nat /\ j \in Job
        /\ record' = [record EXCEPT ![j] = new]
        /\ requests' = [requests EXCEPT ![r] = q]
    BY <1>4, BoundsAreNat DEF SubmitCreate, At, TypeOK, Job
  <2>2. new \in JobRecord /\ new # None
    BY <2>1, NoneIsFresh DEF JobRecord, Request, State
  <2>3. q \in Request
    BY <2>1 DEF Request
  <2> HIDE DEF new, q
  <2>4. TypeOK'
    BY <1>4, <2>1, <2>2, <2>3, BoundsAreNat DEF SubmitCreate, TypeOK, Job
  <2>5. OnDisk \subseteq OnDisk'
    BY <2>1, <2>2 DEF OnDisk, TypeOK
  <2> QED
    BY <1>4, <2>4, <2>5 DEF SubmitCreate, HandIsFull, EmptyHanded, EndIsKnown, RecoveryIsAPhase
<1>5. ASSUME SubmitIndex(r) PROVE WellFormed'
  <2>1. requests[r] \in Request /\ requests[r].at = "index"
    BY <1>5 DEF SubmitIndex, At, TypeOK
  <2>2. requests[r].job \in Job \cup {None}
    BY <2>1 DEF Request
  <2> QED
    BY <1>5, <2>2, AnswerMoves DEF SubmitIndex, TypeOK, HandIsFull, EmptyHanded, EndIsKnown,
       RecoveryIsAPhase, OnDisk
<1>6. ASSUME NEW j \in Job, CancelLoad(r, j) PROVE WellFormed'
  <2> DEFINE q == [at |-> IF j \in InState("queued") THEN "append" ELSE "signal", job |-> j]
  <2>1. q \in Request /\ Arrive(r, q)
    BY <1>6 DEF Request, CancelLoad
  <2> HIDE DEF q
  <2> QED
    BY <1>6, <2>1, ArriveMoves DEF CancelLoad, TypeOK, HandIsFull, EmptyHanded, EndIsKnown,
       RecoveryIsAPhase, OnDisk
<1>7. ASSUME CancelSignal(r) PROVE WellFormed'
  BY <1>7, AnswerMoves DEF CancelSignal, TypeOK, HandIsFull, EmptyHanded, EndIsKnown,
       RecoveryIsAPhase, OnDisk
<1>8. ASSUME CancelAppend(r) PROVE WellFormed'
  <2>1. journal' \in [Job -> Seq(Event)]
    BY <1>8, JournalGrows DEF CancelAppend, OnDisk, TypeOK, Event, Outcome
  <2> QED
    BY <1>8, <2>1, AdvanceMoves DEF CancelAppend, At, TypeOK, HandIsFull, EmptyHanded, EndIsKnown,
       RecoveryIsAPhase, OnDisk
<1>9. ASSUME CancelSave(r) PROVE WellFormed'
  <2>1. record' \in [Job -> JobRecord \cup {None}] /\ OnDisk' = OnDisk
    BY <1>9, SaveWrites, NoneIsFresh DEF CancelSave, State, Outcome, TypeOK, OnDisk
  <2> QED
    BY <1>9, <2>1, AnswerMoves DEF CancelSave, TypeOK, HandIsFull, EmptyHanded, EndIsKnown,
       RecoveryIsAPhase
<1> QED
  BY <1>1, <1>2, <1>3, <1>4, <1>5, <1>6, <1>7, <1>8, <1>9 DEF Submit, Cancel

LEMMA NoLinesRead == 0 \in 0..LogLines /\ LogLines \in Nat
  BY BoundsAreNat

LEMMA RecoveryKeepsTypes ==
  ASSUME WellFormed, RecoverNext \/ PickJob \/ BoxBusy \/ Execute
  PROVE  WellFormed'
<1> USE DEF WellFormed, disk, memory, mine
<1>1. ASSUME ListRecords PROVE WellFormed'
  <2>1. todo' \subseteq OnDisk /\ OnDisk \subseteq Job
    BY <1>1 DEF ListRecords, Unfinished, OnDisk
  <2> QED
    <3>1. Moved("recover")
      BY <1>1, GoMoves DEF ListRecords, Stage, Recovering
    <3> QED
      BY <1>1, <2>1, <3>1 DEF ListRecords, TypeOK, Moved, HandIsFull, EmptyHanded, EndIsKnown,
       RecoveryIsAPhase, OnDisk, Recovering
<1>2. ASSUME NEW j \in Job, ResumeRunning(j) PROVE WellFormed'
  <2>1. j \in OnDisk
    BY <1>2 DEF ResumeRunning, InState
  <2>2. /\ worker' \in Worker
        /\ worker'.at \in {"wait", "finish"}
        /\ worker'.job = j
        /\ worker'.at = "finish" => worker'.end \in Outcome
        /\ worker'.recovering = worker.recovering
    BY <1>2 DEF ResumeRunning, TypeOK, Worker, Stage, Outcome
  <2>3. todo' \subseteq todo /\ worker.at = "recover"
    BY <1>2 DEF ResumeRunning, Recover
  <2> QED
    BY <1>2, <2>1, <2>2, <2>3 DEF ResumeRunning, TypeOK, HandIsFull, EmptyHanded, EndIsKnown,
       RecoveryIsAPhase, OnDisk, Recovering
<1>3. ASSUME NEW j \in Job, Orphan(j) PROVE WellFormed'
  <2>1. j \in OnDisk
    BY <1>3, NewestIsOne DEF Orphan, Recover, RecoveryIsAPhase, TypeOK
  <2>2. /\ worker' \in Worker
        /\ worker'.at = "finish"
        /\ worker'.job = j
        /\ worker'.end \in Outcome
        /\ worker'.recovering = worker.recovering
    BY <1>3 DEF Orphan, TypeOK, Worker, Stage, Outcome
  <2>3. todo' \subseteq todo /\ worker.at = "recover"
    BY <1>3 DEF Orphan, Recover
  <2> QED
    BY <1>3, <2>1, <2>2, <2>3 DEF Orphan, TypeOK, HandIsFull, EmptyHanded, EndIsKnown,
       RecoveryIsAPhase, OnDisk, Recovering
<1>4. ASSUME Recovered PROVE WellFormed'
  <2>1. /\ worker' \in Worker
        /\ worker'.at = "idle"
        /\ worker'.job = worker.job
        /\ worker'.recovering = FALSE
    BY <1>4 DEF Recovered, TypeOK, Worker, Stage
  <2> QED
    BY <1>4, <2>1 DEF Recovered, TypeOK, HandIsFull, EmptyHanded, EndIsKnown,
       RecoveryIsAPhase, OnDisk, Recovering
<1>5. ASSUME PickJob PROVE WellFormed'
  <2>1. Oldest(InState("queued")) \in OnDisk
    <3>1. InState("queued") \in SUBSET Nat /\ InState("queued") # {}
      BY <1>5, BoundsAreNat DEF PickJob, InState, OnDisk, Job
    <3> QED
      BY <3>1, OldestIsOne DEF InState
  <2>2. /\ worker' \in Worker
        /\ worker'.at = "picked"
        /\ worker'.job \in OnDisk
        /\ worker'.recovering = FALSE
    BY <1>5, <2>1, NoLinesRead DEF PickJob, AtStart, TypeOK, Worker, Stage, OnDisk
  <2> QED
    BY <1>5, <2>2 DEF PickJob, TypeOK, HandIsFull, EmptyHanded, EndIsKnown,
       RecoveryIsAPhase, OnDisk, Recovering
<1>6. ASSUME BoxBusy PROVE WellFormed'
  <2>1. /\ worker' \in Worker
        /\ worker'.at = "idle"
        /\ worker'.job = None
        /\ worker'.recovering = worker.recovering
    BY <1>6 DEF BoxBusy, TypeOK, Worker, Stage
  <2> QED
    BY <1>6, <2>1 DEF BoxBusy, TypeOK, HandIsFull, EmptyHanded, EndIsKnown,
       RecoveryIsAPhase, OnDisk, Recovering
<1>7. ASSUME Execute PROVE WellFormed'
  <2>1. Moved("begin")
    BY <1>7, GoMoves DEF Execute, Moved, Stage
  <2> QED
    BY <1>7, <2>1 DEF Execute, TypeOK, Moved, HandIsFull, EmptyHanded, EndIsKnown,
       RecoveryIsAPhase, OnDisk, Recovering
<1> QED
  BY <1>1, <1>2, <1>3, <1>4, <1>5, <1>6, <1>7 DEF RecoverNext

LEMMA RunKeepsTypes ==
  ASSUME WellFormed, RunJob
  PROVE  WellFormed'
<1> USE DEF WellFormed, disk, memory, mine
<1>1. ASSUME BeginPreparing PROVE WellFormed'
  <2>1. record' \in [Job -> JobRecord \cup {None}] /\ OnDisk' = OnDisk
    BY <1>1, SaveWrites, NoneIsFresh DEF BeginPreparing, HandIsFull, EmptyHanded, EndIsKnown,
       RecoveryIsAPhase, State, Outcome
  <2>2. Moved("preparing")
    BY <1>1, GoMoves DEF BeginPreparing, Moved, Stage
  <2> QED
    BY <1>1, <2>1, <2>2 DEF BeginPreparing, TypeOK, Moved, HandIsFull, EmptyHanded, EndIsKnown,
       RecoveryIsAPhase, Recovering
<1>2. ASSUME CommitReady PROVE WellFormed'
  <2>1. Moved("prepared")
    BY <1>2, GoMoves DEF CommitReady, Moved, Stage, Recovering
  <2> QED
    BY <1>2, <2>1 DEF CommitReady, TypeOK, Moved, HandIsFull, EmptyHanded, EndIsKnown,
       RecoveryIsAPhase, OnDisk, Recovering
<1>3. ASSUME BeginBuilding PROVE WellFormed'
  <2>1. record' \in [Job -> JobRecord \cup {None}] /\ OnDisk' = OnDisk
    BY <1>3, SaveWrites, NoneIsFresh DEF BeginBuilding, HandIsFull, EmptyHanded, EndIsKnown,
       RecoveryIsAPhase, State, Outcome
  <2>2. Moved("building")
    BY <1>3, GoMoves DEF BeginBuilding, Moved, Stage
  <2> QED
    BY <1>3, <2>1, <2>2 DEF BeginBuilding, TypeOK, Moved, HandIsFull, EmptyHanded, EndIsKnown,
       RecoveryIsAPhase, Recovering
<1>4. ASSUME BinaryReady PROVE WellFormed'
  <2>1. record' \in [Job -> JobRecord \cup {None}] /\ OnDisk' = OnDisk
    BY <1>4, SaveWrites, NoneIsFresh DEF BinaryReady, HandIsFull, EmptyHanded, EndIsKnown,
       RecoveryIsAPhase, State, Outcome
  <2>2. Moved("built")
    BY <1>4, GoMoves DEF BinaryReady, Moved, Stage
  <2> QED
    BY <1>4, <2>1, <2>2 DEF BinaryReady, TypeOK, Moved, HandIsFull, EmptyHanded, EndIsKnown,
       RecoveryIsAPhase, Recovering
<1>5. ASSUME StageFails PROVE WellFormed'
  <2>1. \E o \in Outcome : End(o)
    BY <1>5 DEF StageFails, Outcome
  <2>2. /\ worker' \in Worker
        /\ worker'.at = "finish"
        /\ worker'.job = worker.job
        /\ worker'.end \in Outcome
        /\ worker'.recovering = worker.recovering
    BY <2>1, EndMoves
  <2> QED
    BY <1>5, <2>2 DEF StageFails, TypeOK, HandIsFull, EmptyHanded, EndIsKnown,
       RecoveryIsAPhase, OnDisk, Recovering
<1>6. ASSUME CancelSeen PROVE WellFormed'
  <2>1. \E o \in Outcome : End(o)
    BY <1>6 DEF CancelSeen, Outcome
  <2>2. /\ worker' \in Worker
        /\ worker'.at = "finish"
        /\ worker'.job = worker.job
        /\ worker'.end \in Outcome
        /\ worker'.recovering = worker.recovering
    BY <2>1, EndMoves
  <2> QED
    BY <1>6, <2>2 DEF CancelSeen, TypeOK, HandIsFull, EmptyHanded, EndIsKnown,
       RecoveryIsAPhase, OnDisk, Recovering
<1>7. ASSUME Collect PROVE WellFormed'
  <2>1. \E o \in Outcome : End(o)
    BY <1>7 DEF Collect, Outcome
  <2>2. /\ worker' \in Worker
        /\ worker'.at = "finish"
        /\ worker'.job = worker.job
        /\ worker'.end \in Outcome
        /\ worker'.recovering = worker.recovering
    BY <2>1, EndMoves
  <2> QED
    BY <1>7, <2>2 DEF Collect, TypeOK, HandIsFull, EmptyHanded, EndIsKnown,
       RecoveryIsAPhase, OnDisk, Recovering
<1>8. ASSUME NotCancelled PROVE WellFormed'
  <2>1. Moved("checked")
    BY <1>8, GoMoves DEF NotCancelled, Moved, Stage, Recovering
  <2> QED
    BY <1>8, <2>1 DEF NotCancelled, TypeOK, Moved, HandIsFull, EmptyHanded, EndIsKnown,
       RecoveryIsAPhase, OnDisk, Recovering
<1>9. ASSUME Spawn PROVE WellFormed'
  <2>1. Moved("spawned")
    BY <1>9, GoMoves DEF Spawn, Moved, Stage, Recovering
  <2> QED
    BY <1>9, <2>1 DEF Spawn, TypeOK, Moved, HandIsFull, EmptyHanded, EndIsKnown,
       RecoveryIsAPhase, OnDisk, Recovering, Child
<1>10. ASSUME RecordRunning PROVE WellFormed'
  <2>1. record' \in [Job -> JobRecord \cup {None}] /\ OnDisk' = OnDisk
    BY <1>10, SaveWrites, NoneIsFresh DEF RecordRunning, HandIsFull, EmptyHanded, EndIsKnown,
       RecoveryIsAPhase, State, Outcome
  <2>2. Moved("wait")
    BY <1>10, GoMoves DEF RecordRunning, Moved, Stage
  <2> QED
    BY <1>10, <2>1, <2>2 DEF RecordRunning, TypeOK, Moved, HandIsFull, EmptyHanded, EndIsKnown,
       RecoveryIsAPhase, Recovering
<1>11. ASSUME TailLog PROVE WellFormed'
  <2>1. worker.job \in Job
    BY <1>11 DEF TailLog, HandIsFull, EmptyHanded, EndIsKnown,
       RecoveryIsAPhase, OnDisk
  <2>2. journal' \in [Job -> Seq(Event)]
    BY <1>11, <2>1, JournalGrows DEF TailLog, Event
  <2>3. /\ worker' \in Worker
        /\ worker'.at = worker.at
        /\ worker'.job = worker.job
        /\ worker'.end = worker.end
        /\ worker'.recovering = worker.recovering
    <3>1. worker.tailed + 1 \in 0..LogLines
      BY <1>11, NoLinesRead DEF TailLog, TypeOK, Worker
    <3> QED
      BY <1>11, <3>1 DEF TailLog, TypeOK, Worker
  <2> QED
    BY <1>11, <2>2, <2>3 DEF TailLog, TypeOK, HandIsFull, EmptyHanded, EndIsKnown,
       RecoveryIsAPhase, OnDisk, Recovering
<1>12. ASSUME WaitEnds PROVE WellFormed'
  <2>1. record' \in [Job -> JobRecord \cup {None}] /\ OnDisk' = OnDisk
    BY <1>12, SaveWrites, NoneIsFresh DEF WaitEnds, HandIsFull, EmptyHanded, EndIsKnown,
       RecoveryIsAPhase, State, Outcome
  <2>2. Moved("collecting")
    BY <1>12, GoMoves DEF WaitEnds, Moved, Stage
  <2> QED
    BY <1>12, <2>1, <2>2 DEF WaitEnds, TypeOK, Moved, HandIsFull, EmptyHanded, EndIsKnown,
       RecoveryIsAPhase, Recovering
<1>13. ASSUME Kill PROVE WellFormed'
  <2>1. /\ worker' \in Worker
        /\ worker'.at = "killing"
        /\ worker'.job = worker.job
        /\ worker'.end \in Outcome
        /\ worker'.recovering = worker.recovering
    BY <1>13 DEF Kill, TypeOK, Worker, Stage, Outcome
  <2> QED
    BY <1>13, <2>1 DEF Kill, TypeOK, HandIsFull, EmptyHanded, EndIsKnown,
       RecoveryIsAPhase, OnDisk, Recovering
<1>14. ASSUME Killed PROVE WellFormed'
  BY <1>14 DEF Killed, TypeOK, HandIsFull, EmptyHanded, EndIsKnown,
       RecoveryIsAPhase, OnDisk, Child
<1>15. ASSUME KillingEnds PROVE WellFormed'
  <2>1. Moved("finish")
    BY <1>15, GoMoves DEF KillingEnds, Moved, Stage, Recovering
  <2> QED
    BY <1>15, <2>1 DEF KillingEnds, TypeOK, Moved, HandIsFull, EmptyHanded, EndIsKnown,
       RecoveryIsAPhase, OnDisk, Recovering
<1>16. ASSUME AppendDone PROVE WellFormed'
  <2>1. worker.job \in Job /\ worker.end \in Event
    BY <1>16 DEF AppendDone, HandIsFull, EmptyHanded, EndIsKnown,
       RecoveryIsAPhase, OnDisk, Event
  <2>2. journal' \in [Job -> Seq(Event)]
    BY <1>16, <2>1, JournalGrows DEF AppendDone
  <2>3. Moved("record")
    BY <1>16, GoMoves DEF AppendDone, Moved, Stage
  <2> QED
    BY <1>16, <2>2, <2>3 DEF AppendDone, TypeOK, Moved, HandIsFull, EmptyHanded, EndIsKnown,
       RecoveryIsAPhase, OnDisk, Recovering
<1>17. ASSUME RecordDone PROVE WellFormed'
  <2>1. record' \in [Job -> JobRecord \cup {None}] /\ OnDisk' = OnDisk
    BY <1>17, SaveWrites, NoneIsFresh DEF RecordDone, HandIsFull, EmptyHanded, EndIsKnown,
       RecoveryIsAPhase, State, Outcome
  <2>2. /\ worker' \in Worker
        /\ worker'.at = IF worker.recovering THEN "recover" ELSE "retain"
        /\ worker'.job = None
        /\ worker'.recovering = worker.recovering
    BY <1>17, NoLinesRead DEF RecordDone, AtStart, TypeOK, Worker, Stage, Recovering
  <2> QED
    <3>1. TypeOK'
      BY <1>17, <2>1, <2>2 DEF RecordDone, TypeOK
    <3> QED
      BY <1>17, <2>1, <2>2, <3>1 DEF RecordDone, HandIsFull, EmptyHanded, EndIsKnown,
       RecoveryIsAPhase, Recovering
<1>18. ASSUME Retain PROVE WellFormed'
  <2>1. /\ record' \in [Job -> JobRecord \cup {None}]
        /\ journal' \in [Job -> Seq(Event)]
        /\ keyed' \in [Key -> Job \cup {None}]
    BY <1>18 DEF Retain, TypeOK
  <2>2. Moved("idle")
    BY <1>18, GoMoves DEF Retain, Moved, Stage
  <2> QED
    BY <1>18, <2>1, <2>2 DEF Retain, TypeOK, Moved, HandIsFull, EmptyHanded, EndIsKnown,
       RecoveryIsAPhase, OnDisk, Recovering
<1> QED
  BY <1>1, <1>2, <1>3, <1>4, <1>5, <1>6, <1>7, <1>8, <1>9, <1>10, <1>11, <1>12, <1>13,
     <1>14, <1>15, <1>16, <1>17, <1>18 DEF RunJob

LEMMA TypesKept == WellFormed /\ [Next]_vars => WellFormed'
<1> SUFFICES ASSUME WellFormed, [Next]_vars PROVE WellFormed'
  OBVIOUS
<1>1. ASSUME NEW r \in Req, Submit(r) \/ Cancel(r) PROVE WellFormed'
  BY <1>1, RequestsKeepTypes
<1>2. ASSUME RecoverNext \/ PickJob \/ BoxBusy \/ Execute PROVE WellFormed'
  BY <1>2, RecoveryKeepsTypes
<1>3. ASSUME RunJob PROVE WellFormed'
  BY <1>3, RunKeepsTypes
<1>4. ASSUME NEW j \in Job, ChildExits(j) PROVE WellFormed'
  BY <1>4 DEF ChildExits, WellFormed, disk, memory, TypeOK, HandIsFull, EmptyHanded, EndIsKnown,
       RecoveryIsAPhase, OnDisk, Child
<1>5. ASSUME Restart PROVE WellFormed'
  BY <1>5, BoundsAreNat DEF Restart, AtStart, WellFormed, disk, TypeOK, Worker, Stage,
     HandIsFull, EmptyHanded, EndIsKnown,
       RecoveryIsAPhase, OnDisk, Recovering
<1>6. ASSUME UNCHANGED vars PROVE WellFormed'
  BY <1>6 DEF vars, WellFormed, TypeOK, HandIsFull, EmptyHanded, EndIsKnown,
       RecoveryIsAPhase, OnDisk
<1> QED
  BY <1>1, <1>2, <1>3, <1>4, <1>5, <1>6 DEF Next

-----------------------------------------------------------------------------
(* What one step can do to a record, a gate, a journal and the hand *)

\* A gate starts only as the job in hand, and never starts again.
GateStep(j) ==
  \/ child'[j] = child[j]
  \/ Spawn /\ j = worker.job /\ child'[j] = "up"
  \/ child[j] = "up" /\ child'[j] \in {"recordless", "ended"}

LEMMA GatesStep ==
  ASSUME TypeOK, [Next]_vars, NEW j \in Job
  PROVE  GateStep(j)
<1> USE DEF GateStep
<1>1. ASSUME Spawn PROVE GateStep(j)
  BY <1>1 DEF Spawn, mine, TypeOK
<1>2. ASSUME Killed PROVE GateStep(j)
  BY <1>2 DEF Killed, mine, Up, TypeOK
<1>3. ASSUME NEW i \in Job, ChildExits(i) PROVE GateStep(j)
  BY <1>3 DEF ChildExits, Up, TypeOK
<1>4. ASSUME NEW r \in Req, Submit(r) \/ Cancel(r) PROVE child' = child
  BY <1>4 DEF Submit, Cancel, SubmitLookup, SubmitDepth, SubmitRefuse, SubmitCreate,
     SubmitIndex, CancelLoad, CancelSignal, CancelAppend, CancelSave
<1>5. ASSUME RecoverNext \/ PickJob \/ BoxBusy \/ Execute \/ Restart PROVE child' = child
  BY <1>5 DEF RecoverNext, ListRecords, Recovered, ResumeRunning, Orphan, PickJob, BoxBusy,
     Execute, Restart
<1>6. ASSUME RunJob, ~Spawn, ~Killed PROVE child' = child
  BY <1>6 DEF RunJob, BeginPreparing, CommitReady, BeginBuilding, BinaryReady, StageFails,
     CancelSeen, NotCancelled, RecordRunning, TailLog, WaitEnds, Kill, KillingEnds,
     Collect, AppendDone, RecordDone, Retain
<1>7. ASSUME UNCHANGED vars PROVE child' = child
  BY <1>7 DEF vars
<1> QED
  BY <1>1, <1>2, <1>3, <1>4, <1>5, <1>6, <1>7 DEF Next

\* A record is created, written by the worker that has the job in hand, ended
\* by a cancel, or removed when it is done.
CreatedBy(j) ==
  /\ minted' = minted + 1 /\ j = minted'
  /\ record'[j] # None /\ record'[j].state = "queued"
WrittenBy(j) ==
  /\ j = worker.job /\ record[j] # None /\ record'[j] # None
  /\ worker.at \notin EmptyHanded \cup {"picked"}
  /\ record'[j].state # "queued"
  /\ record'[j].state = "done" => worker.at = "record" /\ record'[j].outcome = worker.end
CancelledBy(j) ==
  /\ record[j] # None /\ record'[j] # None
  /\ record'[j].state = "done" /\ record'[j].outcome = "cancelled"
  /\ \E r \in Req : At(r, "save") /\ requests[r].job = j
RemovedBy(j) == record[j] # None /\ record[j].state = "done" /\ record'[j] = None

RecordStep(j) ==
  \/ record'[j] = record[j]
  \/ CreatedBy(j) \/ WrittenBy(j) \/ CancelledBy(j) \/ RemovedBy(j)

LEMMA RecordsStep ==
  ASSUME WellFormed, [Next]_vars, NEW j \in Job
  PROVE  RecordStep(j)
<1> USE DEF WellFormed, EmptyHanded
<1>1. ASSUME NEW r \in Req, SubmitCreate(r) PROVE RecordStep(j)
  <2> DEFINE new == [key |-> requests[r].key, spec |-> requests[r].spec,
                     state |-> "queued", outcome |-> None]
  <2>1. requests[r] \in Request /\ requests[r].at = "create"
    BY <1>1 DEF SubmitCreate, At, TypeOK
  <2>2. new \in JobRecord /\ new # None /\ new.state = "queued"
    BY <2>1, NoneIsFresh DEF JobRecord, Request, State
  <2>3. record' = [record EXCEPT ![minted + 1] = new] /\ minted' = minted + 1
    BY <1>1 DEF SubmitCreate
  <2> HIDE DEF new
  <2> QED
    BY <2>2, <2>3 DEF RecordStep, CreatedBy, TypeOK
<1>2. ASSUME NEW r \in Req, CancelSave(r) PROVE RecordStep(j)
  BY <1>2, SaveWrites, NoneIsFresh DEF CancelSave, RecordStep, CancelledBy, State, Outcome, OnDisk
<1>3. ASSUME Retain PROVE RecordStep(j)
  BY <1>3 DEF Retain, RecordStep, RemovedBy, InState, OnDisk, TypeOK
<1>4. ASSUME RecordDone PROVE RecordStep(j)
  <2>1. worker.job \in OnDisk /\ worker.end \in Outcome
    BY <1>4 DEF RecordDone, HandIsFull, EndIsKnown
  <2> QED
    BY <1>4, <2>1, SaveWrites, NoneIsFresh
    DEF RecordDone, RecordStep, WrittenBy, State, OnDisk, mine
<1>5. ASSUME BeginPreparing \/ BeginBuilding \/ BinaryReady \/ RecordRunning \/ WaitEnds
      PROVE  RecordStep(j)
  <2>1. /\ worker.at \notin EmptyHanded \cup {"picked"}
        /\ \E s \in {"preparing", "building", "running", "collecting"} : Save(worker.job, s, None)
    BY <1>5 DEF BeginPreparing, BeginBuilding, BinaryReady, RecordRunning, WaitEnds, mine
  <2>2. worker.job \in OnDisk
    BY <2>1 DEF HandIsFull
  <2> QED
    BY <2>1, <2>2, SaveWrites DEF RecordStep, WrittenBy, State, OnDisk
<1>6. ASSUME NEW r \in Req, Submit(r) \/ Cancel(r), ~SubmitCreate(r), ~CancelSave(r)
      PROVE  record' = record
  BY <1>6 DEF Submit, Cancel, SubmitLookup, SubmitDepth, SubmitRefuse, SubmitIndex,
     CancelLoad, CancelSignal, CancelAppend, disk
<1>7. ASSUME RecoverNext \/ PickJob \/ BoxBusy \/ Execute \/ Restart
      PROVE  record' = record
  BY <1>7 DEF RecoverNext, ListRecords, Recovered, ResumeRunning, Orphan, PickJob, BoxBusy,
     Execute, Restart, disk
<1>8. ASSUME \/ CommitReady \/ StageFails \/ CancelSeen \/ NotCancelled \/ Spawn \/ TailLog
             \/ Kill \/ Killed \/ KillingEnds \/ Collect \/ AppendDone
      PROVE  record' = record
  BY <1>8 DEF CommitReady, StageFails, CancelSeen, NotCancelled, Spawn, TailLog, Kill,
     Killed, KillingEnds, Collect, AppendDone, disk
<1>9. ASSUME UNCHANGED vars \/ \E i \in Job : ChildExits(i) PROVE record' = record
  BY <1>9 DEF vars, ChildExits, disk
<1> QED
  BY <1>1, <1>2, <1>3, <1>4, <1>5, <1>6, <1>7, <1>8, <1>9 DEF Next, RunJob, RecordStep

\* The hand: where the worker can be, and with which job, after a step.
Stays == worker' = worker /\ todo' = todo
GoesOn ==
  /\ worker.at \notin EmptyHanded \cup {"picked"}
  /\ worker'.at \notin EmptyHanded \cup {"picked"}
  /\ worker'.at \in BeforeStart => worker.at \in BeforeStart
  /\ worker'.at \in BeforeStart \ {"begin"} =>
       worker.at # "begin" \/ record'[worker.job].state = "preparing"
  /\ worker'.job = worker.job /\ todo' = todo
  /\ worker'.at = "record" =>
       \/ AppendDone
       \/ worker.at = "record" /\ worker'.end = worker.end
Takes ==
  /\ worker.at = "idle" /\ worker'.at = "picked" /\ todo' = todo
  /\ worker'.job \in InState("queued") /\ record' = record /\ minted' = minted
Starts ==
  /\ worker.at = "picked" /\ worker'.at = "begin" /\ todo' = todo
  /\ worker'.job = worker.job /\ Up = {} /\ record' = record
LeavesAlone ==
  /\ worker.at \in {"picked", "retain"} /\ worker'.at = "idle"
  /\ worker'.job = None /\ todo' = todo
Finishes ==
  /\ worker.at = "record" /\ worker'.at \in {"recover", "retain"}
  /\ worker'.job = None /\ todo' = todo
  /\ record'[worker.job].state = "done"
Lists ==
  /\ worker.at = "list" /\ worker'.at = "recover" /\ worker'.job = worker.job
  /\ todo' = Unfinished /\ record' = record
Recovers ==
  /\ worker.at = "recover" /\ worker'.at \in {"wait", "finish"}
  /\ worker'.job \in todo /\ todo' = todo \ {worker'.job}
Closes ==
  /\ worker.at = "recover" /\ worker'.at = "idle" /\ worker'.job = worker.job
  /\ todo = {} /\ todo' = {}
Restarts == worker'.at = "list" /\ worker'.job = None

HandStep ==
  \/ Stays \/ GoesOn \/ Takes \/ Starts \/ LeavesAlone \/ Finishes
  \/ Lists \/ Recovers \/ Closes \/ Restarts

LEMMA HandsStep ==
  ASSUME WellFormed, [Next]_vars
  PROVE  HandStep
<1> USE DEF WellFormed, mine, EmptyHanded
<1>1. ASSUME NEW r \in Req, Submit(r) \/ Cancel(r) PROVE Stays
  BY <1>1 DEF Submit, Cancel, SubmitLookup, SubmitDepth, SubmitRefuse, SubmitCreate,
     SubmitIndex, CancelLoad, CancelSignal, CancelAppend, CancelSave, Stays, memory
<1>2. ASSUME ListRecords PROVE Lists
  BY <1>2, GoMoves DEF ListRecords, Lists, Moved, Stage, Recovering, disk
<1>3. ASSUME NEW j \in Job, ResumeRunning(j) \/ Orphan(j) PROVE Recovers
  <2>1. /\ worker.at = "recover" /\ worker'.at \in {"wait", "finish"} /\ worker'.job = j
        /\ todo # {} /\ todo \in SUBSET Job /\ j = Newest(todo) /\ todo' = todo \ {j}
    BY <1>3 DEF ResumeRunning, Orphan, Recover, TypeOK, Worker
  <2> QED
    BY <2>1, NewestIsOne DEF Recovers
<1>4. ASSUME Recovered PROVE Closes
  BY <1>4 DEF Recovered, Closes, TypeOK, Worker
<1>5. ASSUME PickJob PROVE Takes
  <2>1. InState("queued") \in SUBSET Nat /\ InState("queued") # {}
    BY <1>5, BoundsAreNat DEF PickJob, InState, OnDisk, Job
  <2>2. Oldest(InState("queued")) \in InState("queued")
    BY <2>1, OldestIsOne
  <2> QED
    BY <1>5, <2>2 DEF PickJob, AtStart, Takes, disk
<1>6. ASSUME BoxBusy PROVE LeavesAlone
  BY <1>6 DEF BoxBusy, LeavesAlone, TypeOK, Worker
<1>7. ASSUME Execute PROVE Starts
  BY <1>7, GoMoves DEF Execute, Starts, Moved, Stage, disk
<1>8. ASSUME BeginPreparing PROVE GoesOn
  <2>1. Moved("preparing")
    BY <1>8, GoMoves DEF BeginPreparing, Stage
  <2>2. record'[worker.job].state = "preparing"
    BY <1>8, SaveWrites DEF BeginPreparing, HandIsFull, State
  <2> QED
    BY <1>8, <2>1, <2>2 DEF BeginPreparing, GoesOn, Moved, BeforeStart
<1>9. ASSUME \/ CommitReady \/ BeginBuilding \/ BinaryReady \/ NotCancelled \/ Spawn
             \/ RecordRunning \/ WaitEnds
      PROVE  GoesOn
  <2>1. /\ todo' = todo
        /\ \/ worker.at = "preparing" /\ Moved("prepared")
           \/ worker.at = "prepared" /\ Moved("building")
           \/ worker.at = "building" /\ Moved("built")
           \/ worker.at = "built" /\ Moved("checked")
           \/ worker.at = "checked" /\ Moved("spawned")
           \/ worker.at = "spawned" /\ Moved("wait")
           \/ worker.at = "wait" /\ Moved("collecting")
    BY <1>9, GoMoves DEF CommitReady, BeginBuilding, BinaryReady, NotCancelled, Spawn,
       RecordRunning, WaitEnds, Stage
  <2> QED
    BY <2>1 DEF GoesOn, Moved, BeforeStart
<1>10. ASSUME StageFails \/ CancelSeen \/ Collect PROVE GoesOn
  <2>1. \E o \in Outcome : End(o)
    BY <1>10 DEF StageFails, CancelSeen, Collect, Outcome
  <2> QED
    BY <1>10, <2>1, EndMoves DEF StageFails, CancelSeen, Collect, GoesOn, BeforeStart
<1>11. ASSUME TailLog \/ Kill PROVE GoesOn
  BY <1>11 DEF TailLog, Kill, GoesOn, BeforeStart, TypeOK, Worker
<1>12. ASSUME Killed PROVE Stays
  BY <1>12 DEF Killed, Stays
<1>13. ASSUME KillingEnds \/ AppendDone PROVE GoesOn
  <2>1. (KillingEnds /\ Moved("finish")) \/ (AppendDone /\ Moved("record"))
    BY <1>13, GoMoves DEF KillingEnds, AppendDone, Stage
  <2> QED
    BY <2>1 DEF KillingEnds, AppendDone, GoesOn, Moved, BeforeStart
<1>14. ASSUME RecordDone PROVE Finishes
  <2>1. worker.job \in OnDisk /\ worker.end \in Outcome
    BY <1>14 DEF RecordDone, HandIsFull, EndIsKnown
  <2>2. record'[worker.job].state = "done"
    BY <1>14, <2>1, SaveWrites, NoneIsFresh DEF RecordDone, State
  <2> QED
    BY <1>14, <2>2 DEF RecordDone, AtStart, Finishes
<1>15. ASSUME Retain PROVE LeavesAlone
  <2>1. Moved("idle")
    BY <1>15, GoMoves DEF Retain, Stage
  <2> QED
    BY <1>15, <2>1 DEF Retain, LeavesAlone, Moved, HandIsFull
<1>16. ASSUME Restart PROVE Restarts
  BY <1>16 DEF Restart, AtStart, Restarts
<1>17. ASSUME UNCHANGED vars \/ \E i \in Job : ChildExits(i) PROVE Stays
  BY <1>17 DEF vars, ChildExits, Stays, memory
<1> QED
  BY <1>1, <1>2, <1>3, <1>4, <1>5, <1>6, <1>7, <1>8, <1>9, <1>10, <1>11, <1>12, <1>13,
     <1>14, <1>15, <1>16, <1>17 DEF Next, RecoverNext, RunJob, HandStep

-----------------------------------------------------------------------------
(* Each part of the invariant is kept *)

LEMMA BoxStaysFree ==
  ASSUME WellFormed, BoxIsFree, [Next]_vars
  PROVE  BoxIsFree'
<1> USE DEF BoxIsFree
<1>1. HandStep
  BY HandsStep
<1>2. CASE Spawn
  <2>1. worker.at = "checked" /\ worker'.at = "spawned" /\ Up = {}
    BY <1>2, GoMoves DEF Spawn, WellFormed, Moved, Stage, BeforeStart
  <2>2. \A j \in Up' : j = worker.job
    BY <2>1, GatesStep DEF WellFormed, GateStep, Up
  <2> QED
    BY <2>1, <2>2 DEF BeforeStart
<1>3. CASE ~Spawn
  <2>1. Up' \subseteq Up
    BY <1>3, GatesStep DEF WellFormed, GateStep, Up
  <2>2. worker'.at \in BeforeStart => Up = {}
    BY <1>1 DEF HandStep, Stays, GoesOn, Takes, Starts, LeavesAlone, Finishes, Lists,
       Recovers, Closes, Restarts, BeforeStart
  <2> QED
    BY <2>1, <2>2
<1> QED
  BY <1>2, <1>3

LEMMA MintedGrows ==
  ASSUME WellFormed, [Next]_vars
  PROVE  minted' \in Nat /\ minted \in Nat /\ minted <= minted'
<1>1. minted \in Nat
  BY BoundsAreNat DEF WellFormed, TypeOK
<1>2. minted' \in Nat
  BY TypesKept, BoundsAreNat DEF WellFormed, TypeOK
<1>3. minted' = minted \/ minted' = minted + 1
  BY DEF Next, Submit, Cancel, SubmitLookup, SubmitDepth, SubmitRefuse, SubmitCreate,
     SubmitIndex, CancelLoad, CancelSignal, CancelAppend, CancelSave, RecoverNext,
     ListRecords, Recovered, ResumeRunning, Orphan, PickJob, BoxBusy, Execute, RunJob,
     BeginPreparing, CommitReady, BeginBuilding, BinaryReady, StageFails, CancelSeen,
     NotCancelled, Spawn, RecordRunning, TailLog, WaitEnds, Kill, Killed, KillingEnds,
     Collect, AppendDone, RecordDone, Retain, ChildExits, Restart, disk, vars
<1> QED
  BY <1>1, <1>2, <1>3

LEMMA QueuedStayFresh ==
  ASSUME WellFormed, QueuedIsFresh, [Next]_vars
  PROVE  QueuedIsFresh'
<1>1. HandStep /\ WellFormed'
  BY HandsStep, TypesKept
<1>2. minted' \in Nat /\ minted \in Nat /\ minted <= minted'
  BY MintedGrows
<1>3. Spawn => worker.at = "checked" /\ worker'.at = "spawned"
  BY GoMoves DEF Spawn, WellFormed, Moved, Stage
<1>4. ASSUME NEW j \in Job, j > minted' PROVE record'[j] = None /\ child'[j] = "none"
  <2>1. record[j] = None /\ child[j] = "none"
    BY <1>2, <1>4 DEF QueuedIsFresh, Job
  <2>2. record'[j] = None
    BY <1>2, <1>4, <2>1, RecordsStep DEF RecordStep, CreatedBy, WrittenBy, CancelledBy, RemovedBy
  <2>3. Spawn => worker.job \in OnDisk
    BY <1>3 DEF WellFormed, HandIsFull, EmptyHanded
  <2>4. child'[j] = "none"
    BY <2>1, <2>3, GatesStep DEF GateStep, WellFormed, OnDisk
  <2> QED
    BY <2>2, <2>4
<1>5. ASSUME NEW j \in Job, j \in InState("queued")' PROVE child'[j] = "none"
  <2>1. j \in InState("queued") \/ CreatedBy(j)
    BY <1>5, RecordsStep DEF InState, OnDisk, RecordStep, WrittenBy, CancelledBy, RemovedBy
  <2>2. child[j] = "none"
    BY <1>2, <2>1 DEF QueuedIsFresh, CreatedBy
  <2>3. ~(Spawn /\ j = worker.job)
    <3>1. CASE CreatedBy(j)
      BY <1>2, <3>1 DEF CreatedBy, Spawn, disk
    <3>2. CASE j \in InState("queued")
      BY <1>3, <3>2 DEF QueuedIsFresh, BeforeStart, InState
    <3> QED
      BY <2>1, <3>1, <3>2
  <2> QED
    BY <2>2, <2>3, GatesStep DEF GateStep, WellFormed
<1>6. ASSUME worker'.at \in BeforeStart \cup {"picked"} PROVE child'[worker'.job] = "none"
  <2>1. worker'.job \in Job /\ child[worker'.job] = "none"
    BY <1>1, <1>6 DEF WellFormed, HandIsFull, EmptyHanded, OnDisk, QueuedIsFresh, HandStep,
       Stays, GoesOn, Takes, Starts, LeavesAlone, Finishes, Lists, Recovers, Closes,
       Restarts, BeforeStart
  <2>2. ~Spawn
    BY <1>3, <1>6 DEF BeforeStart
  <2> QED
    BY <2>1, <2>2, GatesStep DEF GateStep, WellFormed
<1>7. ASSUME worker'.at \in BeforeStart \ {"begin"} PROVE record'[worker'.job].state # "queued"
  <2>1. /\ worker'.job = worker.job /\ worker.job \in Job /\ record[worker.job] # None
        /\ \/ worker.at \in BeforeStart \ {"begin"}
           \/ record'[worker.job].state = "preparing"
    BY <1>1, <1>7 DEF WellFormed, HandIsFull, EmptyHanded, OnDisk, HandStep, Stays, GoesOn,
       Takes, Starts, LeavesAlone, Finishes, Lists, Recovers, Closes, Restarts, BeforeStart
  <2>2. CASE worker.at \in BeforeStart \ {"begin"}
    <3>1. record[worker.job].state # "queued"
      BY <2>2 DEF QueuedIsFresh
    <3>2. ~CreatedBy(worker.job)
      BY <1>2, <2>1 DEF CreatedBy, QueuedIsFresh
    <3>3. record'[worker.job] # None
      BY <1>1, <1>7, <2>1 DEF WellFormed, HandIsFull, EmptyHanded, OnDisk, BeforeStart
    <3> QED
      BY <2>1, <3>1, <3>2, <3>3, RecordsStep DEF RecordStep, WrittenBy, CancelledBy, RemovedBy
  <2> QED
    BY <2>1, <2>2
<1> QED
  BY <1>4, <1>5, <1>6, <1>7 DEF QueuedIsFresh, InState, OnDisk

LEMMA BegunStaysKnown ==
  ASSUME WellFormed, QueuedIsFresh, BegunIsKnown, [Next]_vars
  PROVE  BegunIsKnown'
<1>1. HandStep /\ WellFormed'
  BY HandsStep, TypesKept
<1>2. ASSUME NEW j \in Job, j \in Unfinished', j \notin Unfinished
      PROVE  j = worker.job /\ worker.at \notin EmptyHanded \cup {"picked"}
  BY <1>2, RecordsStep DEF RecordStep, CreatedBy, WrittenBy, CancelledBy, RemovedBy,
     Unfinished, InState, OnDisk
<1>3. Unfinished' \subseteq Job /\ Unfinished \subseteq Job
  BY DEF Unfinished, OnDisk
<1>4. worker.job # None => worker.at \notin EmptyHanded
  BY DEF WellFormed, HandIsFull
<1>5. None \notin Job
  BY NoneIsFresh
<1>6. record' = record => Unfinished' = Unfinished
  BY DEF Unfinished, InState, OnDisk
<1>7. CASE Stays
  BY <1>2, <1>3, <1>7 DEF BegunIsKnown, Stays
<1>8. CASE GoesOn
  BY <1>2, <1>3, <1>8 DEF BegunIsKnown, GoesOn, EmptyHanded
<1>9. CASE Takes
  <2>1. worker.job = None /\ todo = {} /\ worker'.job \notin Unfinished
    BY <1>9 DEF Takes, WellFormed, HandIsFull, RecoveryIsAPhase, EmptyHanded, Unfinished
  <2> QED
    BY <1>3, <1>5, <1>6, <1>9, <2>1 DEF BegunIsKnown, Takes
<1>10. CASE Starts
  BY <1>6, <1>10 DEF BegunIsKnown, Starts
<1>11. CASE LeavesAlone
  BY <1>2, <1>3, <1>5, <1>11 DEF BegunIsKnown, LeavesAlone, WellFormed, HandIsFull, EmptyHanded
<1>12. CASE Finishes
  <2>1. worker.job \notin Unfinished'
    BY <1>12 DEF Finishes, Unfinished, InState, OnDisk
  <2> QED
    BY <1>2, <1>3, <1>12, <2>1 DEF BegunIsKnown, Finishes
<1>13. CASE Lists
  BY <1>6, <1>13 DEF BegunIsKnown, Lists
<1>14. CASE Recovers
  BY <1>2, <1>3, <1>5, <1>14 DEF BegunIsKnown, Recovers, WellFormed, HandIsFull, EmptyHanded
<1>15. CASE Closes
  BY <1>2, <1>3, <1>5, <1>15 DEF BegunIsKnown, Closes, WellFormed, HandIsFull, EmptyHanded
<1>16. CASE Restarts
  BY <1>16 DEF BegunIsKnown, Restarts
<1> QED
  BY <1>1, <1>7, <1>8, <1>9, <1>10, <1>11, <1>12, <1>13, <1>14, <1>15, <1>16 DEF HandStep

-----------------------------------------------------------------------------
(* What was said of an ending stays said, until the job is removed *)

Says(j, o) == \E i \in DOMAIN journal'[j] : journal'[j][i] = o

LEMMA JournalsStep ==
  ASSUME WellFormed, [Next]_vars, NEW j \in Job, record'[j] # None, NEW o, Said(j, o)
  PROVE  Says(j, o)
<1> USE DEF WellFormed
<1>1. ASSUME NEW i \in Job, NEW e \in Event, Journal(i, e) PROVE Says(j, o)
  BY <1>1, JournalGrows DEF Says
<1>2. ASSUME journal' = journal PROVE Says(j, o)
  BY <1>2 DEF Said, Says
<1>3. ASSUME NEW r \in Req, CancelAppend(r) PROVE Says(j, o)
  BY <1>1, <1>2, <1>3 DEF CancelAppend, OnDisk, Event, Outcome
<1>4. ASSUME TailLog \/ AppendDone PROVE Says(j, o)
  <2>1. worker.job \in Job /\ (AppendDone => worker.end \in Event) /\ "log" \in Event
    BY <1>4 DEF TailLog, AppendDone, HandIsFull, EmptyHanded, OnDisk, EndIsKnown, Event
  <2> QED
    BY <1>1, <1>4, <2>1 DEF TailLog, AppendDone, mine
<1>5. ASSUME Retain PROVE Says(j, o)
  BY <1>5 DEF Retain, TypeOK, Said, Says, InState, OnDisk
<1>6. ASSUME NEW r \in Req, Submit(r) \/ Cancel(r), ~CancelAppend(r) PROVE journal' = journal
  BY <1>6 DEF Submit, Cancel, SubmitLookup, SubmitDepth, SubmitRefuse, SubmitCreate,
     SubmitIndex, CancelLoad, CancelSignal, CancelSave, disk
<1>7. ASSUME RecoverNext \/ PickJob \/ BoxBusy \/ Execute \/ Restart PROVE journal' = journal
  BY <1>7 DEF RecoverNext, ListRecords, Recovered, ResumeRunning, Orphan, PickJob, BoxBusy,
     Execute, Restart, disk
<1>8. ASSUME RunJob, ~TailLog, ~AppendDone, ~Retain PROVE journal' = journal
  BY <1>8 DEF RunJob, BeginPreparing, CommitReady, BeginBuilding, BinaryReady, StageFails,
     CancelSeen, NotCancelled, Spawn, RecordRunning, WaitEnds, Kill, Killed, KillingEnds,
     Collect, RecordDone, disk
<1>9. ASSUME UNCHANGED vars \/ \E i \in Job : ChildExits(i) PROVE journal' = journal
  BY <1>9 DEF vars, ChildExits, disk
<1> QED
  BY <1>2, <1>3, <1>4, <1>5, <1>6, <1>7, <1>8, <1>9 DEF Next

\* A request comes to its last write by saying what it will write; and it is
\* about a job on disk, or the one it has just created.
RequestStep(r) ==
  \/ requests'[r] \in {None, requests[r]}
  \/ /\ requests'[r] # None
     /\ \/ requests'[r].job = None
        \/ requests[r] # None /\ requests'[r].job = requests[r].job
        \/ requests'[r].job = minted'
        \/ requests'[r].job \in OnDisk
     /\ requests'[r].at = "save" =>
          /\ requests'[r].job \in Job /\ record' = record
          /\ requests'[r].job \in OnDisk => Says(requests'[r].job, "cancelled")

LEMMA RequestsStep ==
  ASSUME WellFormed, [Next]_vars, NEW r \in Req
  PROVE  RequestStep(r)
<1> USE DEF WellFormed
<1>1. ASSUME NEW p \in Req, Submit(p) \/ Cancel(p), p # r PROVE requests'[r] = requests[r]
  BY <1>1 DEF Submit, Cancel, SubmitLookup, SubmitDepth, SubmitRefuse, SubmitCreate,
     SubmitIndex, CancelLoad, CancelSignal, CancelAppend, CancelSave, Arrive, Answer,
     Advance, TypeOK
<1>2. ASSUME \/ \E k \in Key, s \in JobSpec : SubmitLookup(r, k, s)
             \/ SubmitDepth(r) \/ SubmitRefuse(r) \/ SubmitIndex(r)
      PROVE  RequestStep(r)
  <2>1. CASE \E k \in Key, s \in JobSpec : SubmitLookup(r, k, s)
    <3>1. PICK k \in Key, s \in JobSpec : SubmitLookup(r, k, s)
      BY <2>1
    <3> DEFINE q == [at |-> "depth", key |-> k, spec |-> s, job |-> None]
    <3>2. requests'[r] = q
      BY <3>1 DEF SubmitLookup, Arrive, TypeOK
    <3>3. q # None
      BY NoneIsFresh DEF Request
    <3> QED
      BY <3>2, <3>3 DEF RequestStep
  <2>2. CASE SubmitDepth(r) \/ SubmitRefuse(r) \/ SubmitIndex(r)
    BY <2>2, AnswerMoves, AdvanceMoves DEF SubmitDepth, SubmitRefuse, SubmitIndex, At, RequestStep
  <2> QED
    BY <1>2, <2>1, <2>2
<1>3. ASSUME SubmitCreate(r) PROVE RequestStep(r)
  <2> DEFINE j == minted + 1
             q == [requests[r] EXCEPT !.at = "index", !.job = j]
  <2>1. /\ requests[r] \in Request /\ requests[r].at = "create"
        /\ minted' = j /\ j \in Job /\ requests'[r] = q
    BY <1>3, BoundsAreNat DEF SubmitCreate, At, TypeOK, Job
  <2>2. q.at = "index" /\ q.job = minted' /\ q \in Request
    BY <2>1 DEF Request
  <2> HIDE DEF q
  <2>3. q # None
    BY <2>2, NoneIsFresh
  <2> QED
    BY <2>1, <2>2, <2>3 DEF RequestStep
<1>4. ASSUME NEW j \in Job, CancelLoad(r, j) PROVE RequestStep(r)
  <2> DEFINE q == [at |-> IF j \in InState("queued") THEN "append" ELSE "signal", job |-> j]
  <2>1. requests'[r] = q /\ j \in OnDisk
    BY <1>4 DEF CancelLoad, Arrive, TypeOK
  <2>2. q # None
    BY NoneIsFresh DEF Request
  <2> QED
    BY <2>1, <2>2 DEF RequestStep
<1>5. ASSUME CancelAppend(r) PROVE RequestStep(r)
  <2>1. requests[r] # None /\ requests[r].job \in Job
    BY <1>5 DEF CancelAppend, At, TypeOK, Request
  <2>2. /\ requests'[r] # None
        /\ requests'[r].at = "save" /\ requests'[r].job = requests[r].job
    BY <1>5, <2>1, AdvanceMoves DEF CancelAppend, At
  <2>3. requests[r].job \in OnDisk => Says(requests[r].job, "cancelled")
    BY <1>5, <2>1, JournalGrows DEF CancelAppend, Says, Event, Outcome
  <2> QED
    BY <1>5, <2>1, <2>2, <2>3 DEF RequestStep, CancelAppend
<1>6. ASSUME CancelSignal(r) \/ CancelSave(r) PROVE RequestStep(r)
  BY <1>6, AnswerMoves DEF CancelSignal, CancelSave, RequestStep
<1>7. ASSUME RecoverNext \/ PickJob \/ BoxBusy \/ Execute \/ RunJob PROVE requests' = requests
  BY <1>7 DEF RecoverNext, ListRecords, Recovered, ResumeRunning, Orphan, PickJob, BoxBusy,
     Execute, RunJob, BeginPreparing, CommitReady, BeginBuilding, BinaryReady, StageFails,
     CancelSeen, NotCancelled, Spawn, RecordRunning, TailLog, WaitEnds, Kill, Killed,
     KillingEnds, Collect, AppendDone, RecordDone, Retain
<1>8. ASSUME UNCHANGED vars \/ \E i \in Job : ChildExits(i) PROVE requests' = requests
  BY <1>8 DEF vars, ChildExits
<1>9. ASSUME Restart PROVE requests'[r] = None
  BY <1>9 DEF Restart
<1>10. CASE \E p \in Req : Submit(p) \/ Cancel(p)
  <2>1. PICK p \in Req : Submit(p) \/ Cancel(p)
    BY <1>10
  <2>2. CASE p # r
    BY <1>1, <2>1, <2>2 DEF RequestStep
  <2>3. CASE p = r
    BY <1>2, <1>3, <1>4, <1>5, <1>6, <2>1, <2>3 DEF Submit, Cancel
  <2> QED
    BY <2>2, <2>3
<1> QED
  BY <1>7, <1>8, <1>9, <1>10 DEF Next, RequestStep

LEMMA EndingsStaySaid ==
  ASSUME WellFormed, QueuedIsFresh, EndingsAreSaid, [Next]_vars
  PROVE  EndingsAreSaid'
<1>1. HandStep /\ WellFormed'
  BY HandsStep, TypesKept
<1>2. minted' \in Nat /\ minted \in Nat /\ minted <= minted'
  BY MintedGrows
<1>3. \A j \in OnDisk : j \in Nat /\ j <= minted
  BY <1>2 DEF QueuedIsFresh, OnDisk, Job
<1>4. ASSUME worker'.at = "record" PROVE Says(worker'.job, worker'.end)
  <2>1. worker'.job = worker.job /\ worker.job \in Job /\ record'[worker.job] # None
    BY <1>1, <1>4 DEF HandStep, Stays, GoesOn, Takes, Starts, LeavesAlone, Finishes, Lists,
       Recovers, Closes, Restarts, WellFormed, HandIsFull, EmptyHanded, OnDisk
  <2>2. CASE AppendDone
    <3>1. worker.end \in Event /\ worker'.end = worker.end
      BY <2>2, GoMoves DEF AppendDone, WellFormed, EndIsKnown, Event, Moved, Stage
    <3> QED
      BY <2>1, <2>2, <3>1, JournalGrows DEF AppendDone, WellFormed, Says, mine
  <2>3. CASE worker.at = "record" /\ worker'.end = worker.end
    BY <2>1, <2>3, JournalsStep DEF EndingsAreSaid
  <2> QED
    BY <1>1, <1>4, <2>2, <2>3 DEF HandStep, Stays, GoesOn, Takes, Starts, LeavesAlone,
       Finishes, Lists, Recovers, Closes, Restarts
<1>5. ASSUME NEW r \in Req, requests'[r] # None, requests'[r].job # None
      PROVE  requests'[r].job <= minted'
  <2>1. requests[r] # None /\ requests[r].job # None =>
          requests[r].job \in Nat /\ requests[r].job <= minted
    BY DEF EndingsAreSaid, WellFormed, TypeOK, Request, Job
  <2> QED
    BY <1>2, <1>3, <1>5, <2>1, RequestsStep DEF RequestStep
<1>6. ASSUME NEW r \in Req, requests'[r] # None, requests'[r].at = "save",
             requests'[r].job \in OnDisk'
      PROVE  Says(requests'[r].job, "cancelled")
  <2>1. CASE requests'[r] = requests[r]
    <3> DEFINE j == requests[r].job
    <3>1. j \in Job /\ record'[j] # None /\ j <= minted
      BY <1>6, <2>1, NoneIsFresh DEF OnDisk, EndingsAreSaid
    <3>2. j \in OnDisk
      BY <1>2, <3>1, RecordsStep DEF RecordStep, CreatedBy, WrittenBy, CancelledBy, RemovedBy, OnDisk
    <3>3. Said(j, "cancelled")
      BY <1>6, <2>1, <3>2 DEF EndingsAreSaid, At
    <3> QED
      BY <2>1, <3>1, <3>3, JournalsStep
  <2>2. CASE requests'[r] # requests[r]
    <3>1. record' = record => OnDisk' = OnDisk
      BY DEF OnDisk
    <3> QED
      BY <1>6, <2>2, <3>1, RequestsStep DEF RequestStep
  <2> QED
    BY <2>1, <2>2
<1>7. ASSUME NEW j \in Job, record'[j] # None, record'[j].state = "done"
      PROVE  Says(j, record'[j].outcome)
  <2>1. CASE record'[j] = record[j]
    BY <1>7, <2>1, JournalsStep DEF EndingsAreSaid, OutcomeIsJournaled, Said, InState, OnDisk
  <2>2. CASE WrittenBy(j)
    BY <1>7, <2>2, JournalsStep DEF WrittenBy, EndingsAreSaid
  <2>3. CASE CancelledBy(j)
    BY <1>7, <2>3, JournalsStep DEF CancelledBy, EndingsAreSaid, OnDisk
  <2> QED
    BY <1>7, <2>1, <2>2, <2>3, RecordsStep DEF RecordStep, CreatedBy, RemovedBy
<1> QED
  BY <1>4, <1>5, <1>6, <1>7 DEF EndingsAreSaid, Said, Says, At, OutcomeIsJournaled, InState, OnDisk

-----------------------------------------------------------------------------
(* The depth of the queue *)

Creators == {r \in Req : At(r, "create")}

\* Each request let in past the depth counts as a job already queued.
RoomForAll == Cardinality(InState("queued")) + Cardinality(Creators) < QueueDepth + Cardinality(Req)

LEMMA FewAreCounted ==
  /\ IsFiniteSet(InState("queued")) /\ Cardinality(InState("queued")) \in Nat
  /\ IsFiniteSet(Creators) /\ Cardinality(Creators) \in Nat
  /\ Cardinality(Creators) <= Cardinality(Req)
  /\ Cardinality(Req) \in Nat \ {0} /\ QueueDepth \in Nat
<1>1. IsFiniteSet(Job)
  BY FS_Interval, BoundsAreNat DEF Job
<1>2. IsFiniteSet(InState("queued"))
  BY <1>1, FS_Subset DEF InState, OnDisk
<1>3. IsFiniteSet(Creators) /\ Cardinality(Creators) <= Cardinality(Req)
  BY RequestsAreFinite, FS_Subset DEF Creators
<1>4. Cardinality(Req) # 0
  BY RequestsAreFinite, FS_EmptySet
<1> QED
  BY <1>2, <1>3, <1>4, RequestsAreFinite, FS_CardinalityType, BoundsAreNat

LEMMA FewStayCounted ==
  /\ IsFiniteSet(InState("queued")') /\ Cardinality(InState("queued")') \in Nat
  /\ IsFiniteSet(Creators') /\ Cardinality(Creators') \in Nat
  /\ Cardinality(Creators') <= Cardinality(Req)
<1>1. IsFiniteSet(Job)
  BY FS_Interval, BoundsAreNat DEF Job
<1>2. IsFiniteSet(InState("queued")')
  BY <1>1, FS_Subset DEF InState, OnDisk
<1>3. IsFiniteSet(Creators') /\ Cardinality(Creators') <= Cardinality(Req)
  BY RequestsAreFinite, FS_Subset DEF Creators
<1> QED
  BY <1>2, <1>3, FS_CardinalityType

\* A request is let in by the depth only, and creates one job.
LEMMA NobodySlipsIn ==
  ASSUME WellFormed, [Next]_vars, \A r \in Req : ~SubmitDepth(r)
  PROVE  Creators' \subseteq Creators
<1> USE DEF WellFormed
<1> SUFFICES ASSUME NEW r \in Req, At(r, "create")' PROVE At(r, "create")
  BY DEF Creators
<1>1. ASSUME NEW p \in Req, Submit(p) \/ Cancel(p) PROVE At(r, "create")
  <2>1. ASSUME p # r PROVE requests'[r] = requests[r]
    BY <1>1, <2>1 DEF Submit, Cancel, SubmitLookup, SubmitDepth, SubmitRefuse, SubmitCreate,
       SubmitIndex, CancelLoad, CancelSignal, CancelAppend, CancelSave, Arrive, Answer,
       Advance, TypeOK
  <2>2. ASSUME p = r, SubmitRefuse(r) \/ SubmitIndex(r) \/ CancelSignal(r) \/ CancelSave(r)
        PROVE  FALSE
    BY <2>2, AnswerMoves DEF SubmitRefuse, SubmitIndex, CancelSignal, CancelSave, At
  <2>3. ASSUME NEW k \in Key, NEW s \in JobSpec, SubmitLookup(r, k, s) PROVE FALSE
    BY <2>3 DEF SubmitLookup, Arrive, At, TypeOK
  <2>4. ASSUME NEW j \in Job, CancelLoad(r, j) PROVE FALSE
    BY <2>4 DEF CancelLoad, Arrive, At, TypeOK
  <2>5. ASSUME CancelAppend(r) PROVE FALSE
    BY <2>5, AdvanceMoves DEF CancelAppend, At
  <2>6. ASSUME SubmitCreate(r) PROVE At(r, "create")
    BY <2>6 DEF SubmitCreate
  <2>7. CASE p # r
    BY <2>1, <2>7 DEF At
  <2>8. CASE p = r
    BY <1>1, <2>2, <2>3, <2>4, <2>5, <2>6, <2>8 DEF Submit, Cancel
  <2> QED
    BY <2>7, <2>8
<1>2. ASSUME RecoverNext \/ PickJob \/ BoxBusy \/ Execute \/ RunJob PROVE requests' = requests
  BY <1>2 DEF RecoverNext, ListRecords, Recovered, ResumeRunning, Orphan, PickJob, BoxBusy,
     Execute, RunJob, BeginPreparing, CommitReady, BeginBuilding, BinaryReady, StageFails,
     CancelSeen, NotCancelled, Spawn, RecordRunning, TailLog, WaitEnds, Kill, Killed,
     KillingEnds, Collect, AppendDone, RecordDone, Retain
<1>3. ASSUME UNCHANGED vars \/ \E i \in Job : ChildExits(i) PROVE requests' = requests
  BY <1>3 DEF vars, ChildExits
<1>4. ASSUME Restart PROVE FALSE
  BY <1>4 DEF Restart, At
<1> QED
  BY <1>1, <1>2, <1>3, <1>4 DEF Next, At

\* Only a creation lengthens the queue, and by one.
LEMMA QueueGrowsByOne ==
  ASSUME WellFormed, [Next]_vars
  PROVE  /\ InState("queued")' \subseteq InState("queued") \cup {minted + 1}
         /\ minted' # minted + 1 => InState("queued")' \subseteq InState("queued")
<1> SUFFICES ASSUME NEW j \in Job, j \in InState("queued")', j \notin InState("queued")
             PROVE  minted' = minted + 1 /\ j = minted + 1
  BY DEF InState, OnDisk
<1>1. CreatedBy(j)
  BY RecordsStep DEF RecordStep, WrittenBy, CancelledBy, RemovedBy, InState, OnDisk
<1> QED
  BY <1>1 DEF CreatedBy

LEMMA RoomIsKept ==
  ASSUME WellFormed, RoomForAll, [Next]_vars
  PROVE  RoomForAll'
<1> DEFINE queued == Cardinality(InState("queued"))
           creators == Cardinality(Creators)
           later == Cardinality(InState("queued")')
           creating == Cardinality(Creators')
<1> SUFFICES later + creating < QueueDepth + Cardinality(Req)
  BY DEF RoomForAll
<1>1. queued + creators < QueueDepth + Cardinality(Req)
  BY DEF RoomForAll
<1>2. /\ queued \in Nat /\ creators \in Nat /\ later \in Nat /\ creating \in Nat
      /\ Cardinality(Req) \in Nat /\ QueueDepth \in Nat
      /\ creating <= Cardinality(Req)
  BY FewAreCounted, FewStayCounted
<1>3. InState("queued")' \subseteq InState("queued") => later <= queued
  BY FewAreCounted, FS_Subset
<1>4. Creators' \subseteq Creators => creating <= creators
  BY FewAreCounted, FS_Subset
<1>5. ASSUME NEW r \in Req, SubmitCreate(r)
      PROVE  later <= queued + 1 /\ creating <= creators - 1
  <2>1. r \in Creators /\ Creators' \subseteq Creators \ {r}
    <3>1. \A p \in Req : p # r => requests'[p] = requests[p]
      BY <1>5 DEF SubmitCreate, WellFormed, TypeOK
    <3>2. ~At(r, "create")'
      <4> DEFINE q == [requests[r] EXCEPT !.at = "index", !.job = minted + 1]
      <4>1. requests'[r] = q /\ requests[r] \in Request /\ requests[r].at = "create"
        BY <1>5 DEF SubmitCreate, At, WellFormed, TypeOK
      <4>2. q.at = "index"
        BY <4>1 DEF Request
      <4> HIDE DEF q
      <4> QED
        BY <4>1, <4>2 DEF At
    <3> QED
      BY <1>5, <3>1, <3>2 DEF Creators, At, SubmitCreate
  <2>2. creating <= creators - 1
    <3>1. IsFiniteSet(Creators \ {r}) /\ Cardinality(Creators \ {r}) = creators - 1
      BY <2>1, FewAreCounted, FS_RemoveElement
    <3> QED
      BY <2>1, <3>1, FS_Subset
  <2>3. later <= queued + 1
    <3> DEFINE more == InState("queued") \cup {minted + 1}
    <3>1. IsFiniteSet(more) /\ Cardinality(more) \in {queued, queued + 1}
      BY FewAreCounted, FS_AddElement
    <3>2. later <= Cardinality(more)
      BY <3>1, QueueGrowsByOne, FS_Subset
    <3> QED
      BY <3>1, <3>2, <1>2
  <2> QED
    BY <2>2, <2>3
<1>6. ASSUME NEW r \in Req, SubmitDepth(r)
      PROVE  \/ later = queued /\ queued < QueueDepth
             \/ later = queued /\ creating <= creators
  <2>1. later = queued
    BY <1>6 DEF SubmitDepth, disk, InState, OnDisk
  <2>2. CASE queued >= QueueDepth
    <3>1. Answer(r)
      BY <1>6, <2>2 DEF SubmitDepth
    <3>2. Creators' \subseteq Creators
      BY <3>1, AnswerMoves DEF Creators, At, WellFormed
    <3> QED
      BY <2>1, <3>2, <1>4
  <2> QED
    BY <2>1, <2>2, <1>2
<1>7. ASSUME \A r \in Req : ~SubmitCreate(r) /\ ~SubmitDepth(r)
      PROVE  later <= queued /\ creating <= creators
  <2>1. minted' # minted + 1
    <3>1. minted' = minted
      BY <1>7 DEF Next, vars, disk, memory, Submit, Cancel, SubmitLookup, SubmitRefuse,
         SubmitIndex, CancelLoad, CancelSignal, CancelAppend, CancelSave, RecoverNext,
         ListRecords, Recovered, ResumeRunning, Orphan, PickJob, BoxBusy, Execute, RunJob,
         BeginPreparing, CommitReady, BeginBuilding, BinaryReady, StageFails, CancelSeen,
         NotCancelled, Spawn, RecordRunning, TailLog, WaitEnds, Kill, Killed, KillingEnds,
         Collect, AppendDone, RecordDone, Retain, ChildExits, Restart
    <3> QED
      BY <3>1 DEF WellFormed, TypeOK
  <2> QED
    BY <1>3, <1>4, <1>7, <2>1, QueueGrowsByOne, NobodySlipsIn
<1> HIDE DEF queued, creators, later, creating
<1>8. CASE \E r \in Req : SubmitCreate(r)
  BY <1>1, <1>2, <1>5, <1>8
<1>9. CASE \E r \in Req : SubmitDepth(r)
  BY <1>1, <1>2, <1>6, <1>9
<1> QED
  BY <1>1, <1>2, <1>7, <1>8, <1>9

-----------------------------------------------------------------------------
(* Whom a cancel reaches *)

\* At most one job has begun and not ended: it is in hand, or all there is on
\* the list.
OneHasBegun ==
  /\ \A i, j \in Unfinished : i = j
  /\ worker.at # "list" => /\ \A i, j \in todo : i = j
                           /\ worker.job # None => todo = {}

\* The job in hand has a flag, unless it was orphaned and no gate of it runs.
FlagIsThere ==
  worker.at \notin EmptyHanded \cup {"picked"} =>
    \/ flag[worker.job] # "none"
    \/ /\ worker.at \in {"finish", "record"}
       /\ worker.job \notin InState("running") \cap Up

\* Only a restart takes the worker back to the list.
LEMMA ListIsForRestarts ==
  ASSUME WellFormed, [Next]_vars, worker.at # "list", worker'.at = "list"
  PROVE  Restart
<1>1. HandStep
  BY HandsStep
<1>2. Restarts /\ worker' # worker
  BY <1>1 DEF HandStep, Stays, GoesOn, Takes, Starts, LeavesAlone, Finishes, Lists, Recovers,
     Closes, EmptyHanded
<1>3. ASSUME NEW r \in Req, Submit(r) \/ Cancel(r) PROVE worker' = worker
  BY <1>3 DEF Submit, Cancel, SubmitLookup, SubmitDepth, SubmitRefuse, SubmitCreate,
     SubmitIndex, CancelLoad, CancelSignal, CancelAppend, CancelSave, memory
<1>4. ASSUME RecoverNext \/ PickJob \/ BoxBusy \/ Execute PROVE FALSE
  <2>1. \A s \in Stage : Go(s) => worker'.at = s
    BY GoMoves DEF Moved, WellFormed
  <2> QED
    BY <1>2, <1>4, <2>1 DEF RecoverNext, ListRecords, Recovered, ResumeRunning, Orphan, Recover,
       PickJob, BoxBusy, Execute, AtStart, Stage, Recovering, WellFormed, TypeOK, Worker
<1>5. ASSUME RunJob PROVE FALSE
  <2>1. \A s \in Stage : Go(s) => worker'.at = s
    BY GoMoves DEF Moved, WellFormed
  <2>2. \A o \in Outcome : End(o) => worker'.at = "finish"
    BY EndMoves DEF WellFormed
  <2>3. CASE StageFails \/ CancelSeen \/ Collect
    BY <1>2, <2>2, <2>3 DEF StageFails, CancelSeen, Collect, Outcome
  <2>4. CASE TailLog \/ Kill \/ Killed \/ RecordDone
    BY <1>2, <2>4 DEF TailLog, Kill, Killed, RecordDone, AtStart, WellFormed, TypeOK, Worker
  <2> QED
    BY <1>2, <1>5, <2>1, <2>3, <2>4
    DEF RunJob, BeginPreparing, CommitReady, BeginBuilding, BinaryReady, NotCancelled, Spawn,
        RecordRunning, WaitEnds, KillingEnds, AppendDone, Retain, Stage
<1> QED
  BY <1>2, <1>3, <1>4, <1>5 DEF Next, ChildExits, memory, vars

LEMMA OneStaysBegun ==
  ASSUME WellFormed, QueuedIsFresh, BegunIsKnown, OneHasBegun, [Next]_vars
  PROVE  OneHasBegun'
<1>1. HandStep /\ WellFormed' /\ BegunIsKnown'
  BY HandsStep, TypesKept, BegunStaysKnown
<1>2. worker.job # None => worker.at \notin EmptyHanded
  BY DEF WellFormed, HandIsFull
<1>3. worker.at \notin EmptyHanded => worker.job # None
  BY NoneIsFresh DEF WellFormed, HandIsFull, OnDisk
<1>4. ASSUME worker'.at # "list"
      PROVE  /\ \A i, j \in todo' : i = j
             /\ worker'.job # None => todo' = {}
  <2>1. CASE Stays \/ GoesOn \/ Starts
    BY <1>4, <2>1 DEF Stays, GoesOn, Starts, OneHasBegun, EmptyHanded
  <2>2. CASE Takes
    BY <2>2 DEF Takes, WellFormed, RecoveryIsAPhase
  <2>3. CASE LeavesAlone \/ Closes
    BY <2>3 DEF LeavesAlone, Closes, WellFormed, RecoveryIsAPhase
  <2>4. CASE Finishes
    BY <1>3, <2>4 DEF Finishes, OneHasBegun, EmptyHanded
  <2>5. CASE Lists
    BY <1>2, <2>5 DEF Lists, OneHasBegun, EmptyHanded
  <2>6. CASE Recovers
    BY <2>6 DEF Recovers, OneHasBegun
  <2>7. CASE Restarts
    BY <1>4, <2>7 DEF Restarts
  <2> QED
    BY <1>1, <2>1, <2>2, <2>3, <2>4, <2>5, <2>6, <2>7 DEF HandStep
<1>5. ASSUME worker'.at # "list" PROVE \A i, j \in Unfinished' : i = j
  <2>1. Unfinished' \subseteq {worker'.job} \cup todo' /\ None \notin Unfinished'
    BY <1>1, <1>5, NoneIsFresh DEF BegunIsKnown, Unfinished, OnDisk
  <2> QED
    BY <1>4, <1>5, <2>1
<1>6. ASSUME worker'.at = "list" PROVE \A i, j \in Unfinished' : i = j
  <2>1. CASE worker.at \in EmptyHanded \cup {"picked"}
    <3>1. Unfinished' \subseteq Unfinished
      <4> SUFFICES ASSUME NEW j \in Job, j \in Unfinished' PROVE j \in Unfinished
        BY DEF Unfinished, OnDisk
      <4> QED
        BY <2>1, RecordsStep DEF RecordStep, CreatedBy, WrittenBy, CancelledBy, RemovedBy,
           Unfinished, InState, OnDisk
    <3> QED
      BY <3>1 DEF OneHasBegun
  <2>2. CASE worker.at \notin EmptyHanded \cup {"picked"}
    <3>1. Restart
      BY <1>6, <2>2, ListIsForRestarts DEF EmptyHanded
    <3>2. Unfinished' = Unfinished
      BY <3>1 DEF Restart, disk, Unfinished, InState, OnDisk
    <3> QED
      BY <3>2 DEF OneHasBegun
  <2> QED
    BY <2>1, <2>2
<1> QED
  BY <1>4, <1>5, <1>6 DEF OneHasBegun

LEMMA FlagStaysThere ==
  ASSUME WellFormed, FlagIsThere, [Next]_vars
  PROVE  FlagIsThere'
<1>0. worker.at \notin EmptyHanded => worker.job \in OnDisk /\ worker.job \in Job
  BY DEF WellFormed, HandIsFull, OnDisk
<1>1. ASSUME NEW r \in Req, Submit(r) \/ Cancel(r) PROVE FlagIsThere'
  <2>1. worker' = worker /\ child' = child
    BY <1>1 DEF Submit, Cancel, SubmitLookup, SubmitDepth, SubmitRefuse, SubmitCreate,
       SubmitIndex, CancelLoad, CancelSignal, CancelAppend, CancelSave, memory
  <2>2. \A j \in Job : flag'[j] = "none" => flag[j] = "none"
    <3>1. CASE CancelSignal(r)
      BY <3>1 DEF CancelSignal, WellFormed, TypeOK
    <3>2. CASE ~CancelSignal(r)
      BY <1>1, <3>2 DEF Submit, Cancel, SubmitLookup, SubmitDepth, SubmitRefuse, SubmitCreate,
         SubmitIndex, CancelLoad, CancelAppend, CancelSave, memory
    <3> QED
      BY <3>1, <3>2
  <2>3. \A j \in Job : j \in InState("running")' => j \in InState("running")
    <3>1. CASE SubmitCreate(r)
      <4> DEFINE new == [key |-> requests[r].key, spec |-> requests[r].spec,
                         state |-> "queued", outcome |-> None]
      <4>1. record' = [record EXCEPT ![minted + 1] = new] /\ new.state = "queued"
        BY <3>1 DEF SubmitCreate
      <4> HIDE DEF new
      <4> QED
        BY <4>1 DEF WellFormed, TypeOK, InState, OnDisk
    <3>2. CASE CancelSave(r)
      BY <3>2, SaveWrites, NoneIsFresh
      DEF CancelSave, WellFormed, State, Outcome, InState, OnDisk
    <3>3. CASE ~SubmitCreate(r) /\ ~CancelSave(r)
      <4>1. record' = record
        BY <1>1, <3>3 DEF Submit, Cancel, SubmitLookup, SubmitDepth, SubmitRefuse, SubmitIndex,
           CancelLoad, CancelSignal, CancelAppend, disk
      <4> QED
        BY <4>1 DEF InState, OnDisk
    <3> QED
      BY <3>1, <3>2, <3>3
  <2> QED
    BY <1>0, <2>1, <2>2, <2>3 DEF FlagIsThere, EmptyHanded, Up
<1>2. ASSUME UNCHANGED vars \/ \E i \in Job : ChildExits(i) PROVE FlagIsThere'
  <2>1. worker' = worker /\ flag' = flag /\ record' = record
    BY <1>2 DEF vars, ChildExits, disk, memory
  <2>2. Up' \subseteq Up
    BY <1>2 DEF vars, ChildExits, Up, WellFormed, TypeOK
  <2> QED
    BY <2>1, <2>2 DEF FlagIsThere, InState, OnDisk
<1>3. ASSUME Restart \/ ListRecords \/ Recovered \/ PickJob \/ BoxBusy \/ Retain \/ RecordDone
      PROVE  FlagIsThere'
  <2>1. worker'.at \in EmptyHanded \cup {"picked"}
    <3>1. CASE ListRecords \/ Retain
      BY <3>1, GoMoves DEF ListRecords, Retain, Moved, Stage, Recovering, EmptyHanded, WellFormed
    <3>2. CASE Restart
      BY <3>2 DEF Restart, AtStart, EmptyHanded
    <3>3. CASE PickJob
      BY <3>3, HandsStep DEF PickJob, HandStep, Stays, GoesOn, Takes, Starts, LeavesAlone,
         Finishes, Lists, Recovers, Closes, Restarts, EmptyHanded
    <3>4. CASE Recovered \/ BoxBusy
      BY <3>4 DEF Recovered, BoxBusy, EmptyHanded, WellFormed, TypeOK, Worker
    <3>5. CASE RecordDone
      BY <3>5 DEF RecordDone, AtStart, EmptyHanded
    <3> QED
      BY <1>3, <3>1, <3>2, <3>3, <3>4, <3>5
  <2> QED
    BY <2>1 DEF FlagIsThere
<1>4. ASSUME Execute \/ \E j \in Job : ResumeRunning(j) PROVE FlagIsThere'
  <2>1. worker'.job \in Job /\ flag'[worker'.job] = "clear"
    <3>1. CASE Execute
      BY <1>0, <3>1, GoMoves DEF Execute, mine, Moved, Stage, EmptyHanded, WellFormed, TypeOK
    <3>2. ASSUME NEW j \in Job, ResumeRunning(j) PROVE worker'.job = j /\ flag'[j] = "clear"
      BY <3>2 DEF ResumeRunning, WellFormed, TypeOK, Worker
    <3> QED
      BY <1>4, <3>1, <3>2
  <2> QED
    BY <2>1 DEF FlagIsThere
<1>5. ASSUME NEW j \in Job, Orphan(j) PROVE FlagIsThere'
  <2>1. worker'.at = "finish" /\ worker'.job = j /\ j \notin InState("running") \cap Up
    BY <1>5 DEF Orphan, WellFormed, TypeOK, Worker
  <2>2. record' = record /\ child' = child
    BY <1>5 DEF Orphan, disk
  <2> QED
    BY <2>1, <2>2 DEF FlagIsThere, InState, OnDisk, Up
<1>6. ASSUME \/ BeginPreparing \/ CommitReady \/ BeginBuilding \/ BinaryReady \/ StageFails
             \/ CancelSeen \/ NotCancelled \/ Spawn \/ RecordRunning \/ TailLog \/ WaitEnds
             \/ Kill \/ Killed \/ KillingEnds \/ Collect
      PROVE  FlagIsThere'
  <2>1. flag' = flag /\ worker.at \notin EmptyHanded \cup {"picked", "finish", "record"}
    BY <1>6 DEF BeginPreparing, CommitReady, BeginBuilding, BinaryReady, StageFails, CancelSeen,
       NotCancelled, Spawn, RecordRunning, TailLog, WaitEnds, Kill, Killed, KillingEnds, Collect,
       EmptyHanded
  <2>2. worker'.job = worker.job
    BY <1>6 DEF BeginPreparing, CommitReady, BeginBuilding, BinaryReady, StageFails, CancelSeen,
       NotCancelled, Spawn, RecordRunning, TailLog, WaitEnds, Kill, Killed, KillingEnds, Collect,
       Go, End, WellFormed, TypeOK, Worker
  <2> QED
    BY <2>1, <2>2 DEF FlagIsThere
<1>7. ASSUME AppendDone PROVE FlagIsThere'
  <2>1. /\ flag' = flag /\ record' = record /\ child' = child
        /\ worker.at = "finish" /\ Moved("record")
    BY <1>7, GoMoves DEF AppendDone, Stage, WellFormed
  <2> QED
    BY <2>1 DEF FlagIsThere, Moved, EmptyHanded, InState, OnDisk, Up
<1> QED
  BY <1>1, <1>2, <1>3, <1>4, <1>5, <1>6, <1>7 DEF Next, RecoverNext, RunJob

\* A request that signals is answered by signalling, or goes with the agent.
LEMMA SignalsAreAnswered ==
  ASSUME WellFormed, [Next]_vars, NEW r \in Req, At(r, "signal"), requests'[r] = None,
         restarts' = restarts
  PROVE  CancelSignal(r)
<1>1. requests[r] # None /\ requests[r].at = "signal" /\ restarts \in Nat
  BY BoundsAreNat DEF At, WellFormed, TypeOK
<1>2. ASSUME NEW p \in Req, Submit(p) \/ Cancel(p), ~CancelSignal(p) PROVE requests'[r] = requests[r]
  <2>1. p # r
    BY <1>1, <1>2 DEF Submit, Cancel, SubmitLookup, SubmitDepth, SubmitRefuse, SubmitCreate,
       SubmitIndex, CancelLoad, CancelAppend, CancelSave, Arrive, At
  <2> QED
    BY <1>2, <2>1 DEF Submit, Cancel, SubmitLookup, SubmitDepth, SubmitRefuse, SubmitCreate,
       SubmitIndex, CancelLoad, CancelAppend, CancelSave, Arrive, Answer, Advance,
       WellFormed, TypeOK
<1>3. ASSUME NEW p \in Req, CancelSignal(p), p # r PROVE requests'[r] = requests[r]
  BY <1>3 DEF CancelSignal, Answer, WellFormed, TypeOK
<1>4. ASSUME \/ UNCHANGED vars \/ RecoverNext \/ PickJob \/ BoxBusy \/ Execute \/ RunJob
             \/ \E j \in Job : ChildExits(j)
      PROVE  requests' = requests
  BY <1>4 DEF vars, RecoverNext, ListRecords, Recovered, ResumeRunning, Orphan, PickJob, BoxBusy,
     Execute, RunJob, BeginPreparing, CommitReady, BeginBuilding, BinaryReady, StageFails,
     CancelSeen, NotCancelled, Spawn, RecordRunning, TailLog, WaitEnds, Kill, Killed,
     KillingEnds, Collect, AppendDone, RecordDone, Retain, ChildExits
<1>5. ~Restart
  BY <1>1 DEF Restart
<1> QED
  BY <1>1, <1>2, <1>3, <1>4, <1>5 DEF Next, Cancel

-----------------------------------------------------------------------------
(* The theorems *)

LEMMA QueueInvHolds == Spec => []QueueInv
<1>1. QueueInv /\ [Next]_vars => QueueInv'
  BY TypesKept, BoxStaysFree, QueuedStayFresh, BegunStaysKnown, EndingsStaySaid DEF QueueInv
<1> QED
  BY InitQueueInv, <1>1, PTL DEF Spec

\* Every variable keeps its type, the records on disk and the worker's hand
\* included.
THEOREM QueueTypes == Spec => []TypeOK
<1>1. QueueInv => TypeOK
  BY DEF QueueInv, WellFormed
<1> QED
  BY QueueInvHolds, <1>1, PTL

\* Two gates never run at once (runner.rs: one job at a time), however many
\* restarts there are and wherever they strike.
THEOREM GatesTakeTurns == Spec => []OneGateAtATime
<1>1. QueueInv => OneGateAtATime
  <2> SUFFICES ASSUME QueueInv PROVE Cardinality(Up) <= 1
    BY DEF OneGateAtATime
  <2>1. \A i, j \in Up : i = j
    BY DEF QueueInv, BoxIsFree
  <2>2. CASE Up = {}
    <3>1. Cardinality(Up) = 0
      BY <2>2, FS_EmptySet, Zenon
    <3> QED
      BY <3>1
  <2>3. CASE Up # {}
    <3>1. PICK j : Up = {j}
      BY <2>1, <2>3
    <3>2. Cardinality({j}) = 1
      BY FS_Singleton, Zenon
    <3>3. Cardinality(Up) = 1
      BY <3>1, <3>2, Zenon
    <3> QED
      BY <3>3
  <2> QED
    BY <2>2, <2>3
<1> QED
  BY QueueInvHolds, <1>1, PTL

\* A job's gate is started once in its life, whatever restarts and cancels it
\* meets (runner.rs: a job that is not resumed is orphaned, not run again).
THEOREM GatesStartOnce == Spec => NoJobRunsTwice
<1>1. QueueInv /\ [Next]_vars =>
        [\A j \in Job : child[j] # "up" /\ child'[j] = "up" => child[j] = "none"]_vars
  <2> SUFFICES ASSUME QueueInv, [Next]_vars, NEW j \in Job, child[j] # "up", child'[j] = "up"
               PROVE  child[j] = "none"
    OBVIOUS
  <2>1. Spawn /\ j = worker.job
    BY GatesStep DEF GateStep, QueueInv, WellFormed
  <2> QED
    BY <2>1 DEF QueueInv, QueuedIsFresh, BeforeStart, Spawn
<1> QED
  BY QueueInvHolds, <1>1, PTL DEF Spec, NoJobRunsTwice

\* Outside recovery the only job begun and not over is the one in hand: no
\* restart leaves another behind (runner.rs, recover).
THEOREM NoJobIsLeft == Spec => []NothingLeftBehind
<1>1. QueueInv => NothingLeftBehind
  BY DEF QueueInv, BegunIsKnown, NothingLeftBehind, Recovering, mine
<1> QED
  BY QueueInvHolds, <1>1, PTL

\* A record that says how its job ended is backed by its journal, so a
\* follower can replay it (machine.rs, finish; host.rs, cancel).
THEOREM OutcomesAreJournaled == Spec => []OutcomeIsJournaled
<1>1. QueueInv => OutcomeIsJournaled
  BY DEF QueueInv, EndingsAreSaid
<1> QED
  BY QueueInvHolds, <1>1, PTL

\* A cancel that answers for a job whose gate is up has set the flag the worker
\* looks at, unless a restart has come in between and recovery is not over
\* (host.rs, cancel: a running job is signalled to its worker).
THEOREM CancelsAreHeard == Spec => CancelIsHeard
<1>1. Init => OneHasBegun /\ FlagIsThere
  BY DEF Init, AtStart, OneHasBegun, FlagIsThere, EmptyHanded, Unfinished, InState, OnDisk
<1>2. QueueInv /\ OneHasBegun /\ FlagIsThere /\ [Next]_vars => OneHasBegun' /\ FlagIsThere'
  BY OneStaysBegun, FlagStaysThere DEF QueueInv
<1>3. QueueInv /\ OneHasBegun /\ FlagIsThere /\ [Next]_vars =>
        [\A r \in Req : At(r, "signal") /\ requests'[r] = None /\ restarts' = restarts
                        => \/ requests[r].job \notin InState("running") \cap Up
                           \/ flag'[requests[r].job] = "set"
                           \/ worker.at \in Recovering]_vars
  <2> SUFFICES ASSUME QueueInv, OneHasBegun, FlagIsThere, [Next]_vars,
                      NEW r \in Req, At(r, "signal"), requests'[r] = None, restarts' = restarts,
                      requests[r].job \in InState("running") \cap Up,
                      worker.at \notin Recovering
               PROVE  flag'[requests[r].job] = "set"
    OBVIOUS
  <2>1. CancelSignal(r)
    BY SignalsAreAnswered DEF QueueInv
  <2>2. requests[r].job \in Job /\ requests[r].job \in Unfinished
    BY DEF Unfinished, InState, OnDisk
  <2>3. todo # {} => worker.job = None /\ worker.at \notin EmptyHanded
    BY DEF OneHasBegun, QueueInv, WellFormed, RecoveryIsAPhase, Recovering, EmptyHanded
  <2>4. todo = {}
    BY <2>3, NoneIsFresh DEF QueueInv, WellFormed, HandIsFull, OnDisk
  <2>5. requests[r].job = worker.job
    BY <2>2, <2>4 DEF QueueInv, BegunIsKnown, Recovering
  <2>6. worker.at \notin EmptyHanded \cup {"picked"}
    BY <2>2, <2>5, NoneIsFresh DEF QueueInv, BegunIsKnown, WellFormed, HandIsFull
  <2>7. flag[worker.job] # "none"
    BY <2>5, <2>6 DEF FlagIsThere
  <2> QED
    BY <2>1, <2>2, <2>5, <2>7 DEF CancelSignal, QueueInv, WellFormed, TypeOK
<1> QED
  BY QueueInvHolds, <1>1, <1>2, <1>3, PTL DEF Spec, CancelIsHeard

\* Requests served at once overshoot the depth of the queue by less than one
\* job each: the depth is read, and the job created later (host.rs, submit).
THEOREM DepthOvershootIsBounded == Spec => []DepthRespected
<1>1. Init => RoomForAll
  <2> SUFFICES ASSUME Init PROVE RoomForAll
    OBVIOUS
  <2>1. InState("queued") = {} /\ Creators = {}
    BY DEF Init, InState, OnDisk, Creators, At
  <2>2. Cardinality(InState("queued")) = 0 /\ Cardinality(Creators) = 0
    BY <2>1, FS_EmptySet, Zenon
  <2> QED
    BY <2>2, FewAreCounted DEF RoomForAll
<1>2. QueueInv /\ RoomForAll /\ [Next]_vars => RoomForAll'
  BY RoomIsKept DEF QueueInv
<1>3. RoomForAll => DepthRespected
  BY FewAreCounted DEF RoomForAll, DepthRespected
<1> QED
  BY QueueInvHolds, <1>1, <1>2, <1>3, PTL DEF Spec

=============================================================================
