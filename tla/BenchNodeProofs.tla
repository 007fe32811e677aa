-------------------------- MODULE BenchNodeProofs --------------------------
(***************************************************************************)
(* What an operator's bench commands guarantee, for any nodes, addresses,  *)
(* files, sizes and number of commands; and what the box a job runs on     *)
(* does, for any commits, records, jobs and settings.                      *)
(***************************************************************************)
EXTENDS BenchNode, FiniteSetTheorems, SequenceTheorems, WellFoundedInduction, TLAPS

\* Only three codes are the three exits a script tells an outcome from.
LEMMA ExitCodes ==
  /\ ExitOf["ok"] = 0
  /\ \A code \in Code \ {"ok", "job_failed", "job_cancelled"} : ExitOf[code] \notin {0, 5, 6}
  /\ ExitOf["job_failed"] = 5
  /\ ExitOf["job_cancelled"] = 6
  BY DEF ExitOf, Code

LEMMA LinkExits ==
  ASSUME NEW e \in LinkError
  PROVE  FromLink(e) \in {"unreachable", "not_paired", "unsupported_version"}
  BY DEF FromLink, LinkError, DialError, Transient, Breakage

LEMMA OtherExits ==
  /\ {"unreachable", "not_paired", "unsupported_version", "not_granted", "refused",
      "stream_lost", "io"} \subseteq Code \ {"ok", "job_failed", "job_cancelled"}
  BY DEF ExitOf, Code

-----------------------------------------------------------------------------
(* The inductive invariant *)

\* A command knows its node once it was answered; `run` goes on with the
\* address that took its job, and knows the outcome of the job that is there.
CommandInv ==
  cmd # None =>
    /\ cmd.at \in {"follow", "chunk", "write"} => cmd.reached # None
    /\ cmd.at = "ask" => cmd.verb # "fetch"
    /\ cmd.at = "follow" => cmd.verb \in {"attach", "run"}
    /\ cmd.at \in {"ask", "follow", "list"} => cmd.done = 0
    /\ cmd.at = "follow" \/ (cmd.at = "list" /\ cmd.verb = "run") =>
         cmd.todo = <<cmd.reached>>
    /\ cmd.verb = "run" /\ cmd.at \in {"list", "chunk", "write"} =>
         /\ cmd.reached # None
         /\ cmd.outcome # None
         /\ TheJob # None => TheJob.outcome = cmd.outcome

Bringing == cmd # None /\ cmd.at \in {"chunk", "write"}

\* Of the files it is bringing back, each once, those that are done are on disk
\* as listed, and the one about to be written is as long as it was listed.
\* While the job is there its files are no shorter than listed, and those of a
\* job that is over are the files that were listed.
FilesInv ==
  Bringing =>
    /\ \A i, k \in DOMAIN cmd.items : cmd.items[i].name = cmd.items[k].name => i = k
    /\ cmd.done <= Len(cmd.items)
    /\ \A i \in 1..cmd.done : out[cmd.items[i].name] = Whole(cmd.items[i].size)
    /\ cmd.at = "write" => cmd.done < Len(cmd.items) /\ cmd.data = Item.size
    /\ TheJob # None => \A i \in DOMAIN cmd.items :
         /\ TheJob.files[cmd.items[i].name] # None
         /\ cmd.items[i].size <= TheJob.files[cmd.items[i].name]
    /\ TheJob # None /\ cmd.verb = "run" => \A a \in Manifest(TheJob) :
         \E i \in DOMAIN cmd.items :
           cmd.items[i].name = a /\ cmd.items[i].size = TheJob.files[a]

BenchInv == TypeOK /\ CommandInv /\ FilesInv /\ ExitTellsTheTruth

LEMMA BenchInvInit == Init => BenchInv
<1> SUFFICES ASSUME Init PROVE BenchInv
  OBVIOUS
<1>1. NewJob \in Job
  BY DEF NewJob, Job
<1>2. Absent \in OnDisk /\ [state |-> "foreign", size |-> 1] \in OnDisk
  BY DEF Absent, OnDisk
<1>3. TypeOK
  BY <1>1, <1>2, CommandAssumption DEF Init, TypeOK
<1> QED
  BY <1>3 DEF Init, BenchInv, CommandInv, FilesInv, Bringing, ExitTellsTheTruth

-----------------------------------------------------------------------------
(* The node *)

LEMMA JobFacts ==
  ASSUME TypeOK, NEW n \in Node, job[n] # None
  PROVE  /\ job[n] \in Job
         /\ job[n].outcome \in Outcome \cup {None}
         /\ job[n].files \in [Artifact -> Size \cup {None}]
         /\ \A a \in Artifact : job[n].files[a] # None => job[n].files[a] \in Nat
  BY CommandAssumption DEF TypeOK, Job

\* What a step of a node may do to its job, as a command in progress counts on:
\* a job does not come back, its files do not shrink, and once it is over it
\* does not change.
JobGoesOn(n) ==
  \/ job'[n] = job[n]
  \/ job'[n] = None
  \/ /\ job[n] # None /\ job'[n] \in Job /\ job[n].outcome = None
     /\ \A a \in Artifact : job[n].files[a] # None =>
          job'[n].files[a] # None /\ job[n].files[a] <= job'[n].files[a]

JobsGoOn == job' \in [Node -> Job \cup {None}] /\ \A n \in Node : JobGoesOn(n)

LEMMA NodeSteps ==
  ASSUME TypeOK, NEW n \in Node, JobWrites(n) \/ JobEnds(n) \/ JobRetired(n)
  PROVE  JobsGoOn
<1>1. CASE JobWrites(n)
  <2>1. PICK a \in Artifact, s \in Size :
          /\ job[n].files[a] # None => s > job[n].files[a]
          /\ job' = [job EXCEPT ![n].files[a] = s]
    BY <1>1 DEF JobWrites
  <2>2. job[n] # None /\ job[n].outcome = None
    BY <1>1 DEF JobWrites
  <2> DEFINE fs == [job[n].files EXCEPT ![a] = s]
             j == [job[n] EXCEPT !.files = fs]
  <2>3. fs \in [Artifact -> Size \cup {None}]
    BY <2>2, JobFacts
  <2>4. fs[a] = s /\ \A b \in Artifact : b # a => fs[b] = job[n].files[b]
    BY <2>2, JobFacts
  <2>5. job'[n] = [job[n] EXCEPT !.files = [@ EXCEPT ![a] = s]]
    BY <2>1 DEF TypeOK
  <2>6. job'[n] = j
    BY <2>5
  <2> HIDE DEF fs
  <2>7. j \in Job /\ j.files = fs
    BY <2>2, <2>3, JobFacts DEF Job
  <2>8. \A m \in Node : m # n => job'[m] = job[m]
    BY <2>1 DEF TypeOK
  <2>9. job' \in [Node -> Job \cup {None}]
    <3>1. DOMAIN job' = Node /\ job' = [m \in Node |-> job'[m]]
      BY <2>1 DEF TypeOK
    <3> HIDE DEF j
    <3> QED
      BY <2>6, <2>7, <2>8, <3>1 DEF TypeOK
  <2>10. s \in Nat /\ s # None
    BY CommandAssumption, CommandNoneIsFresh
  <2>11. \A b \in Artifact : job[n].files[b] # None =>
           fs[b] # None /\ job[n].files[b] <= fs[b]
    BY <2>1, <2>2, <2>4, <2>10, JobFacts
  <2> HIDE DEF j
  <2> QED
    BY <2>2, <2>6, <2>7, <2>8, <2>9, <2>11 DEF JobsGoOn, JobGoesOn
<1>2. CASE JobEnds(n)
  <2>1. PICK o \in {"passed", "failed"} : job' = [job EXCEPT ![n].outcome = o]
    BY <1>2 DEF JobEnds
  <2>2. job[n] # None /\ job[n].outcome = None
    BY <1>2 DEF JobEnds
  <2> DEFINE j == [job[n] EXCEPT !.outcome = o]
  <2>3. j \in Job /\ j.files = job[n].files
    BY <2>2, JobFacts DEF Job, Outcome
  <2>4. job'[n] = j /\ \A m \in Node : m # n => job'[m] = job[m]
    BY <2>1 DEF TypeOK
  <2> HIDE DEF j
  <2>5. job' \in [Node -> Job \cup {None}]
    BY <2>1, <2>3, <2>4 DEF TypeOK
  <2> QED
    BY <2>2, <2>3, <2>4, <2>5, JobFacts DEF JobsGoOn, JobGoesOn
<1>3. CASE JobRetired(n)
  BY <1>3 DEF JobRetired, TypeOK, JobsGoOn, JobGoesOn
<1> QED
  BY <1>1, <1>2, <1>3

\* What a command is bringing back, one by one.
LEMMA ItemFacts ==
  ASSUME NEW c \in Command
  PROVE  /\ c.items \in Seq([name : Artifact, size : Nat])
         /\ DOMAIN c.items = 1..Len(c.items) /\ Len(c.items) \in Nat
         /\ c.done \in Nat /\ c.data \in Nat
         /\ \A i \in DOMAIN c.items :
              c.items[i].name \in Artifact /\ c.items[i].size \in Nat
<1>1. c.items \in Seq([name : Artifact, size : Nat]) /\ c.done \in Nat /\ c.data \in Nat
  BY DEF Command
<1>2. DOMAIN c.items = 1..Len(c.items) /\ Len(c.items) \in Nat
  BY <1>1, LenProperties
<1>3. \A i \in DOMAIN c.items : c.items[i] \in [name : Artifact, size : Nat]
  BY <1>1, <1>2, ElementOfSeq
<1> QED
  BY <1>1, <1>2, <1>3

\* Where a command stands that knows its node, that node is one.
LEMMA ReachedFacts ==
  ASSUME TypeOK, cmd # None
  PROVE  /\ cmd \in Command
         /\ cmd.reached # None => NodeAt[cmd.reached] \in Node
  BY CommandAssumption DEF TypeOK, Command

LEMMA NodeKeeps ==
  ASSUME BenchInv, JobsGoOn, UNCHANGED <<out, cmd, given, result>>
  PROVE  BenchInv'
<1>1. TypeOK /\ CommandInv /\ FilesInv /\ ExitTellsTheTruth
  BY DEF BenchInv
<1>2. TypeOK'
  BY <1>1 DEF TypeOK, JobsGoOn
<1>3. ExitTellsTheTruth'
  BY <1>1 DEF ExitTellsTheTruth
<1>4. CASE cmd = None
  BY <1>2, <1>3, <1>4 DEF BenchInv, CommandInv, FilesInv, Bringing
<1>5. CASE cmd # None
  <2>1. cmd' = cmd /\ out' = out /\ cmd' # None
    BY <1>5
  <2>2. ASSUME cmd.reached # None, TheJob' # None
        PROVE  \/ TheJob' = TheJob
               \/ /\ TheJob # None /\ TheJob.outcome = None
                  /\ \A a \in Artifact : TheJob.files[a] # None =>
                       /\ TheJob'.files[a] # None /\ TheJob.files[a] <= TheJob'.files[a]
                       /\ TheJob.files[a] \in Nat /\ TheJob'.files[a] \in Nat
    <3>1. PICK n \in Node : n = NodeAt[cmd.reached]
      BY <1>1, <1>5, <2>2, ReachedFacts
    <3>2. TheJob = job[n] /\ TheJob' = job'[n]
      BY <2>1, <3>1 DEF TheJob
    <3>3. JobGoesOn(n)
      BY DEF JobsGoOn
    <3>4. CASE job'[n] = job[n]
      BY <3>2, <3>4
    <3>5. CASE job'[n] # job[n]
      <4>1. /\ job[n] # None /\ job'[n] \in Job /\ job[n].outcome = None
            /\ \A a \in Artifact : job[n].files[a] # None =>
                 job'[n].files[a] # None /\ job[n].files[a] <= job'[n].files[a]
        BY <2>2, <3>2, <3>3, <3>5 DEF JobGoesOn
      <4>2. \A a \in Artifact : job'[n].files[a] # None => job'[n].files[a] \in Nat
        BY <4>1, CommandAssumption DEF Job
      <4>3. \A a \in Artifact : job[n].files[a] # None => job[n].files[a] \in Nat
        BY <1>1, <4>1, JobFacts
      <4> QED
        BY <3>2, <4>1, <4>2, <4>3
    <3> QED
      BY <3>4, <3>5
  <2>3. CommandInv'
    <3>1. ASSUME cmd.verb = "run", cmd.at \in {"list", "chunk", "write"}, TheJob' # None
          PROVE  TheJob'.outcome = cmd.outcome
      BY <1>1, <1>5, <2>2, <3>1 DEF CommandInv
    <3> QED
      BY <1>1, <1>5, <2>1, <3>1 DEF CommandInv
  <2>4. ASSUME Bringing, TheJob' # None
        PROVE  TheJob # None /\ (cmd.verb = "run" => TheJob' = TheJob)
    <3>1. cmd.reached # None
      BY <1>1, <2>4 DEF CommandInv, Bringing
    <3>2. TheJob # None
      BY <2>2, <2>4, <3>1
    <3>3. ASSUME cmd.verb = "run" PROVE TheJob.outcome # None
      BY <1>1, <2>4, <3>2, <3>3 DEF CommandInv, Bringing
    <3> QED
      BY <2>2, <2>4, <3>1, <3>2, <3>3
  <2>5. FilesInv'
    <3> SUFFICES ASSUME Bringing PROVE FilesInv'
      BY <2>1 DEF FilesInv, Bringing
    <3>1. /\ \A i, k \in DOMAIN cmd.items : cmd.items[i].name = cmd.items[k].name => i = k
          /\ cmd.done <= Len(cmd.items)
          /\ \A i \in 1..cmd.done : out[cmd.items[i].name] = Whole(cmd.items[i].size)
          /\ cmd.at = "write" => cmd.done < Len(cmd.items) /\ cmd.data = Item.size
      BY <1>1 DEF FilesInv
    <3>2. ASSUME TheJob' # None, NEW i \in DOMAIN cmd.items
          PROVE  /\ TheJob'.files[cmd.items[i].name] # None
                 /\ cmd.items[i].size <= TheJob'.files[cmd.items[i].name]
      <4>1. cmd.items[i].name \in Artifact /\ cmd.items[i].size \in Nat
        BY <1>1, <1>5, ReachedFacts, ItemFacts
      <4>2. /\ TheJob.files[cmd.items[i].name] # None
            /\ cmd.items[i].size <= TheJob.files[cmd.items[i].name]
        BY <1>1, <2>4, <3>2 DEF FilesInv
      <4>3. cmd.reached # None
        BY <1>1 DEF CommandInv, Bringing
      <4>4. CASE TheJob' = TheJob
        BY <4>2, <4>4
      <4>5. CASE TheJob' # TheJob
        BY <2>2, <3>2, <4>1, <4>2, <4>3, <4>5
      <4> QED
        BY <4>4, <4>5
    <3>3. ASSUME TheJob' # None, cmd.verb = "run"
          PROVE  \A a \in Manifest(TheJob)' : \E i \in DOMAIN cmd.items :
                   cmd.items[i].name = a /\ cmd.items[i].size = TheJob'.files[a]
      BY <1>1, <2>4, <3>3 DEF FilesInv, Manifest
    <3> QED
      BY <2>1, <3>1, <3>2, <3>3 DEF FilesInv, Item
  <2> QED
    BY <1>2, <1>3, <2>3, <2>5 DEF BenchInv
<1> QED
  BY <1>4, <1>5

-----------------------------------------------------------------------------
(* How a command ends *)

\* What each of the three telling codes may be said on.
Honest(code) ==
  /\ code = "ok" /\ cmd.verb \in {"run", "fetch"} => Unfetched = {}
  /\ cmd.verb = "run" =>
       /\ code = "ok" => cmd.outcome = "passed" /\ Unlisted = {}
       /\ code = "job_failed" => cmd.outcome = "failed"
       /\ code = "job_cancelled" => cmd.outcome = "cancelled"

LEMMA EndKeeps ==
  ASSUME BenchInv, cmd # None, NEW code \in Code, Honest(code), EndsWith(code),
         given' = given,
         job' \in [Node -> Job \cup {None}], out' \in [Artifact -> OnDisk]
  PROVE  BenchInv'
<1> DEFINE r == [verb |-> cmd.verb, exit |-> ExitOf[code], outcome |-> cmd.outcome,
                 unfetched |-> Unfetched, unlisted |-> Unlisted]
<1>1. cmd \in Command
  BY ReachedFacts DEF BenchInv
<1>2. cmd' = None /\ result' = r
  BY DEF EndsWith
<1>3. ExitOf[code] \in 0..8
  BY DEF ExitOf, Code
<1>4. Unfetched \subseteq Artifact
  BY <1>1, ItemFacts DEF Unfetched
<1>5. Unlisted \subseteq Artifact
  BY DEF Unlisted, Manifest
<1>6. r \in [verb : Verb, exit : 0..8, outcome : Outcome \cup {None},
             unfetched : SUBSET Artifact, unlisted : SUBSET Artifact]
  BY <1>1, <1>3, <1>4, <1>5 DEF Command
<1>7. TypeOK'
  BY <1>2, <1>6 DEF BenchInv, TypeOK
<1>8. /\ r.exit = ExitOf[code] /\ r.verb = cmd.verb /\ r.outcome = cmd.outcome
      /\ r.unfetched = Unfetched /\ r.unlisted = Unlisted
  OBVIOUS
<1>9. ExitTellsTheTruth'
  <2>1. CASE code \in {"ok", "job_failed", "job_cancelled"}
    BY <1>2, <1>8, <2>1, ExitCodes DEF ExitTellsTheTruth, Honest
  <2>2. CASE code \notin {"ok", "job_failed", "job_cancelled"}
    BY <1>2, <1>8, <2>2, ExitCodes DEF ExitTellsTheTruth
  <2> QED
    BY <2>1, <2>2
<1> QED
  BY <1>2, <1>7, <1>9 DEF BenchInv, CommandInv, FilesInv, Bringing

\* Every other code is honest whatever happened.
LEMMA OtherwiseHonest ==
  \A code \in Code \ {"ok", "job_failed", "job_cancelled"} : Honest(code)
  BY DEF Honest

LEMMA FailureKeeps ==
  ASSUME BenchInv, cmd # None,
         NEW code \in {"unreachable", "not_paired", "unsupported_version",
                       "not_granted", "refused", "stream_lost", "io"},
         EndsWith(code), given' = given,
         job' \in [Node -> Job \cup {None}], out' \in [Artifact -> OnDisk]
  PROVE  BenchInv'
  BY OtherExits, OtherwiseHonest, EndKeeps

-----------------------------------------------------------------------------
(* The command asks *)

\* What a node does for a request leaves jobs; only to submit and to cancel
\* changes one.
LEMMA ServesFacts ==
  ASSUME TypeOK, NEW n \in Node, NEW request, Serves(n, request)
  PROVE  /\ job' \in [Node -> Job \cup {None}]
         /\ request \notin {"submit", "cancel"} => job' = job
<1>1. CASE request = "submit"
  <2>1. NewJob \in Job
    BY DEF NewJob, Job
  <2>2. job' = [job EXCEPT ![n] = IF @ = None THEN NewJob ELSE @]
    BY <1>1 DEF Serves
  <2> QED
    BY <1>1, <2>1, <2>2 DEF TypeOK
<1>2. CASE request = "cancel"
  <2>1. /\ job[n] # None
        /\ job' = [job EXCEPT ![n].outcome = IF @ = None THEN "cancelled" ELSE @]
    BY <1>2 DEF Serves
  <2> DEFINE o == IF job[n].outcome = None THEN "cancelled" ELSE job[n].outcome
             j == [job[n] EXCEPT !.outcome = o]
  <2>2. o \in Outcome \cup {None}
    BY <2>1, JobFacts DEF Outcome
  <2>3. job'[n] = j /\ \A m \in Node : m # n => job'[m] = job[m]
    BY <2>1 DEF TypeOK
  <2> HIDE DEF o
  <2>4. j \in Job
    BY <2>1, <2>2, JobFacts DEF Job
  <2>5. DOMAIN job' = Node /\ job' = [m \in Node |-> job'[m]]
    BY <2>1 DEF TypeOK
  <2> HIDE DEF j
  <2> QED
    BY <1>2, <2>3, <2>4, <2>5 DEF TypeOK
<1>3. CASE request \notin {"submit", "cancel"}
  BY <1>3 DEF Serves, TypeOK
<1> QED
  BY <1>1, <1>2, <1>3

LEMMA TodoFacts ==
  ASSUME TypeOK, cmd # None, cmd.todo # <<>>
  PROVE  /\ Head(cmd.todo) \in Address
         /\ NodeAt[Head(cmd.todo)] \in Node
         /\ Tail(cmd.todo) \in Seq(Address)
<1>1. cmd.todo \in Seq(Address)
  BY ReachedFacts DEF Command
<1>2. Head(cmd.todo) \in Address /\ Tail(cmd.todo) \in Seq(Address)
  BY <1>1, HeadTailProperties
<1> QED
  BY <1>2, CommandAssumption

LEMMA GiveKeeps == BenchInv /\ Give => BenchInv'
<1> SUFFICES ASSUME BenchInv, Give PROVE BenchInv'
  OBVIOUS
<1>1. PICK verb \in Verb, addrs \in Resolved :
        cmd' = [verb |-> verb, at |-> IF verb = "fetch" THEN "list" ELSE "ask",
                todo |-> addrs, reached |-> None, outcome |-> None,
                items |-> <<>>, done |-> 0, data |-> 0]
  BY DEF Give
<1>2. addrs \in Seq(Address) /\ <<>> \in Seq([name : Artifact, size : Nat])
  BY CommandAssumption
<1> DEFINE at == IF verb = "fetch" THEN "list" ELSE "ask"
<1>3. at \in {"ask", "follow", "list", "chunk", "write"}
  OBVIOUS
<1> HIDE DEF at
<1>4. cmd' \in Command
  BY <1>1, <1>2, <1>3 DEF Command, at
<1>5. cmd' \in Command /\ cmd' # None
  BY <1>4, CommandNoneIsFresh
<1>6. given' \in 0..MaxCommands
  BY CommandAssumption DEF Give, BenchInv, TypeOK
<1>7. TypeOK'
  BY <1>5, <1>6 DEF Give, BenchInv, TypeOK
<1>8. /\ cmd'.at \in {"ask", "list"} /\ (cmd'.at = "list" => cmd'.verb = "fetch")
      /\ (cmd'.at = "ask" => cmd'.verb # "fetch") /\ cmd'.done = 0
  BY <1>1
<1>9. CommandInv' /\ FilesInv'
  BY <1>8 DEF CommandInv, FilesInv, Bringing
<1> QED
  BY <1>7, <1>9 DEF BenchInv, Give, ExitTellsTheTruth

LEMMA TryFailsKeeps == BenchInv /\ TryFails => BenchInv'
<1> SUFFICES ASSUME BenchInv, TryFails PROVE BenchInv'
  OBVIOUS
<1>1. TypeOK /\ CommandInv /\ ExitTellsTheTruth
  BY DEF BenchInv
<1>2. cmd # None /\ cmd.at \in {"ask", "list"} /\ cmd.todo # <<>>
  BY DEF TryFails
<1>3. PICK e \in LinkError :
        /\ \/ UNCHANGED job
           \/ e = "unanswered" /\ Serves(NodeAt[Head(cmd.todo)], Request)
        /\ IF FromLink(e) = "unreachable" /\ Len(cmd.todo) > 1
             THEN /\ cmd' = [cmd EXCEPT !.todo = Tail(@)]
                  /\ UNCHANGED <<out, given, result>>
             ELSE Ends(FromLink(e))
  BY DEF TryFails
<1>4. job' \in [Node -> Job \cup {None}]
  BY <1>1, <1>2, <1>3, TodoFacts, ServesFacts DEF TypeOK
<1>5. CASE FromLink(e) = "unreachable" /\ Len(cmd.todo) > 1
  <2>1. cmd' = [cmd EXCEPT !.todo = Tail(cmd.todo)] /\ UNCHANGED <<out, given, result>>
    BY <1>3, <1>5
  <2>2. cmd \in Command /\ Tail(cmd.todo) \in Seq(Address)
    BY <1>1, <1>2, ReachedFacts, TodoFacts
  <2>3. cmd' \in Command /\ cmd' # None
    BY <2>1, <2>2, CommandNoneIsFresh DEF Command
  <2>4. cmd'.verb = cmd.verb /\ cmd'.at = cmd.at /\ cmd'.done = cmd.done
    BY <2>1, <2>2 DEF Command
  <2>5. ~(cmd.at = "list" /\ cmd.verb = "run")
    <3>1. ASSUME cmd.at = "list", cmd.verb = "run" PROVE cmd.todo = <<cmd.reached>>
      BY <1>1, <1>2, <3>1 DEF CommandInv
    <3>2. PICK a : a = cmd.reached
      OBVIOUS
    <3>3. Len(<<a>>) = 1 /\ ~(Len(<<a>>) > 1)
      OBVIOUS
    <3> QED
      BY <1>5, <3>1, <3>2, <3>3
  <2>6. TypeOK'
    BY <1>1, <1>4, <2>1, <2>3 DEF TypeOK
  <2>7. CommandInv' /\ FilesInv'
    BY <1>1, <1>2, <2>3, <2>4, <2>5 DEF CommandInv, FilesInv, Bringing
  <2> QED
    BY <1>1, <2>1, <2>6, <2>7 DEF BenchInv, ExitTellsTheTruth
<1>6. CASE ~(FromLink(e) = "unreachable" /\ Len(cmd.todo) > 1)
  <2>1. Ends(FromLink(e))
    BY <1>3, <1>6
  <2>2. PICK code \in {"unreachable", "not_paired", "unsupported_version",
                       "not_granted", "refused", "stream_lost", "io"} : code = FromLink(e)
    BY LinkExits
  <2>3. EndsWith(code) /\ given' = given /\ out' = out
    BY <2>1, <2>2 DEF Ends
  <2> QED
    BY <1>1, <1>2, <1>4, <2>3, FailureKeeps DEF TypeOK
<1> QED
  BY <1>5, <1>6

LEMMA TryRefusedKeeps == BenchInv /\ TryRefused => BenchInv'
<1> SUFFICES ASSUME BenchInv, TryRefused PROVE BenchInv'
  OBVIOUS
<1>1. PICK r \in Refusal : Ends(Refused(r))
  BY DEF TryRefused
<1>2. PICK code \in {"unreachable", "not_paired", "unsupported_version",
                     "not_granted", "refused", "stream_lost", "io"} : code = Refused(r)
  BY DEF Refused
<1>3. EndsWith(code) /\ given' = given /\ out' = out
  BY <1>1, <1>2 DEF Ends
<1> QED
  BY <1>3, FailureKeeps DEF TryRefused, BenchInv, TypeOK

LEMMA NothingResolvesKeeps == BenchInv /\ NothingResolves => BenchInv'
<1> SUFFICES ASSUME BenchInv, NothingResolves PROVE BenchInv'
  OBVIOUS
<1>1. PICK code \in {"unreachable", "not_paired", "unsupported_version",
                     "not_granted", "refused", "stream_lost", "io"} : code = "unreachable"
  OBVIOUS
<1> QED
  BY <1>1, FailureKeeps DEF NothingResolves, Ends, BenchInv, TypeOK

LEMMA TryAnsweredKeeps == BenchInv /\ TryAnswered => BenchInv'
<1> SUFFICES ASSUME BenchInv, TryAnswered PROVE BenchInv'
  OBVIOUS
<1>1. TypeOK /\ CommandInv /\ ExitTellsTheTruth
  BY DEF BenchInv
<1>2. cmd # None /\ cmd.at = "ask" /\ cmd.todo # <<>> /\ cmd.verb # "fetch" /\ cmd.done = 0
  BY <1>1 DEF TryAnswered, CommandInv
<1>3. job' \in [Node -> Job \cup {None}]
  BY <1>1, <1>2, TodoFacts, ServesFacts DEF TryAnswered
<1>4. CASE cmd.verb \in {"attach", "run"}
  <2> DEFINE a == Head(cmd.todo)
  <2>1. /\ cmd' = [cmd EXCEPT !.at = "follow", !.reached = a, !.todo = <<a>>]
        /\ UNCHANGED <<out, given, result>>
    BY <1>4 DEF TryAnswered
  <2>2. a \in Address /\ cmd \in Command /\ a # None
    BY <1>1, <1>2, TodoFacts, ReachedFacts, CommandNoneIsFresh
  <2> HIDE DEF a
  <2>3. <<a>> \in Seq(Address)
    BY <2>2
  <2>4. cmd' \in Command /\ cmd' # None
    BY <2>1, <2>2, <2>3, CommandNoneIsFresh DEF Command
  <2>5. /\ cmd'.verb = cmd.verb /\ cmd'.at = "follow" /\ cmd'.done = cmd.done
        /\ cmd'.reached = a /\ cmd'.todo = <<a>>
    BY <2>1, <2>2 DEF Command
  <2>6. TypeOK'
    BY <1>1, <1>3, <2>1, <2>4 DEF TypeOK
  <2>7. CommandInv' /\ FilesInv'
    BY <1>2, <1>4, <2>2, <2>5 DEF CommandInv, FilesInv, Bringing
  <2> QED
    BY <1>1, <2>1, <2>6, <2>7 DEF BenchInv, ExitTellsTheTruth
<1>5. CASE cmd.verb \notin {"attach", "run"}
  <2>1. EndsWith("ok") /\ given' = given /\ out' = out
    BY <1>5 DEF TryAnswered, Ends
  <2>2. Honest("ok") /\ "ok" \in Code
    BY <1>2, <1>5 DEF Honest, Code, ExitOf
  <2> QED
    BY <1>1, <1>2, <1>3, <2>1, <2>2, EndKeeps DEF TypeOK
<1> QED
  BY <1>4, <1>5

-----------------------------------------------------------------------------
(* The command follows, lists and brings back *)

\* An outcome is told by its own code and no other.
LEMMA OutcomeCodes ==
  ASSUME NEW o \in Outcome
  PROVE  /\ FromOutcome(o) \in Code
         /\ FromOutcome(o) = "ok" => o = "passed"
         /\ FromOutcome(o) = "job_failed" => o = "failed"
         /\ FromOutcome(o) = "job_cancelled" => o = "cancelled"
  BY DEF FromOutcome, Outcome, Code, ExitOf

LEMMA FollowedKeeps == BenchInv /\ Followed => BenchInv'
<1> SUFFICES ASSUME BenchInv, Followed PROVE BenchInv'
  OBVIOUS
<1>1. TypeOK /\ CommandInv /\ ExitTellsTheTruth
  BY DEF BenchInv
<1>2. cmd # None /\ cmd.at = "follow" /\ job' = job
  BY DEF Followed
<1>3. /\ cmd.reached # None /\ cmd.verb \in {"attach", "run"}
      /\ cmd.done = 0 /\ cmd.todo = <<cmd.reached>>
  BY <1>1, <1>2 DEF CommandInv
<1>4. PICK n \in Node : n = NodeAt[cmd.reached]
  BY <1>1, <1>2, <1>3, ReachedFacts
<1>5. job[n] # None /\ job[n].outcome # None /\ TheJob = job[n]
  BY <1>4 DEF Followed, TheJob
<1>6. PICK o \in Outcome : o = job[n].outcome
  BY <1>1, <1>5, JobFacts
<1>7. CASE cmd.verb = "run"
  <2>1. cmd' = [cmd EXCEPT !.at = "list", !.outcome = o] /\ UNCHANGED <<out, given, result>>
    BY <1>4, <1>6, <1>7 DEF Followed
  <2>2. cmd \in Command
    BY <1>1, <1>2, ReachedFacts
  <2>3. cmd' \in Command
    BY <2>1, <2>2 DEF Command
  <2>4. cmd' # None /\ o # None
    BY <2>3, CommandNoneIsFresh
  <2>5. /\ cmd'.verb = "run" /\ cmd'.at = "list" /\ cmd'.done = 0 /\ cmd'.outcome = o
        /\ cmd'.reached = cmd.reached /\ cmd'.todo = cmd.todo
    BY <1>3, <1>7, <2>1, <2>2 DEF Command
  <2>6. TypeOK'
    BY <1>1, <1>2, <2>1, <2>3 DEF TypeOK
  <2>7. TheJob' = TheJob
    BY <1>2, <2>5 DEF TheJob
  <2>8. CommandInv'
    BY <1>3, <1>5, <1>6, <2>4, <2>5, <2>7 DEF CommandInv
  <2>9. FilesInv'
    BY <2>5 DEF FilesInv, Bringing
  <2> QED
    BY <1>1, <2>1, <2>6, <2>8, <2>9 DEF BenchInv, ExitTellsTheTruth
<1>8. CASE cmd.verb # "run"
  <2>1. EndsWith(FromOutcome(o)) /\ given' = given /\ out' = out
    BY <1>4, <1>6, <1>8 DEF Followed, Ends
  <2>2. Honest(FromOutcome(o))
    BY <1>3, <1>8 DEF Honest
  <2>3. PICK code \in Code : code = FromOutcome(o)
    BY OutcomeCodes
  <2> QED
    BY <1>1, <1>2, <2>1, <2>2, <2>3, EndKeeps DEF TypeOK
<1> QED
  BY <1>7, <1>8

LEMMA FollowFailsKeeps == BenchInv /\ FollowFails => BenchInv'
<1> SUFFICES ASSUME BenchInv, FollowFails PROVE BenchInv'
  OBVIOUS
<1>1. PICK code \in {"unreachable", "not_paired", "unsupported_version",
                     "not_granted", "refused", "stream_lost", "io"} : Ends(code)
  BY DEF FollowFails
<1> QED
  BY <1>1, FailureKeeps DEF FollowFails, Ends, BenchInv, TypeOK

LEMMA ListKeeps == BenchInv /\ List => BenchInv'
<1> SUFFICES ASSUME BenchInv, List PROVE BenchInv'
  OBVIOUS
<1>1. TypeOK /\ CommandInv /\ ExitTellsTheTruth
  BY DEF BenchInv
<1>2. /\ cmd # None /\ cmd.at = "list" /\ cmd.todo # <<>>
      /\ UNCHANGED <<job, out, given, result>>
  BY DEF List
<1> DEFINE a == Head(cmd.todo)
           n == NodeAt[a]
           size == Cardinality(Manifest(job[n]))
<1>3. PICK order \in Bijection(1..size, Manifest(job[n])) :
        cmd' = [cmd EXCEPT !.at = "chunk", !.reached = a, !.todo = <<a>>,
                  !.items = [i \in 1..size |->
                               [name |-> order[i], size |-> job[n].files[order[i]]]]]
  BY DEF List
<1>4. a \in Address /\ a # None
  BY <1>1, <1>2, TodoFacts, CommandNoneIsFresh
<1>5. n \in Node
  BY <1>4, CommandAssumption
<1>6. job[n] # None
  BY DEF List
<1>7. a = Head(cmd.todo) /\ n = NodeAt[a] /\ size = Cardinality(Manifest(job[n]))
  OBVIOUS
<1> HIDE DEF a, n, size
<1>8. Manifest(job[n]) \subseteq Artifact
  BY DEF Manifest
<1>9. size \in Nat
  BY <1>7, <1>8, CommandAssumption, FS_Subset, FS_CardinalityType
<1>10. /\ order \in [1..size -> Manifest(job[n])]
       /\ \A i, k \in 1..size : order[i] = order[k] => i = k
       /\ \A f \in Manifest(job[n]) : \E i \in 1..size : order[i] = f
  BY DEF Bijection, Injection, Surjection, IsInjective
<1> DEFINE items == [i \in 1..size |-> [name |-> order[i], size |-> job[n].files[order[i]]]]
<1>11. \A i \in 1..size : /\ order[i] \in Artifact /\ job[n].files[order[i]] # None
                          /\ job[n].files[order[i]] \in Nat
  BY <1>1, <1>5, <1>6, <1>8, <1>10, JobFacts DEF Manifest
<1>12. items \in [1..size -> [name : Artifact, size : Nat]]
  BY <1>11
<1>13. items \in Seq([name : Artifact, size : Nat]) /\ Len(items) = size /\ DOMAIN items = 1..size
  BY <1>9, <1>12
<1>14. \A i \in 1..size : items[i].name = order[i] /\ items[i].size = job[n].files[order[i]]
  OBVIOUS
<1>15. cmd' = [cmd EXCEPT !.at = "chunk", !.reached = a, !.todo = <<a>>, !.items = items]
  BY <1>3
<1> HIDE DEF items
<1>16. cmd \in Command /\ <<a>> \in Seq(Address) /\ cmd.done = 0
  BY <1>1, <1>2, <1>4, ReachedFacts DEF CommandInv
<1>17. cmd' \in Command
  BY <1>4, <1>13, <1>15, <1>16 DEF Command
<1>18. cmd' # None
  BY <1>17, CommandNoneIsFresh
<1>19. /\ cmd'.verb = cmd.verb /\ cmd'.at = "chunk" /\ cmd'.reached = a /\ cmd'.items = items
       /\ cmd'.done = 0 /\ cmd'.outcome = cmd.outcome
  BY <1>15, <1>16 DEF Command
<1>20. TypeOK'
  BY <1>1, <1>2, <1>17 DEF TypeOK
<1>21. TheJob' = job[n]
  BY <1>2, <1>7, <1>19 DEF TheJob
<1>22. ASSUME cmd.verb = "run"
       PROVE  cmd.outcome # None /\ job[n].outcome = cmd.outcome
  <2>1. cmd.reached # None /\ cmd.outcome # None /\ cmd.todo = <<cmd.reached>>
    BY <1>1, <1>2, <1>22 DEF CommandInv
  <2>2. PICK b : b = cmd.reached
    OBVIOUS
  <2>3. Head(<<b>>) = b
    OBVIOUS
  <2>4. a = cmd.reached
    BY <1>7, <2>1, <2>2, <2>3
  <2>5. TheJob = job[n]
    BY <1>7, <2>4 DEF TheJob
  <2> QED
    BY <1>1, <1>2, <1>6, <1>22, <2>1, <2>5 DEF CommandInv
<1>23. CommandInv'
  BY <1>4, <1>19, <1>21, <1>22 DEF CommandInv
<1>24. FilesInv'
  <2>1. \A i, k \in DOMAIN items : items[i].name = items[k].name => i = k
    BY <1>10, <1>13, <1>14
  <2>2. \A i \in DOMAIN items : /\ job[n].files[items[i].name] # None
                                /\ items[i].size <= job[n].files[items[i].name]
    BY <1>11, <1>13, <1>14
  <2>3. \A f \in Manifest(job[n]) : \E i \in DOMAIN items :
          items[i].name = f /\ items[i].size = job[n].files[f]
    BY <1>10, <1>13, <1>14
  <2>4. 0 <= Len(items) /\ 1..0 = {}
    BY <1>9, <1>13
  <2>5. Manifest(TheJob)' = Manifest(job[n])
    BY <1>21 DEF Manifest
  <2> QED
    BY <1>19, <1>21, <2>1, <2>2, <2>3, <2>4, <2>5 DEF FilesInv
<1> QED
  BY <1>1, <1>2, <1>20, <1>23, <1>24 DEF BenchInv, ExitTellsTheTruth

LEMMA GetChunkKeeps == BenchInv /\ GetChunk => BenchInv'
<1> SUFFICES ASSUME BenchInv, GetChunk PROVE BenchInv'
  OBVIOUS
<1>1. TypeOK /\ CommandInv /\ FilesInv /\ ExitTellsTheTruth
  BY DEF BenchInv
<1>2. cmd # None /\ cmd.at = "chunk" /\ cmd.done < Len(cmd.items) /\ TheJob # None /\ job' = job
  BY DEF GetChunk, At, More
<1>3. cmd \in Command /\ cmd.reached # None
  BY <1>1, <1>2, ReachedFacts DEF CommandInv
<1>4. PICK next \in DOMAIN cmd.items : next = cmd.done + 1
  BY <1>2, <1>3, ItemFacts
<1>5. PICK item \in [name : Artifact, size : Nat] : item = cmd.items[next]
  BY <1>3, ItemFacts, ElementOfSeq
<1>6. Item = item
  BY <1>4, <1>5 DEF Item
<1>7. PICK total : total = TheJob.files[item.name]
  OBVIOUS
<1>8. total \in Nat /\ item.size <= total
  <2>1. total # None /\ item.size <= total
    BY <1>1, <1>2, <1>5, <1>7 DEF FilesInv, Bringing
  <2>2. PICK n \in Node : n = NodeAt[cmd.reached]
    BY <1>1, <1>2, <1>3, ReachedFacts
  <2>3. TheJob = job[n]
    BY <2>2 DEF TheJob
  <2> QED
    BY <1>1, <1>2, <1>7, <2>1, <2>3, JobFacts
<1>9. PICK upto \in Nat : upto = Upto(total, cmd.data)
  BY <1>3, <1>8, ItemFacts, CommandAssumption DEF Upto
<1>10. CASE upto > item.size /\ Ends("io")
  <2>1. PICK code \in {"unreachable", "not_paired", "unsupported_version",
                       "not_granted", "refused", "stream_lost", "io"} : code = "io"
    OBVIOUS
  <2> QED
    BY <1>1, <1>2, <1>10, <2>1, FailureKeeps DEF Ends, TypeOK
<1>11. CASE ~(upto > item.size /\ Ends("io"))
  <2> DEFINE at == IF upto = total THEN "write" ELSE "chunk"
  <2>1. /\ upto <= item.size
        /\ cmd' = [cmd EXCEPT !.data = upto, !.at = IF upto = total THEN "write" ELSE cmd.at]
        /\ UNCHANGED <<out, given, result>>
    BY <1>6, <1>7, <1>9, <1>11 DEF GetChunk
  <2>2. cmd' = [cmd EXCEPT !.data = upto, !.at = at]
    BY <1>2, <2>1
  <2>3. at \in {"chunk", "write"} /\ (at = "write" => upto = item.size)
    BY <1>8, <2>1
  <2> HIDE DEF at
  <2>4. cmd' \in Command
    BY <1>3, <2>2, <2>3 DEF Command
  <2>5. cmd' # None
    BY <2>4, CommandNoneIsFresh
  <2>6. /\ cmd'.verb = cmd.verb /\ cmd'.at = at /\ cmd'.reached = cmd.reached
        /\ cmd'.items = cmd.items /\ cmd'.done = cmd.done /\ cmd'.data = upto
        /\ cmd'.outcome = cmd.outcome
    BY <1>3, <2>2 DEF Command
  <2>7. TypeOK'
    BY <1>1, <1>2, <2>1, <2>4 DEF TypeOK
  <2>8. TheJob' = TheJob /\ Item' = item
    BY <1>2, <1>6, <2>6 DEF TheJob, Item
  <2>9. CommandInv'
    BY <1>1, <1>2, <2>3, <2>6, <2>8 DEF CommandInv
  <2>10. FilesInv'
    BY <1>1, <1>2, <2>1, <2>3, <2>6, <2>8 DEF FilesInv, Bringing, Manifest
  <2> QED
    BY <1>1, <2>1, <2>7, <2>9, <2>10 DEF BenchInv, ExitTellsTheTruth
<1> QED
  BY <1>10, <1>11

LEMMA ChunkFailsKeeps == BenchInv /\ ChunkFails => BenchInv'
<1> SUFFICES ASSUME BenchInv, ChunkFails PROVE BenchInv'
  OBVIOUS
<1>1. PICK code \in {"unreachable", "not_paired", "unsupported_version",
                     "not_granted", "refused", "stream_lost", "io"} : Ends(code)
  BY LinkExits DEF ChunkFails
<1> QED
  BY <1>1, FailureKeeps DEF ChunkFails, At, Ends, BenchInv, TypeOK

LEMMA WriteFileKeeps == BenchInv /\ WriteFile => BenchInv'
<1> SUFFICES ASSUME BenchInv, WriteFile PROVE BenchInv'
  OBVIOUS
<1>1. TypeOK /\ CommandInv /\ FilesInv /\ ExitTellsTheTruth
  BY DEF BenchInv
<1>2. cmd # None /\ cmd.at = "write" /\ job' = job /\ given' = given /\ result' = result
  BY DEF WriteFile, At
<1>3. cmd \in Command /\ cmd.reached # None
  BY <1>1, <1>2, ReachedFacts DEF CommandInv
<1>4. cmd.done < Len(cmd.items) /\ cmd.data = Item.size
  BY <1>1, <1>2 DEF FilesInv, Bringing
<1>5. PICK next \in DOMAIN cmd.items : next = cmd.done + 1
  BY <1>3, <1>4, ItemFacts
<1>6. PICK item \in [name : Artifact, size : Nat] : item = cmd.items[next]
  BY <1>3, ItemFacts, ElementOfSeq
<1>7. Item = item
  BY <1>5, <1>6 DEF Item
<1>8. /\ out' = [out EXCEPT ![item.name] = Whole(item.size)]
      /\ cmd' = [cmd EXCEPT !.at = "chunk", !.done = next, !.data = 0]
  BY <1>4, <1>5, <1>7 DEF WriteFile
<1>9. Whole(item.size) \in OnDisk
  BY DEF Whole, OnDisk
<1>10. next \in Nat /\ next <= Len(cmd.items) /\ Len(cmd.items) \in Nat /\ cmd.done \in Nat
  BY <1>3, <1>4, <1>5, ItemFacts
<1>11. cmd' \in Command
  BY <1>3, <1>8, <1>10 DEF Command
<1>12. cmd' # None
  BY <1>11, CommandNoneIsFresh
<1>13. /\ cmd'.verb = cmd.verb /\ cmd'.at = "chunk" /\ cmd'.reached = cmd.reached
       /\ cmd'.items = cmd.items /\ cmd'.done = next /\ cmd'.outcome = cmd.outcome
  BY <1>3, <1>8 DEF Command
<1>14. TypeOK'
  BY <1>1, <1>2, <1>8, <1>9, <1>11 DEF TypeOK
<1>15. TheJob' = TheJob
  BY <1>2, <1>13 DEF TheJob
<1>16. CommandInv'
  BY <1>1, <1>2, <1>13, <1>15 DEF CommandInv
<1>17. ASSUME NEW i \in 1..next
       PROVE  out'[cmd.items[i].name] = Whole(cmd.items[i].size)
  <2>1. i \in DOMAIN cmd.items
    BY <1>3, <1>10, ItemFacts
  <2>2. CASE i = next
    BY <1>1, <1>6, <1>8, <2>2 DEF TypeOK
  <2>3. CASE i # next
    <3>1. cmd.items[i].name # item.name /\ cmd.items[i].name \in Artifact
      BY <1>1, <1>2, <1>3, <1>6, <2>1, <2>3, ItemFacts DEF FilesInv, Bringing
    <3>2. i \in 1..cmd.done
      BY <1>5, <1>10, <2>3
    <3>3. out[cmd.items[i].name] = Whole(cmd.items[i].size)
      BY <1>1, <1>2, <3>2 DEF FilesInv, Bringing
    <3> QED
      BY <1>1, <1>8, <3>1, <3>3 DEF TypeOK
  <2> QED
    BY <2>2, <2>3
<1>18. FilesInv'
  <2>1. /\ \A i, k \in DOMAIN cmd.items : cmd.items[i].name = cmd.items[k].name => i = k
        /\ TheJob # None => \A i \in DOMAIN cmd.items :
             /\ TheJob.files[cmd.items[i].name] # None
             /\ cmd.items[i].size <= TheJob.files[cmd.items[i].name]
        /\ TheJob # None /\ cmd.verb = "run" => \A a \in Manifest(TheJob) :
             \E i \in DOMAIN cmd.items :
               cmd.items[i].name = a /\ cmd.items[i].size = TheJob.files[a]
    BY <1>1, <1>2 DEF FilesInv, Bringing
  <2> QED
    BY <1>10, <1>13, <1>15, <1>17, <2>1 DEF FilesInv, Manifest, Whole
<1> QED
  BY <1>1, <1>2, <1>14, <1>16, <1>18 DEF BenchInv, ExitTellsTheTruth

LEMMA WriteFailsKeeps == BenchInv /\ WriteFails => BenchInv'
<1> SUFFICES ASSUME BenchInv, WriteFails PROVE BenchInv'
  OBVIOUS
<1>1. PICK code \in {"unreachable", "not_paired", "unsupported_version",
                     "not_granted", "refused", "stream_lost", "io"} : code = "io"
  OBVIOUS
<1>2. [state |-> "partial", size |-> 0] \in OnDisk
  BY DEF OnDisk
<1>3. out' \in [Artifact -> OnDisk]
  BY <1>2 DEF WriteFails, BenchInv, TypeOK
<1> QED
  BY <1>1, <1>3, FailureKeeps DEF WriteFails, At, BenchInv, TypeOK

LEMMA FinishKeeps == BenchInv /\ Finish => BenchInv'
<1> SUFFICES ASSUME BenchInv, Finish PROVE BenchInv'
  OBVIOUS
<1>1. TypeOK /\ CommandInv /\ FilesInv
  BY DEF BenchInv
<1>2. /\ cmd # None /\ cmd.at = "chunk" /\ ~(cmd.done < Len(cmd.items))
      /\ job' = job /\ out' = out /\ given' = given
  BY DEF Finish, At, More, Ends
<1>3. cmd \in Command /\ cmd.reached # None
  BY <1>1, <1>2, ReachedFacts DEF CommandInv
<1>4. \A i \in DOMAIN cmd.items : out[cmd.items[i].name] = Whole(cmd.items[i].size)
  <2>1. DOMAIN cmd.items = 1..cmd.done
    BY <1>1, <1>2, <1>3, ItemFacts DEF FilesInv, Bringing
  <2> QED
    BY <1>1, <1>2, <2>1 DEF FilesInv, Bringing
<1>5. Unfetched = {}
  BY <1>4 DEF Unfetched
<1>6. cmd.verb = "run" => Unlisted = {}
  BY <1>1, <1>2, <1>4 DEF Unlisted, TheJob, FilesInv, Bringing
<1>7. PICK code : code = IF cmd.verb = "run" THEN FromOutcome(cmd.outcome) ELSE "ok"
  OBVIOUS
<1>8. code \in Code /\ Honest(code)
  <2>1. CASE cmd.verb = "run"
    <3>1. PICK o \in Outcome : o = cmd.outcome
      BY <1>1, <1>2, <1>3, <2>1 DEF CommandInv, Command
    <3> QED
      BY <1>5, <1>6, <1>7, <2>1, <3>1, OutcomeCodes DEF Honest
  <2>2. CASE cmd.verb # "run"
    BY <1>5, <1>7, <2>2 DEF Honest, Code, ExitOf
  <2> QED
    BY <2>1, <2>2
<1>9. EndsWith(code)
  BY <1>7 DEF Finish, Ends
<1> QED
  BY <1>1, <1>2, <1>8, <1>9, EndKeeps DEF TypeOK

-----------------------------------------------------------------------------
(* Theorems *)

LEMMA BenchInvNext == BenchInv /\ [Next]_vars => BenchInv'
<1> SUFFICES ASSUME BenchInv, [Next]_vars PROVE BenchInv'
  OBVIOUS
<1>1. ASSUME NEW n \in Node, JobWrites(n) \/ JobEnds(n) \/ JobRetired(n)
      PROVE  BenchInv'
  <2>1. UNCHANGED <<out, cmd, given, result>>
    BY <1>1 DEF JobWrites, JobEnds, JobRetired
  <2> QED
    BY <1>1, <2>1, NodeSteps, NodeKeeps DEF BenchInv
<1>2. CASE UNCHANGED vars
  BY <1>2 DEF vars, BenchInv, TypeOK, CommandInv, FilesInv, Bringing, TheJob, Item,
              Manifest, ExitTellsTheTruth
<1> QED
  BY <1>1, <1>2, GiveKeeps, NothingResolvesKeeps, TryFailsKeeps, TryRefusedKeeps,
     TryAnsweredKeeps, FollowedKeeps, FollowFailsKeeps, ListKeeps, GetChunkKeeps,
     ChunkFailsKeeps, WriteFileKeeps, WriteFailsKeeps, FinishKeeps DEF Next

LEMMA BenchInvHolds == Spec => []BenchInv
<1> QED
  BY BenchInvInit, BenchInvNext, PTL DEF Spec

\* Jobs, files, commands and their ends are what their types say, whatever goes
\* wrong on the channel or on the disk (crates/atlasctl/src/commands/bench).
THEOREM CommandsAreTyped == Spec => []TypeOK
<1>1. BenchInv => TypeOK
  BY DEF BenchInv
<1> QED
  BY <1>1, BenchInvHolds, PTL

\* The exit code tells a script the truth (exit.rs): of `run`, 0 means passed
\* and every file on disk as the node has it, 5 failed and 6 cancelled; of
\* `fetch`, 0 means that every file of the manifest is on disk as listed.
THEOREM ExitsTellTheTruth == Spec => []ExitTellsTheTruth
<1>1. BenchInv => ExitTellsTheTruth
  BY DEF BenchInv
<1> QED
  BY <1>1, BenchInvHolds, PTL

\* No command, and no sequence of commands into one directory, changes a file
\* that is there (fetch.rs, create_new).
THEOREM FetchesOverwriteNothing == Spec => EvidenceIsKept
<1> DEFINE Kept == \A a \in Artifact : out[a] # Absent => out'[a] = out[a]
<1>1. TypeOK /\ Next => Kept
  <2> SUFFICES ASSUME TypeOK, Next PROVE Kept
    OBVIOUS
  <2>1. CASE out' = out
    BY <2>1
  <2>2. CASE WriteFile
    BY <2>2 DEF WriteFile, TypeOK
  <2>3. CASE WriteFails
    BY <2>3 DEF WriteFails, TypeOK
  <2> QED
    BY <2>1, <2>2, <2>3 DEF Next, JobWrites, JobEnds, JobRetired, Give, NothingResolves,
       TryFails, TryRefused, TryAnswered, Followed, FollowFails, List, GetChunk,
       ChunkFails, Finish, Ends
<1>2. TypeOK /\ [Next]_vars => [Kept]_vars
  BY <1>1 DEF vars
<1> QED
  BY <1>2, CommandsAreTyped, PTL DEF Spec, EvidenceIsKept

-----------------------------------------------------------------------------
(* The box: BenchBox *)

\* Types, but for the order builds are kept in.
BoxTypes ==
  /\ agent \in [n : Nat, up : BOOLEAN, how : Started]
  /\ worker \in [at : Box!Stage, job : Box!Job \cup {None}]
  /\ queue \in Seq(Box!JobRecord) /\ Len(queue) <= MaxJobs
  /\ repo \in [local : SUBSET Commit, origin : SUBSET Commit, tracked : SUBSET Commit]
  /\ tree \in [Commit -> Commit \cup {None}]
  /\ cargo \subseteq [by : Box!Job, from : Commit] /\ lock \in Box!Job \cup {None}
  /\ target \in Commit \cup {None}
  /\ cache \in [Commit -> [bin : Box!Binary, sha : Commit \cup {None}, hash : Box!Binary]]
  /\ proc \subseteq Box!Process /\ judged \subseteq Box!Process
  /\ lease = None \/ lease \in [server : Box!Process, owner : Nat]
  /\ file \in [Commit -> [Name -> Box!Job \cup {None}]]
  /\ spent \subseteq Faults

\* Stages before a gate, and all those with a job in hand.
Preparing == {"commit", "fetch", "published", "tree", "cache", "build", "cargo", "copy",
              "copying", "provenance", "check", "snapshot", "spawn"}
InHand == Preparing \cup {"save", "resume", "wait", "collect"}

Open(j) == queue[j].state \in {"begun", "running"}

\* One job is begun and not done: the one in hand, or the one an agent left.
OneInHand ==
  /\ agent.up <=> worker.at # "down"
  /\ worker.at \notin InHand => worker.job = None
  /\ worker.at \in InHand => worker.job \in 1..Len(queue)
  /\ worker.at \in Preparing \cup {"save"} => queue[worker.job].state = "begun"
  /\ worker.at \in {"resume", "wait", "collect"} => queue[worker.job].state = "running"
  /\ \A j \in 1..Len(queue) : Open(j) =>
       worker.at \in {"down", "recover"} \/ worker.job = j
  /\ \A i, j \in 1..Len(queue) : Open(i) /\ Open(j) => i = j

\* The gate is of the job that is not done, if there is one; what else was
\* there when the box was judged is the server of the agent that judged it.
OneGate ==
  /\ worker.at \in Preparing => \A p \in proc : p.kind # "gate"
  /\ worker.at \in Preparing =>
       \A p \in judged : p.kind = "server" /\ p.owner = agent.n
  /\ \A g \in proc : g.kind = "gate" =>
       /\ \A j \in 1..Len(queue) : Open(j) => g.job = j
       /\ \A h \in proc : h.kind = "gate" => g = h
       /\ g.owner \in Nat /\ g.owner <= agent.n
       /\ lease # None => lease.owner <= g.owner
       /\ agent.up /\ g.owner = agent.n => worker.at \in {"save", "wait"}
       /\ g.job \in 1..Len(queue)
       /\ g.bin \in Commit
       /\ \A p \in judged : p.kind = "server" /\ p.owner = g.owner
  /\ lease # None => /\ lease.server.kind = "server"
                     /\ lease.server.owner = lease.owner
                     /\ lease.owner <= agent.n

\* Jobs past their snapshot, past their spawn and past the question whether
\* their commit is published, that are not done.
Snapped(j) ==
  queue[j].state = "running" \/ (worker.job = j /\ worker.at \in {"spawn", "save"})
Spawned(j) == queue[j].state = "running" \/ (worker.job = j /\ worker.at = "save")
PastTheCheck(j) ==
  \/ queue[j].state = "running"
  \/ worker.job = j /\ worker.at \in InHand \ {"commit", "fetch", "published"}

\* What a job will hand back: from its snapshot on its record directory holds
\* only what was there, and its own.
RecordsAreItsOwn ==
  /\ repo.tracked \subseteq repo.origin
  /\ \A j \in 1..Len(queue) :
       /\ Snapped(j) =>
            \A m \in Name : file[queue[j].of][m] \in {None, queue[j].before[m], j}
       /\ Spawned(j) => queue[j].ran = queue[j].of
       /\ PastTheCheck(j) => AllowUnpublished \/ queue[j].of \in repo.origin
  /\ Box!ResultIsOfTheCommit

\* What is compiled, copied, cached and started is the commit's own.  A build
\* an agent left behind holds cargo's lock, and there is one.
BuildsAreOfTheCommit ==
  /\ \A b \in cargo :
       /\ b.by \in 1..Len(queue) /\ queue[b.by].state \in {"begun", "done"}
       /\ b.from = queue[b.by].of
       /\ b.by = worker.job => worker.at = "cargo"
       /\ b.by # worker.job => lock = b.by
  /\ lock # None => \E b \in cargo : b.by = lock
  /\ cargo # {} => lock # None
  /\ "stop" \notin spent => /\ worker.at \notin {"down", "recover", "resume"}
                            /\ \A b \in cargo : b.by = worker.job
  /\ \A c \in Commit : cache[c].sha = c => cache[c].hash = c
  /\ worker.at \in InHand =>
       LET c == queue[worker.job].of IN
       /\ worker.at \in {"cache", "build", "cargo"} => tree[c] = c
       /\ worker.at \in {"copy", "copying"} => cargo = {} /\ target = c
       /\ worker.at \in {"provenance", "check", "snapshot", "spawn"} => cache[c].bin = c

BoxInv == BoxTypes /\ OneInHand /\ OneGate /\ RecordsAreItsOwn /\ BuildsAreOfTheCommit

-----------------------------------------------------------------------------
(* What a step of the worker does to the jobs *)

LEMMA RecordSet ==
  ASSUME NEW R, NEW s \in Seq(R), NEW j \in 1..Len(s), NEW r \in R, NEW t,
         t = [s EXCEPT ![j] = r]
  PROVE  /\ t \in Seq(R) /\ Len(t) = Len(s) /\ t[j] = r
         /\ \A i \in 1..Len(s) : i # j => t[i] = s[i]
  OBVIOUS

\* The worker goes on, and the jobs are as they were.
LEMMA HandGoesOn ==
  ASSUME BoxTypes, NEW s \in Box!Stage, Box!Goto(s)
  PROVE  /\ worker'.at = s /\ worker'.job = worker.job
         /\ worker' \in [at : Box!Stage, job : Box!Job \cup {None}]
  BY DEF BoxTypes, Box!Goto

JobIsNow(j, r) ==
  /\ queue' \in Seq(Box!JobRecord) /\ Len(queue') = Len(queue) /\ queue'[j] = r
  /\ \A i \in 1..Len(queue) : i # j => queue'[i] = queue[i]

LEMMA FinishEnds ==
  ASSUME BoxTypes, worker.job \in 1..Len(queue), Box!Finish
  PROVE  /\ queue' \in Seq(Box!JobRecord) /\ Len(queue') = Len(queue)
         /\ \A i \in 1..Len(queue) :
              /\ i # worker.job => queue'[i] = queue[i]
              /\ queue'[i].of = queue[i].of /\ queue'[i].before = queue[i].before
              /\ queue'[i].ran = queue[i].ran /\ queue'[i].got = queue[i].got
         /\ queue'[worker.job].state = "done"
         /\ worker'.at = "retain" /\ worker'.job = None
         /\ worker' \in [at : Box!Stage, job : Box!Job \cup {None}]
<1> DEFINE j == worker.job
           r == [queue[j] EXCEPT !.state = "done", !.failed = worker.at]
<1>1. queue[j] \in Box!JobRecord /\ worker.at \in Box!Stage
  BY DEF BoxTypes
<1>2. /\ r \in Box!JobRecord /\ r.of = queue[j].of /\ r.before = queue[j].before
      /\ r.ran = queue[j].ran /\ r.got = queue[j].got /\ r.state = "done"
  BY <1>1 DEF Box!JobRecord
<1>3. queue' = [queue EXCEPT ![j] = r]
  BY DEF Box!Finish, Box!j0
<1>4. worker' = [at |-> "retain", job |-> None]
  BY DEF Box!Finish
<1>5. worker' \in [at : Box!Stage, job : Box!Job \cup {None}]
  BY <1>4 DEF Box!Stage
<1> HIDE DEF r
<1>6. JobIsNow(j, r)
  BY <1>2, <1>3, RecordSet DEF BoxTypes, JobIsNow
<1> QED
  BY <1>2, <1>4, <1>5, <1>6 DEF JobIsNow

LEMMA CommitOfAJob ==
  ASSUME BoxTypes, NEW i \in 1..Len(queue)
  PROVE  queue[i] \in Box!JobRecord /\ queue[i].of \in Commit /\ i \in Box!Job
<1>1. queue[i] \in Box!JobRecord /\ i \in Box!Job
  BY BoxAssumption DEF BoxTypes, Box!Job, Box!BoxAssumption
<1>2. queue[i].of \in Commit
  BY <1>1 DEF Box!JobRecord
<1> QED
  BY <1>1, <1>2

LEMMA NoneIsNoJob ==
  /\ None \notin Nat /\ Box!Job \subseteq Nat /\ MaxJobs \in Nat
  BY BoxAssumption DEF Box!BoxAssumption, Box!Job

\* A job that ends where it stands leaves the box as the invariant wants it,
\* if its own build and its own gate are gone.
LEMMA EndingKeeps ==
  ASSUME BoxInv, worker.at \in InHand, Box!Finish, UNCHANGED <<agent, lease, judged, file, spent>>,
         repo'.origin = repo.origin, repo'.tracked \subseteq repo'.origin,
         proc' \subseteq proc,
         \A g \in proc' : g.kind = "gate" => g.owner # agent.n,
         cache' = cache, cargo' \subseteq cargo,
         \A b \in cargo' : b.by # worker.job /\ lock' = b.by,
         cargo' = {} => lock' = None
  PROVE  OneInHand' /\ OneGate' /\ RecordsAreItsOwn' /\ BuildsAreOfTheCommit'
<1>1. BoxTypes /\ OneInHand /\ OneGate /\ RecordsAreItsOwn /\ BuildsAreOfTheCommit
  BY DEF BoxInv
<1> DEFINE j == worker.job
<1>2. j \in 1..Len(queue) /\ Open(j) /\ worker.at \notin {"down", "recover"} /\ agent.up
      /\ \A i \in 1..Len(queue) : Open(i) => i = j
  BY <1>1 DEF OneInHand, InHand, Preparing, Open
<1>3. /\ Len(queue') = Len(queue)
      /\ \A i \in 1..Len(queue) :
           /\ i # j => queue'[i] = queue[i]
           /\ queue'[i].of = queue[i].of /\ queue'[i].before = queue[i].before
           /\ queue'[i].ran = queue[i].ran /\ queue'[i].got = queue[i].got
      /\ queue'[j].state = "done"
      /\ worker'.at = "retain" /\ worker'.job = None
  BY <1>1, <1>2, FinishEnds
<1>4. Len(queue) \in Nat
  BY <1>1 DEF BoxTypes
<1>5. \A i \in 1..Len(queue) : queue'[i].state \notin {"begun", "running"}
  BY <1>2, <1>3 DEF Open
<1>6. OneInHand'
  BY <1>2, <1>3, <1>5 DEF OneInHand, Open, InHand, Preparing
<1>7. OneGate'
  BY <1>1, <1>3, <1>5 DEF OneGate, Open, Preparing
<1>8. RecordsAreItsOwn'
  BY <1>1, <1>3, <1>4, <1>5, NoneIsNoJob
  DEF RecordsAreItsOwn, Snapped, Spawned, PastTheCheck, Box!ResultIsOfTheCommit
<1>9. BuildsAreOfTheCommit'
  <2>1. \A b \in cargo' :
          /\ b.by \in 1..Len(queue) /\ queue'[b.by].state \in {"begun", "done"}
          /\ b.from = queue'[b.by].of /\ b.by # None /\ lock' = b.by
    BY <1>1, <1>2, <1>3, <1>4, NoneIsNoJob DEF BuildsAreOfTheCommit
  <2>2. "stop" \notin spent => cargo' = {}
    BY <1>1 DEF BuildsAreOfTheCommit
  <2> QED
    BY <1>1, <1>3, <2>1, <2>2 DEF BuildsAreOfTheCommit, InHand, Preparing
<1> QED
  BY <1>6, <1>7, <1>8, <1>9

LEMMA FailsKeeps ==
  ASSUME BoxInv, worker.at \in {"fetch", "published", "tree", "check", "resume"}, Box!Fails
  PROVE  BoxInv'
<1>1. BoxTypes /\ OneInHand /\ OneGate /\ BuildsAreOfTheCommit
  BY DEF BoxInv
<1>2. worker.at \in InHand /\ worker.job \in 1..Len(queue) /\ agent.up
  BY <1>1 DEF OneInHand, InHand, Preparing
<1>3. Box!Finish /\ UNCHANGED <<agent, repo, tree, known, cargo, lock, target, cache, kept,
                               proc, lease, file, spent, judged>>
  BY DEF Box!Fails, Box!builds, Box!box
<1>4. \A g \in proc' : g.kind = "gate" => g.owner # agent.n
  BY <1>1, <1>2, <1>3 DEF OneGate
<1>5. \A b \in cargo' : b.by # worker.job /\ lock' = b.by
  BY <1>1, <1>3 DEF BuildsAreOfTheCommit
<1>6. cargo' = {} => lock' = None
  BY <1>1, <1>3 DEF BuildsAreOfTheCommit
<1>7. OneInHand' /\ OneGate' /\ RecordsAreItsOwn' /\ BuildsAreOfTheCommit'
  BY <1>2, <1>3, <1>4, <1>5, <1>6, EndingKeeps DEF BoxInv, RecordsAreItsOwn
<1>8. BoxTypes'
  BY <1>1, <1>2, <1>3, FinishEnds DEF BoxTypes
<1> QED
  BY <1>7, <1>8 DEF BoxInv

-----------------------------------------------------------------------------
(* Steps up to the gate *)

LEMMA PreparingGoesOn ==
  ASSUME BoxInv, worker.at \in Preparing, NEW s \in Preparing, Box!Goto(s),
         UNCHANGED <<agent, queue, proc, lease, judged>>
  PROVE  /\ OneInHand' /\ OneGate'
         /\ worker'.at = s /\ worker'.job = worker.job /\ worker.job \in 1..Len(queue)
         /\ worker' \in [at : Box!Stage, job : Box!Job \cup {None}]
<1>1. BoxTypes /\ OneInHand /\ OneGate /\ s \in Box!Stage
  BY DEF BoxInv, Box!Stage, Preparing
<1>2. /\ worker'.at = s /\ worker'.job = worker.job
      /\ worker' \in [at : Box!Stage, job : Box!Job \cup {None}]
  BY <1>1, HandGoesOn
<1>3. OneInHand' /\ worker.job \in 1..Len(queue)
  BY <1>1, <1>2 DEF OneInHand, InHand, Preparing, Open
<1>4. OneGate'
  BY <1>1, <1>2 DEF OneGate, Preparing, Open
<1> QED
  BY <1>2, <1>3, <1>4

LEMMA RecordsGoOn ==
  ASSUME BoxInv, worker.at \in Preparing, NEW s \in Preparing \ {"spawn"},
         worker'.at = s, worker'.job = worker.job,
         UNCHANGED <<queue, file>>,
         repo'.tracked \subseteq repo'.origin, repo.origin \subseteq repo'.origin,
         \/ s \in {"commit", "fetch", "published"}
         \/ worker.at \notin {"commit", "fetch", "published"}
         \/ AllowUnpublished \/ queue[worker.job].of \in repo.origin
  PROVE  RecordsAreItsOwn'
  BY DEF BoxInv, RecordsAreItsOwn, Snapped, Spawned, PastTheCheck, Preparing, InHand,
         Box!ResultIsOfTheCommit

LEMMA HasCommitKeeps ==
  ASSUME BoxInv, Box!HasCommit
  PROVE  BoxInv'
<1>1. PICK s \in {"published", "fetch"} :
        /\ worker.at = "commit" /\ Box!Goto(s)
        /\ UNCHANGED <<agent, queue, repo, tree, known, cargo, lock, target, cache, kept,
                       proc, lease, file, spent, judged>>
  BY DEF Box!HasCommit, Box!At, Box!builds, Box!box
<1>2. BoxTypes /\ RecordsAreItsOwn /\ BuildsAreOfTheCommit
  BY DEF BoxInv
<1>3. /\ OneInHand' /\ OneGate' /\ worker'.at = s /\ worker'.job = worker.job
      /\ worker' \in [at : Box!Stage, job : Box!Job \cup {None}]
  BY <1>1, PreparingGoesOn DEF Preparing
<1>4. RecordsAreItsOwn'
  BY <1>1, <1>2, <1>3, RecordsGoOn DEF Preparing, RecordsAreItsOwn
<1>5. BuildsAreOfTheCommit'
  BY <1>1, <1>2, <1>3 DEF BuildsAreOfTheCommit, InHand, Preparing
<1>6. BoxTypes'
  BY <1>1, <1>2, <1>3 DEF BoxTypes
<1> QED
  BY <1>3, <1>4, <1>5, <1>6 DEF BoxInv

LEMMA FetchKeeps ==
  ASSUME BoxInv, Box!Fetch
  PROVE  BoxInv'
<1>0. BoxTypes /\ OneInHand /\ OneGate /\ RecordsAreItsOwn /\ BuildsAreOfTheCommit
  BY DEF BoxInv
<1>1. worker.at = "fetch" /\ agent.up
  BY DEF Box!Fetch, Box!At
<1>2. CASE Box!Fails
  BY <1>1, <1>2, FailsKeeps
<1>3. CASE ~Box!Fails
  <2>1. /\ repo' = [repo EXCEPT !.local = @ \cup repo.origin, !.tracked = repo.origin]
        /\ (Box!Goto("published") /\ UNCHANGED queue) \/ Box!Finish
        /\ UNCHANGED <<agent, tree, known, cargo, lock, target, cache, kept,
                       proc, lease, file, spent, judged>>
    BY <1>3 DEF Box!Fetch, Box!builds, Box!box
  <2>2. /\ repo'.tracked = repo.origin /\ repo'.origin = repo.origin
        /\ repo' \in [local : SUBSET Commit, origin : SUBSET Commit, tracked : SUBSET Commit]
    BY <1>0, <2>1 DEF BoxTypes
  <2>3. CASE Box!Goto("published") /\ UNCHANGED queue
    <3>1. /\ OneInHand' /\ OneGate' /\ worker'.at = "published" /\ worker'.job = worker.job
          /\ worker' \in [at : Box!Stage, job : Box!Job \cup {None}]
      BY <1>1, <2>1, <2>3, PreparingGoesOn DEF Preparing
    <3>2. RecordsAreItsOwn'
      BY <1>1, <2>1, <2>2, <2>3, <3>1, RecordsGoOn DEF Preparing
    <3>3. BuildsAreOfTheCommit'
      BY <1>0, <1>1, <2>1, <2>3, <3>1 DEF BuildsAreOfTheCommit, InHand, Preparing
    <3>4. BoxTypes'
      BY <1>0, <2>1, <2>2, <2>3, <3>1 DEF BoxTypes
    <3> QED
      BY <3>1, <3>2, <3>3, <3>4 DEF BoxInv
  <2>4. CASE Box!Finish
    <3>1. \A g \in proc' : g.kind = "gate" => g.owner # agent.n
      BY <1>0, <1>1, <2>1 DEF OneGate
    <3>2. \A b \in cargo' : b.by # worker.job /\ lock' = b.by
      BY <1>0, <1>1, <2>1 DEF BuildsAreOfTheCommit
    <3>3. cargo' = {} => lock' = None
      BY <1>0, <2>1 DEF BuildsAreOfTheCommit
    <3>4. worker.at \in InHand
      BY <1>1 DEF InHand, Preparing
    <3>5. OneInHand' /\ OneGate' /\ RecordsAreItsOwn' /\ BuildsAreOfTheCommit'
      BY <2>1, <2>2, <2>4, <3>1, <3>2, <3>3, <3>4, EndingKeeps
    <3>6. BoxTypes'
      BY <1>0, <2>1, <2>2, <2>4, <3>4, FinishEnds DEF BoxTypes, OneInHand
    <3> QED
      BY <3>5, <3>6 DEF BoxInv
  <2> QED
    BY <2>1, <2>3, <2>4
<1> QED
  BY <1>2, <1>3

LEMMA PublishedKeeps ==
  ASSUME BoxInv, Box!Published
  PROVE  BoxInv'
<1>0. BoxTypes /\ RecordsAreItsOwn /\ BuildsAreOfTheCommit
  BY DEF BoxInv
<1>1. worker.at = "published"
  BY DEF Box!Published, Box!At
<1>2. CASE Box!Fails
  BY <1>1, <1>2, FailsKeeps
<1>3. CASE ~Box!Fails
  <2>1. /\ AllowUnpublished \/ queue[worker.job].of \in repo.tracked
        /\ Box!Goto("tree")
        /\ UNCHANGED <<agent, queue, repo, tree, known, cargo, lock, target, cache, kept,
                       proc, lease, file, spent, judged>>
    BY <1>3 DEF Box!Published, Box!builds, Box!box, Box!c0, Box!j0
  <2>2. /\ OneInHand' /\ OneGate' /\ worker'.at = "tree" /\ worker'.job = worker.job
        /\ worker' \in [at : Box!Stage, job : Box!Job \cup {None}]
    BY <1>1, <2>1, PreparingGoesOn DEF Preparing
  <2>3. RecordsAreItsOwn'
    BY <1>0, <1>1, <2>1, <2>2, RecordsGoOn DEF Preparing, RecordsAreItsOwn
  <2>4. BuildsAreOfTheCommit'
    BY <1>0, <1>1, <2>1, <2>2 DEF BuildsAreOfTheCommit, InHand, Preparing
  <2>5. BoxTypes'
    BY <1>0, <2>1, <2>2 DEF BoxTypes
  <2> QED
    BY <2>2, <2>3, <2>4, <2>5 DEF BoxInv
<1> QED
  BY <1>2, <1>3

LEMMA CheckGateKeeps ==
  ASSUME BoxInv, Box!CheckGate
  PROVE  BoxInv'
<1>0. BoxTypes /\ RecordsAreItsOwn /\ BuildsAreOfTheCommit
  BY DEF BoxInv
<1>1. worker.at = "check"
  BY DEF Box!CheckGate, Box!At
<1>2. CASE Box!Fails
  BY <1>1, <1>2, FailsKeeps
<1>3. CASE ~Box!Fails
  <2>1. /\ Box!Goto("snapshot")
        /\ UNCHANGED <<agent, queue, repo, tree, known, cargo, lock, target, cache, kept,
                       proc, lease, file, spent, judged>>
    BY <1>3 DEF Box!CheckGate, Box!builds, Box!box
  <2>2. /\ OneInHand' /\ OneGate' /\ worker'.at = "snapshot" /\ worker'.job = worker.job
        /\ worker' \in [at : Box!Stage, job : Box!Job \cup {None}]
    BY <1>1, <2>1, PreparingGoesOn DEF Preparing
  <2>3. RecordsAreItsOwn'
    BY <1>0, <1>1, <2>1, <2>2, RecordsGoOn DEF Preparing, RecordsAreItsOwn
  <2>4. BuildsAreOfTheCommit'
    BY <1>0, <1>1, <2>1, <2>2 DEF BuildsAreOfTheCommit, InHand, Preparing
  <2>5. BoxTypes'
    BY <1>0, <2>1, <2>2 DEF BoxTypes
  <2> QED
    BY <2>2, <2>3, <2>4, <2>5 DEF BoxInv
<1> QED
  BY <1>2, <1>3

\* Making the worktree: it is on the commit, and holds what it held or nothing.
LEMMA CheckedOut ==
  ASSUME BoxTypes, worker.job \in 1..Len(queue), Box!Checkout
  PROVE  LET c == queue[worker.job].of IN
         /\ tree' \in [Commit -> Commit \cup {None}] /\ tree'[c] = c
         /\ file' \in [Commit -> [Name -> Box!Job \cup {None}]]
         /\ \A d \in Commit, m \in Name : file'[d][m] \in {None, file[d][m]}
         /\ UNCHANGED <<agent, repo, cargo, lock, target, cache, proc, lease, spent, judged>>
<1> DEFINE c == queue[worker.job].of
<1>1. c \in Commit
  BY CommitOfAJob
<1>2. Box!NoRecords = [m \in Name |-> None]
  BY DEF Box!NoRecords
<1>3. /\ tree' = [tree EXCEPT ![c] = c]
      /\ file' = [file EXCEPT ![c] = IF tree[c] = c THEN @ ELSE Box!NoRecords]
      /\ UNCHANGED <<agent, repo, cargo, lock, target, cache, proc, lease, spent, judged>>
  BY DEF Box!Checkout, Box!c0, Box!j0
<1> HIDE DEF c
<1>4. tree' \in [Commit -> Commit \cup {None}] /\ tree'[c] = c
  BY <1>1, <1>3 DEF BoxTypes
<1>5. file' = file \/ file' = [file EXCEPT ![c] = Box!NoRecords]
  <2>1. CASE tree[c] = c
    BY <1>1, <1>3, <2>1 DEF BoxTypes
  <2>2. CASE tree[c] # c
    BY <1>1, <1>3, <2>2 DEF BoxTypes
  <2> QED
    BY <2>1, <2>2
<1>6. file' \in [Commit -> [Name -> Box!Job \cup {None}]]
  BY <1>1, <1>2, <1>5 DEF BoxTypes
<1>7. \A d \in Commit, m \in Name : file'[d][m] \in {None, file[d][m]}
  BY <1>1, <1>2, <1>5 DEF BoxTypes
<1> QED
  BY <1>3, <1>4, <1>6, <1>7 DEF c

LEMMA WorktreeKeeps ==
  ASSUME BoxInv, Box!Worktree
  PROVE  BoxInv'
<1>0. BoxTypes /\ OneInHand /\ RecordsAreItsOwn /\ BuildsAreOfTheCommit
  BY DEF BoxInv
<1>1. worker.at = "tree"
  BY DEF Box!Worktree, Box!At
<1>2. CASE Box!Fails
  BY <1>1, <1>2, FailsKeeps
<1>3. CASE ~Box!Fails
  <2> DEFINE j == worker.job
             c == queue[j].of
  <2>1. Box!Checkout /\ Box!Goto("cache") /\ UNCHANGED queue
    BY <1>3 DEF Box!Worktree
  <2>2. j \in 1..Len(queue) /\ Open(j) /\ queue[j].state = "begun"
        /\ \A i \in 1..Len(queue) : Open(i) => i = j
    BY <1>0, <1>1 DEF OneInHand, InHand, Preparing, Open
  <2>3. /\ tree' \in [Commit -> Commit \cup {None}] /\ tree'[c] = c
        /\ file' \in [Commit -> [Name -> Box!Job \cup {None}]]
        /\ UNCHANGED <<agent, repo, cargo, lock, target, cache, proc, lease, spent, judged>>
    BY <1>0, <2>1, <2>2, CheckedOut
  <2>4. /\ OneInHand' /\ OneGate' /\ worker'.at = "cache" /\ worker'.job = worker.job
        /\ worker' \in [at : Box!Stage, job : Box!Job \cup {None}]
    BY <1>1, <2>1, <2>3, PreparingGoesOn DEF Preparing
  <2>5. RecordsAreItsOwn'
    <3>1. \A i \in 1..Len(queue) : ~Snapped(i)' /\ ~Spawned(i)'
      BY <2>1, <2>2, <2>4 DEF Snapped, Spawned, Open
    <3>2. \A i \in 1..Len(queue) : PastTheCheck(i)' => PastTheCheck(i)
      BY <1>1, <2>1, <2>2, <2>4 DEF PastTheCheck, InHand, Preparing
    <3>3. Len(queue') = Len(queue)
      BY <2>1
    <3> QED
      BY <1>0, <2>1, <2>3, <3>1, <3>2, <3>3
      DEF RecordsAreItsOwn, Box!ResultIsOfTheCommit, Snapped, Spawned, PastTheCheck
  <2>6. BuildsAreOfTheCommit'
    BY <1>0, <1>1, <2>1, <2>3, <2>4 DEF BuildsAreOfTheCommit, InHand, Preparing
  <2>7. BoxTypes'
    BY <1>0, <2>1, <2>3, <2>4 DEF BoxTypes
  <2> QED
    BY <2>4, <2>5, <2>6, <2>7 DEF BoxInv
<1> QED
  BY <1>2, <1>3

LEMMA LookInCacheKeeps ==
  ASSUME BoxInv, Box!LookInCache
  PROVE  BoxInv'
<1>0. BoxTypes /\ RecordsAreItsOwn /\ BuildsAreOfTheCommit
  BY DEF BoxInv
<1> DEFINE c == queue[worker.job].of
<1>1. PICK s \in {"check", "build"} :
        /\ worker.at = "cache" /\ Box!Goto(s) /\ (s = "check" => Box!Hit(c))
        /\ UNCHANGED <<agent, queue, repo, tree, known, cargo, lock, target, cache, kept,
                       proc, lease, file, spent, judged>>
  <2>1. CASE Box!Hit(c)
    BY <2>1 DEF Box!LookInCache, Box!At, Box!builds, Box!box, Box!c0, Box!j0
  <2>2. CASE ~Box!Hit(c)
    BY <2>2 DEF Box!LookInCache, Box!At, Box!builds, Box!box, Box!c0, Box!j0
  <2> QED
    BY <2>1, <2>2
<1>2. /\ OneInHand' /\ OneGate' /\ worker'.at = s /\ worker'.job = worker.job
      /\ worker.job \in 1..Len(queue)
      /\ worker' \in [at : Box!Stage, job : Box!Job \cup {None}]
  BY <1>1, PreparingGoesOn DEF Preparing
<1>3. c \in Commit
  BY <1>0, <1>2, CommitOfAJob
<1>4. s = "check" => cache[c].bin = c
  BY <1>0, <1>1, <1>3 DEF Box!Hit, BuildsAreOfTheCommit
<1>5. RecordsAreItsOwn'
  BY <1>0, <1>1, <1>2, RecordsGoOn DEF Preparing, RecordsAreItsOwn
<1>6. BuildsAreOfTheCommit'
  BY <1>0, <1>1, <1>2, <1>4 DEF BuildsAreOfTheCommit, InHand, Preparing
<1>7. BoxTypes'
  BY <1>0, <1>1, <1>2 DEF BoxTypes
<1> QED
  BY <1>2, <1>5, <1>6, <1>7 DEF BoxInv

LEMMA StartBuildKeeps ==
  ASSUME BoxInv, Box!StartBuild
  PROVE  BoxInv'
<1>0. BoxTypes /\ OneInHand /\ RecordsAreItsOwn /\ BuildsAreOfTheCommit
  BY DEF BoxInv
<1> DEFINE j == worker.job
           c == queue[j].of
           b == [by |-> j, from |-> c]
<1>1. /\ worker.at = "build" /\ agent.up /\ Box!Goto("cargo")
      /\ cargo' = cargo \cup {[by |-> j, from |-> tree[c]]}
      /\ lock' = IF lock = None THEN j ELSE lock
      /\ UNCHANGED <<agent, queue, repo, tree, known, target, cache, kept,
                     proc, lease, file, spent, judged>>
  BY DEF Box!StartBuild, Box!At, Box!box, Box!c0, Box!j0
<1>2. /\ OneInHand' /\ OneGate' /\ worker'.at = "cargo" /\ worker'.job = j
      /\ j \in 1..Len(queue)
      /\ worker' \in [at : Box!Stage, job : Box!Job \cup {None}]
  BY <1>1, PreparingGoesOn DEF Preparing
<1>3. c \in Commit /\ j \in Box!Job /\ j # None /\ queue[j].state = "begun"
  BY <1>0, <1>1, <1>2, NoneIsNoJob, CommitOfAJob DEF OneInHand, Preparing
<1>4. tree[c] = c
  BY <1>0, <1>1 DEF BuildsAreOfTheCommit, InHand, Preparing
<1>5. cargo' = cargo \cup {b} /\ b.by = j /\ b.from = c /\ b \in [by : Box!Job, from : Commit]
  BY <1>1, <1>3, <1>4
<1> HIDE DEF b
<1>6. RecordsAreItsOwn'
  BY <1>0, <1>1, <1>2, RecordsGoOn DEF Preparing, RecordsAreItsOwn
<1>7. \A x \in cargo : x.by # j /\ lock = x.by
  BY <1>0, <1>1 DEF BuildsAreOfTheCommit
<1>8. lock' # None /\ (lock = None => lock' = j) /\ (lock # None => lock' = lock)
  BY <1>1, <1>3
<1>9. /\ \A x \in cargo' :
           /\ x.by \in 1..Len(queue) /\ queue[x.by].state \in {"begun", "done"}
           /\ x.from = queue[x.by].of
           /\ x.by # j => lock' = x.by
      /\ \E x \in cargo' : x.by = lock'
  <2>1. \A x \in cargo : lock' = x.by
    BY <1>0, <1>7, <1>8 DEF BuildsAreOfTheCommit
  <2>2. \A x \in cargo :
           /\ x.by \in 1..Len(queue) /\ queue[x.by].state \in {"begun", "done"}
           /\ x.from = queue[x.by].of
    BY <1>0 DEF BuildsAreOfTheCommit
  <2>3. lock # None => \E x \in cargo : x.by = lock
    BY <1>0 DEF BuildsAreOfTheCommit
  <2> QED
    BY <1>2, <1>3, <1>5, <1>8, <2>1, <2>2, <2>3
<1>10. BuildsAreOfTheCommit'
  BY <1>0, <1>1, <1>2, <1>5, <1>8, <1>9 DEF BuildsAreOfTheCommit, InHand, Preparing
<1>11. BoxTypes'
  BY <1>0, <1>1, <1>2, <1>3, <1>5, <1>8 DEF BoxTypes
<1> QED
  BY <1>2, <1>6, <1>10, <1>11 DEF BoxInv

\* A build that lets go of the lock gives it to the other, if there is one.
LEMMA LockPasses ==
  ASSUME BoxInv, NEW b \in cargo, Box!LetGo(b)
  PROVE  /\ cargo' = cargo \ {b} /\ lock' \in Box!Job \cup {None}
         /\ \A x \in cargo' : x.by # b.by /\ (x.by # worker.job => lock' = x.by)
         /\ lock' # None => \E x \in cargo' : x.by = lock'
         /\ cargo' # {} => lock' # None
         /\ lock = b.by => \A x \in cargo' : x.by = worker.job
<1>1. /\ cargo \subseteq [by : Box!Job, from : Commit] /\ lock \in Box!Job \cup {None}
      /\ \A x \in cargo : x.from = queue[x.by].of /\ (x.by # worker.job => lock = x.by)
      /\ lock # None => \E x \in cargo : x.by = lock
      /\ cargo # {} => lock # None
  BY DEF BoxInv, BoxTypes, BuildsAreOfTheCommit
<1>2. /\ cargo' = cargo \ {b}
      /\ IF lock # b.by THEN lock' = lock
         ELSE lock' \in {w.by : w \in cargo'} \cup (IF cargo' = {} THEN {None} ELSE {})
  BY DEF Box!LetGo
<1>3. \A x \in cargo' : x.by # b.by
  <2> SUFFICES ASSUME NEW x \in cargo', x.by = b.by PROVE FALSE
    OBVIOUS
  <2>1. x.from = b.from /\ x \in [by : Box!Job, from : Commit] /\ b \in [by : Box!Job, from : Commit]
    BY <1>1, <1>2
  <2>2. x = b
    BY <2>1
  <2> QED
    BY <1>2, <2>2
<1>4. \A x \in cargo : x.by \in Box!Job /\ x.by # None
  BY <1>1, NoneIsNoJob
<1>5. CASE lock # b.by
  <2>1. lock' = lock
    BY <1>2, <1>5
  <2> QED
    BY <1>1, <1>2, <1>3, <1>5, <2>1
<1>6. CASE lock = b.by
  <2>1. \A x \in cargo' : x.by = worker.job
    BY <1>1, <1>2, <1>3, <1>6
  <2>2. CASE cargo' = {}
    <3>1. lock' = None
      BY <1>2, <1>6, <2>2
    <3> QED
      BY <1>2, <1>3, <2>1, <2>2, <3>1
  <2>3. CASE cargo' # {}
    <3>1. PICK w \in cargo' : lock' = w.by
      BY <1>2, <1>6, <2>3
    <3> QED
      BY <1>2, <1>3, <1>4, <2>1, <2>3, <3>1
  <2> QED
    BY <2>2, <2>3
<1> QED
  BY <1>5, <1>6

LEMMA CargoEndsKeeps ==
  ASSUME BoxInv, NEW b \in cargo, Box!CargoEnds(b)
  PROVE  BoxInv'
<1>0. BoxTypes /\ OneInHand /\ OneGate /\ RecordsAreItsOwn /\ BuildsAreOfTheCommit
  BY DEF BoxInv
<1>1. PICK good \in BOOLEAN :
        /\ target' = IF good THEN b.from ELSE target
        /\ IF Box!At("cargo") /\ worker.job = b.by
           THEN IF good THEN Box!Goto("copy") /\ UNCHANGED queue ELSE Box!Finish
           ELSE UNCHANGED <<worker, queue>>
  BY DEF Box!CargoEnds, Box!j0
<1>2. /\ lock = b.by /\ Box!LetGo(b)
      /\ UNCHANGED <<agent, repo, tree, known, cache, kept, proc, lease, file, spent, judged>>
  BY DEF Box!CargoEnds, Box!box
<1>3. /\ cargo' = cargo \ {b} /\ lock' \in Box!Job \cup {None}
      /\ \A x \in cargo' : x.by # b.by /\ (x.by # worker.job => lock' = x.by)
      /\ lock' # None => \E x \in cargo' : x.by = lock'
      /\ cargo' # {} => lock' # None
      /\ \A x \in cargo' : x.by = worker.job
  BY <1>2, LockPasses
<1>4. b.from = queue[b.by].of /\ b \in [by : Box!Job, from : Commit]
  BY <1>0 DEF BuildsAreOfTheCommit, BoxTypes
<1>5. target' \in Commit \cup {None}
  BY <1>0, <1>1, <1>4 DEF BoxTypes
<1>6. CASE Box!At("cargo") /\ worker.job = b.by
  <2>1. worker.at = "cargo" /\ worker.at \in InHand /\ worker.job \in 1..Len(queue) /\ cargo' = {}
    BY <1>0, <1>3, <1>6 DEF Box!At, InHand, Preparing, OneInHand
  <2>2. CASE good
    <3>1. Box!Goto("copy") /\ UNCHANGED queue /\ target' = b.from
      BY <1>1, <1>6, <2>2
    <3>2. /\ OneInHand' /\ OneGate' /\ worker'.at = "copy" /\ worker'.job = worker.job
          /\ worker' \in [at : Box!Stage, job : Box!Job \cup {None}]
      BY <1>2, <2>1, <3>1, PreparingGoesOn DEF Preparing
    <3>3. RecordsAreItsOwn'
      BY <1>0, <1>2, <2>1, <3>1, <3>2, RecordsGoOn DEF Preparing, RecordsAreItsOwn
    <3>4. BuildsAreOfTheCommit'
      BY <1>0, <1>2, <1>3, <1>4, <1>6, <2>1, <3>1, <3>2
      DEF BuildsAreOfTheCommit, InHand, Preparing
    <3>5. BoxTypes'
      BY <1>0, <1>2, <1>3, <1>5, <3>1, <3>2 DEF BoxTypes
    <3> QED
      BY <3>2, <3>3, <3>4, <3>5 DEF BoxInv
  <2>3. CASE ~good
    <3>1. Box!Finish
      BY <1>1, <1>6, <2>3
    <3>2. \A g \in proc' : g.kind = "gate" => g.owner # agent.n
      BY <1>0, <1>2, <2>1 DEF OneGate, Preparing
    <3>3. OneInHand' /\ OneGate' /\ RecordsAreItsOwn' /\ BuildsAreOfTheCommit'
      BY <1>0, <1>2, <1>3, <2>1, <3>1, <3>2, EndingKeeps DEF RecordsAreItsOwn
    <3>4. BoxTypes'
      BY <1>0, <1>2, <1>3, <1>5, <2>1, <3>1, FinishEnds DEF BoxTypes
    <3> QED
      BY <3>3, <3>4 DEF BoxInv
  <2> QED
    BY <2>2, <2>3
<1>7. CASE ~(Box!At("cargo") /\ worker.job = b.by)
  <2>1. UNCHANGED <<worker, queue>>
    BY <1>1, <1>7
  <2>2. worker.at \notin {"copy", "copying"}
    BY <1>0 DEF BuildsAreOfTheCommit, InHand, Preparing
  <2>3. OneInHand' /\ OneGate' /\ RecordsAreItsOwn'
    BY <1>0, <1>2, <2>1
    DEF OneInHand, OneGate, RecordsAreItsOwn, Open, Snapped, Spawned, PastTheCheck,
        Box!ResultIsOfTheCommit
  <2>4. BuildsAreOfTheCommit'
    BY <1>0, <1>2, <1>3, <2>1, <2>2 DEF BuildsAreOfTheCommit, InHand, Preparing
  <2>5. BoxTypes'
    BY <1>0, <1>2, <1>3, <1>5, <2>1 DEF BoxTypes
  <2> QED
    BY <2>3, <2>4, <2>5 DEF BoxInv
<1> QED
  BY <1>6, <1>7

LEMMA KillBuildKeeps ==
  ASSUME BoxInv, Box!KillBuild
  PROVE  BoxInv'
<1>0. BoxTypes /\ OneInHand /\ OneGate /\ RecordsAreItsOwn /\ BuildsAreOfTheCommit
  BY DEF BoxInv
<1>1. PICK b \in cargo : b.by = worker.job /\ Box!LetGo(b)
  BY DEF Box!KillBuild, Box!j0
<1>2. /\ worker.at = "cargo" /\ agent.up /\ Box!Finish
      /\ UNCHANGED <<agent, repo, tree, known, target, cache, kept, proc, lease, file, spent, judged>>
  BY DEF Box!KillBuild, Box!At, Box!box
<1>3. /\ cargo' = cargo \ {b} /\ lock' \in Box!Job \cup {None}
      /\ \A x \in cargo' : x.by # b.by /\ (x.by # worker.job => lock' = x.by)
      /\ lock' # None => \E x \in cargo' : x.by = lock'
  BY <1>1, LockPasses
<1>4. worker.at \in InHand /\ worker.job \in 1..Len(queue)
  BY <1>0, <1>2 DEF InHand, Preparing, OneInHand
<1>5. \A g \in proc' : g.kind = "gate" => g.owner # agent.n
  BY <1>0, <1>2 DEF OneGate, Preparing
<1>6. OneInHand' /\ OneGate' /\ RecordsAreItsOwn' /\ BuildsAreOfTheCommit'
  BY <1>0, <1>1, <1>2, <1>3, <1>4, <1>5, EndingKeeps DEF RecordsAreItsOwn
<1>7. BoxTypes'
  BY <1>0, <1>2, <1>3, <1>4, FinishEnds DEF BoxTypes
<1> QED
  BY <1>6, <1>7 DEF BoxInv

LEMMA BeginCopyKeeps ==
  ASSUME BoxInv, Box!BeginCopy
  PROVE  BoxInv'
<1>0. BoxTypes /\ OneInHand /\ RecordsAreItsOwn /\ BuildsAreOfTheCommit
  BY DEF BoxInv
<1> DEFINE c == queue[worker.job].of
<1>1. /\ worker.at = "copy" /\ Box!Goto("copying")
      /\ cache' = [cache EXCEPT ![c].bin = "partial"]
      /\ UNCHANGED <<agent, queue, repo, tree, known, cargo, lock, target,
                     proc, lease, file, spent, judged>>
  BY DEF Box!BeginCopy, Box!At, Box!box, Box!c0, Box!j0
<1>2. /\ OneInHand' /\ OneGate' /\ worker'.at = "copying" /\ worker'.job = worker.job
      /\ worker.job \in 1..Len(queue)
      /\ worker' \in [at : Box!Stage, job : Box!Job \cup {None}]
  BY <1>1, PreparingGoesOn DEF Preparing
<1>3. c \in Commit
  BY <1>0, <1>2, CommitOfAJob
<1>4. RecordsAreItsOwn'
  BY <1>0, <1>1, <1>2, RecordsGoOn DEF Preparing, RecordsAreItsOwn
<1> HIDE DEF c
<1>5. /\ cache' \in [Commit -> [bin : Box!Binary, sha : Commit \cup {None}, hash : Box!Binary]]
      /\ \A d \in Commit : cache'[d].sha = cache[d].sha /\ cache'[d].hash = cache[d].hash
  BY <1>0, <1>1, <1>3 DEF BoxTypes, Box!Binary
<1>6. BuildsAreOfTheCommit'
  BY <1>0, <1>1, <1>2, <1>5 DEF BuildsAreOfTheCommit, InHand, Preparing
<1>7. BoxTypes'
  BY <1>0, <1>1, <1>2, <1>5 DEF BoxTypes
<1> QED
  BY <1>2, <1>4, <1>6, <1>7 DEF BoxInv

LEMMA EndCopyKeeps ==
  ASSUME BoxInv, Box!EndCopy
  PROVE  BoxInv'
<1>0. BoxTypes /\ OneInHand /\ RecordsAreItsOwn /\ BuildsAreOfTheCommit
  BY DEF BoxInv
<1> DEFINE c == queue[worker.job].of
<1>1. /\ worker.at = "copying" /\ Box!Goto("provenance")
      /\ cache' = [cache EXCEPT ![c].bin = target]
      /\ UNCHANGED <<agent, queue, repo, tree, known, cargo, lock, target,
                     proc, lease, file, spent, judged>>
  BY DEF Box!EndCopy, Box!At, Box!box, Box!c0, Box!j0
<1>2. /\ OneInHand' /\ OneGate' /\ worker'.at = "provenance" /\ worker'.job = worker.job
      /\ worker.job \in 1..Len(queue)
      /\ worker' \in [at : Box!Stage, job : Box!Job \cup {None}]
  BY <1>1, PreparingGoesOn DEF Preparing
<1>3. c \in Commit /\ target = c
  BY <1>0, <1>1, <1>2, CommitOfAJob DEF BuildsAreOfTheCommit, InHand, Preparing
<1>4. RecordsAreItsOwn'
  BY <1>0, <1>1, <1>2, RecordsGoOn DEF Preparing, RecordsAreItsOwn
<1>5. cache'[c].bin = c
  BY <1>0, <1>1, <1>3 DEF BoxTypes
<1>6. /\ cache' \in [Commit -> [bin : Box!Binary, sha : Commit \cup {None}, hash : Box!Binary]]
      /\ \A d \in Commit : cache'[d].sha = cache[d].sha /\ cache'[d].hash = cache[d].hash
  <2> HIDE DEF c
  <2> QED
    BY <1>0, <1>1, <1>3 DEF BoxTypes, Box!Binary
<1>7. BuildsAreOfTheCommit'
  BY <1>0, <1>1, <1>2, <1>5, <1>6 DEF BuildsAreOfTheCommit, InHand, Preparing
<1>8. BoxTypes'
  BY <1>0, <1>1, <1>2, <1>6 DEF BoxTypes
<1> QED
  BY <1>2, <1>4, <1>7, <1>8 DEF BoxInv

LEMMA WriteProvenanceKeeps ==
  ASSUME BoxInv, Box!WriteProvenance
  PROVE  BoxInv'
<1>0. BoxTypes /\ OneInHand /\ RecordsAreItsOwn /\ BuildsAreOfTheCommit
  BY DEF BoxInv
<1> DEFINE c == queue[worker.job].of
<1>1. /\ worker.at = "provenance" /\ Box!Goto("check")
      /\ cache' = [cache EXCEPT ![c].sha = c, ![c].hash = cache[c].bin]
      /\ UNCHANGED <<agent, queue, repo, tree, known, cargo, lock, target,
                     proc, lease, file, spent, judged>>
  BY DEF Box!WriteProvenance, Box!At, Box!box, Box!c0, Box!j0
<1>2. /\ OneInHand' /\ OneGate' /\ worker'.at = "check" /\ worker'.job = worker.job
      /\ worker.job \in 1..Len(queue)
      /\ worker' \in [at : Box!Stage, job : Box!Job \cup {None}]
  BY <1>1, PreparingGoesOn DEF Preparing
<1>3. c \in Commit /\ cache[c].bin = c
  BY <1>0, <1>1, <1>2, CommitOfAJob DEF BuildsAreOfTheCommit, InHand, Preparing
<1>4. RecordsAreItsOwn'
  BY <1>0, <1>1, <1>2, RecordsGoOn DEF Preparing, RecordsAreItsOwn
<1>5. cache'[c].bin = c /\ \A d \in Commit : cache'[d].sha = d => cache'[d].hash = d
  <2> HIDE DEF c
  <2>1. \A d \in Commit : cache[d].sha = d => cache[d].hash = d
    BY <1>0 DEF BuildsAreOfTheCommit
  <2>2. cache'[c].bin = c /\ cache'[c].hash = c /\ \A d \in Commit : d # c => cache'[d] = cache[d]
    BY <1>0, <1>1, <1>3 DEF BoxTypes
  <2> QED
    BY <2>1, <2>2
<1>6. cache' \in [Commit -> [bin : Box!Binary, sha : Commit \cup {None}, hash : Box!Binary]]
  <2> DEFINE B == [bin : Box!Binary, sha : Commit \cup {None}, hash : Box!Binary]
             r == [cache[c] EXCEPT !.sha = c, !.hash = cache[c].bin]
  <2> HIDE DEF c
  <2>1. cache[c] \in B /\ cache \in [Commit -> B]
    BY <1>0, <1>3 DEF BoxTypes
  <2>2. r \in B
    BY <1>3, <2>1
  <2>3. cache' = [cache EXCEPT ![c] = r]
    BY <1>1, <1>3, <2>1
  <2> HIDE DEF r, B
  <2>4. cache' \in [Commit -> B]
    BY <1>3, <2>1, <2>2, <2>3
  <2> QED
    BY <2>4 DEF B
<1>7. BuildsAreOfTheCommit'
  <2> HIDE DEF c
  <2>1. c = queue'[worker'.job].of
    BY <1>1, <1>2 DEF c
  <2>2. \A b \in cargo' :
          /\ b.by \in 1..Len(queue') /\ queue'[b.by].state \in {"begun", "done"}
          /\ b.from = queue'[b.by].of /\ b.by # worker'.job /\ lock' = b.by
    BY <1>0, <1>1, <1>2 DEF BuildsAreOfTheCommit
  <2>3. /\ lock' # None => \E b \in cargo' : b.by = lock'
        /\ cargo' # {} => lock' # None
        /\ "stop" \notin spent' => cargo' = {}
    BY <1>0, <1>1 DEF BuildsAreOfTheCommit
  <2> QED
    BY <1>2, <1>5, <2>1, <2>2, <2>3 DEF BuildsAreOfTheCommit
<1>8. BoxTypes'
  BY <1>0, <1>1, <1>2, <1>6 DEF BoxTypes
<1> QED
  BY <1>2, <1>4, <1>7, <1>8 DEF BoxInv

-----------------------------------------------------------------------------
(* The gate and what it leaves *)

LEMMA HandFollows ==
  ASSUME BoxTypes, OneInHand, worker.at \in InHand, NEW s \in InHand, NEW r,
         JobIsNow(worker.job, r), worker'.at = s, worker'.job = worker.job, agent' = agent,
         \/ s \in Preparing \cup {"save"} /\ r.state = "begun"
         \/ s \in {"resume", "wait", "collect"} /\ r.state = "running"
  PROVE  OneInHand'
<1>1. /\ worker.job \in 1..Len(queue) /\ Open(worker.job) /\ agent.up
      /\ worker.at \notin {"down", "recover"}
      /\ \A i \in 1..Len(queue) : Open(i) => i = worker.job
  BY DEF OneInHand, InHand, Preparing, Open
<1>2. /\ Len(queue') = Len(queue) /\ queue'[worker.job] = r
      /\ \A i \in 1..Len(queue) : i # worker.job => queue'[i] = queue[i]
  BY DEF JobIsNow
<1>3. \A i \in 1..Len(queue) : queue'[i].state \in {"begun", "running"} => i = worker.job
  BY <1>1, <1>2 DEF Open
<1> QED
  BY <1>1, <1>2, <1>3 DEF OneInHand, InHand, Preparing, Open

\* The rest of the builds' invariant, when no build runs for the job in hand.
LEMMA BuildsStay ==
  ASSUME BoxInv, worker.at \notin {"cargo"}, worker'.at \notin {"down", "recover", "resume"},
         UNCHANGED <<cargo, lock, cache, spent>>, worker'.job \in {worker.job, None},
         Len(queue) <= Len(queue') /\ Len(queue') \in Nat,
         \A i \in 1..Len(queue) :
            queue'[i].of = queue[i].of /\ (i # worker.job => queue'[i].state = queue[i].state),
         "stop" \notin spent => worker.at \notin {"down", "recover", "resume"},
         worker'.at \in InHand =>
           LET c == queue'[worker'.job].of IN
           /\ worker'.at \notin {"cache", "build", "cargo", "copy", "copying"}
           /\ worker'.at \in {"provenance", "check", "snapshot", "spawn"} => cache[c].bin = c
  PROVE  BuildsAreOfTheCommit'
<1>0. Len(queue) \in Nat
  BY DEF BoxInv, BoxTypes
<1>1. \A b \in cargo :
        /\ b.by \in 1..Len(queue) /\ queue[b.by].state \in {"begun", "done"}
        /\ b.from = queue[b.by].of /\ b.by # worker.job /\ lock = b.by
  BY DEF BoxInv, BuildsAreOfTheCommit
<1>2. \A b \in cargo' :
        /\ b.by \in 1..Len(queue') /\ queue'[b.by].state \in {"begun", "done"}
        /\ b.from = queue'[b.by].of /\ b.by # worker'.job /\ lock' = b.by
  BY <1>0, <1>1, NoneIsNoJob
<1>3. /\ lock' # None => \E b \in cargo' : b.by = lock'
      /\ cargo' # {} => lock' # None
      /\ "stop" \notin spent' => cargo' = {}
      /\ \A c \in Commit : cache'[c].sha = c => cache'[c].hash = c
  BY <1>1 DEF BoxInv, BuildsAreOfTheCommit
<1> QED
  BY <1>2, <1>3 DEF BuildsAreOfTheCommit

LEMMA SnapshotKeeps ==
  ASSUME BoxInv, Box!Snapshot
  PROVE  BoxInv'
<1>0. BoxTypes /\ OneInHand /\ OneGate /\ RecordsAreItsOwn /\ BuildsAreOfTheCommit
  BY DEF BoxInv
<1> DEFINE j == worker.job
           c == queue[j].of
           r == [queue[j] EXCEPT !.before = file[c]]
<1>1. /\ worker.at = "snapshot" /\ agent.up /\ Box!Goto("spawn")
      /\ queue' = [queue EXCEPT ![j].before = file[c]]
      /\ UNCHANGED <<agent, repo, tree, known, cargo, lock, target, cache, kept,
                     proc, lease, file, spent, judged>>
  BY DEF Box!Snapshot, Box!At, Box!box, Box!builds, Box!c0, Box!j0
<1>2. worker.at \in InHand /\ j \in 1..Len(queue) /\ queue[j].state = "begun"
      /\ \A i \in 1..Len(queue) : i # j => queue[i].state # "running"
  BY <1>0, <1>1 DEF OneInHand, InHand, Preparing, Open
<1>3. /\ worker'.at = "spawn" /\ worker'.job = worker.job
      /\ worker' \in [at : Box!Stage, job : Box!Job \cup {None}]
  BY <1>0, <1>1, HandGoesOn DEF Box!Stage
<1>4. queue[j] \in Box!JobRecord /\ c \in Commit /\ file[c] \in [Name -> Box!Job \cup {None}]
  BY <1>0, <1>2, CommitOfAJob DEF BoxTypes
<1>5. /\ r \in Box!JobRecord /\ r.of = c /\ r.state = "begun" /\ r.before = file[c]
      /\ r.ran = queue[j].ran /\ r.got = queue[j].got
  BY <1>2, <1>4 DEF Box!JobRecord
<1>6. queue' = [queue EXCEPT ![j] = r]
  BY <1>1
<1> HIDE DEF r
<1>7. JobIsNow(j, r)
  BY <1>0, <1>2, <1>5, <1>6, RecordSet DEF BoxTypes, JobIsNow
<1>8. OneInHand'
  BY <1>0, <1>1, <1>2, <1>3, <1>5, <1>7, HandFollows DEF InHand, Preparing
<1>9. OneGate'
  BY <1>0, <1>1, <1>2, <1>3, <1>7 DEF OneGate, Preparing, JobIsNow
<1>10. RecordsAreItsOwn'
  <2>1. \A i \in 1..Len(queue) :
          /\ i # j => queue'[i] = queue[i] /\ queue[i].state # "running"
          /\ queue'[i].of = queue[i].of /\ queue'[i].ran = queue[i].ran
          /\ queue'[i].got = queue[i].got
    BY <1>2, <1>5, <1>7 DEF JobIsNow
  <2>2. \A m \in Name : file[queue'[j].of][m] \in {None, queue'[j].before[m], j}
    BY <1>5, <1>7 DEF JobIsNow
  <2>3. PastTheCheck(j) /\ queue'[j].state = "begun" /\ Len(queue') = Len(queue)
    BY <1>1, <1>5, <1>7 DEF PastTheCheck, InHand, Preparing, JobIsNow
  <2> QED
    BY <1>0, <1>1, <1>3, <2>1, <2>2, <2>3
    DEF RecordsAreItsOwn, Snapped, Spawned, PastTheCheck, Box!ResultIsOfTheCommit
<1>11. cache[c].bin = c
  BY <1>0, <1>1, <1>2 DEF BuildsAreOfTheCommit
<1>12. BuildsAreOfTheCommit'
  <2>1. /\ Len(queue') = Len(queue) /\ Len(queue) \in Nat
        /\ \A i \in 1..Len(queue) :
             queue'[i].of = queue[i].of /\ (i # worker.job => queue'[i].state = queue[i].state)
    BY <1>0, <1>5, <1>7 DEF JobIsNow, BoxTypes
  <2> QED
    BY <1>1, <1>2, <1>3, <1>11, <2>1, BuildsStay
<1>13. BoxTypes'
  BY <1>0, <1>1, <1>3, <1>7 DEF BoxTypes, JobIsNow
<1> QED
  BY <1>8, <1>9, <1>10, <1>12, <1>13 DEF BoxInv

LEMMA SpawnKeeps ==
  ASSUME BoxInv, Box!Spawn
  PROVE  BoxInv'
<1>0. BoxTypes /\ OneInHand /\ OneGate /\ RecordsAreItsOwn /\ BuildsAreOfTheCommit
  BY DEF BoxInv
<1> DEFINE j == worker.job
           c == queue[j].of
           r == [queue[j] EXCEPT !.ran = c]
           g == Box!Gate(j, agent.n, c)
<1>1. /\ worker.at = "spawn" /\ agent.up /\ Box!Goto("save")
      /\ queue' = [queue EXCEPT ![j].ran = cache[c].bin]
      /\ proc' = proc \cup {Box!Gate(j, agent.n, cache[c].bin)}
      /\ UNCHANGED <<agent, repo, tree, known, cargo, lock, target, cache, kept,
                     lease, file, spent, judged>>
  BY DEF Box!Spawn, Box!At, Box!builds, Box!c0, Box!j0
<1>2. worker.at \in InHand /\ j \in 1..Len(queue) /\ queue[j].state = "begun"
      /\ \A i \in 1..Len(queue) : i # j => queue[i].state \notin {"begun", "running"}
  BY <1>0, <1>1 DEF OneInHand, InHand, Preparing, Open
<1>3. /\ worker'.at = "save" /\ worker'.job = worker.job
      /\ worker' \in [at : Box!Stage, job : Box!Job \cup {None}]
  BY <1>0, <1>1, HandGoesOn DEF Box!Stage
<1>4. queue[j] \in Box!JobRecord /\ c \in Commit /\ j \in Box!Job /\ cache[c].bin = c
  BY <1>0, <1>1, <1>2, CommitOfAJob DEF BuildsAreOfTheCommit
<1>5. /\ r \in Box!JobRecord /\ r.of = c /\ r.state = "begun" /\ r.before = queue[j].before
      /\ r.ran = c /\ r.got = queue[j].got
  BY <1>2, <1>4 DEF Box!JobRecord
<1>6. queue' = [queue EXCEPT ![j] = r] /\ proc' = proc \cup {g}
  BY <1>1, <1>4
<1>7. /\ g.kind = "gate" /\ g.job = j /\ g.owner = agent.n /\ g.bin = c /\ g \in Box!Process
      /\ agent.n \in Nat
  BY <1>0, <1>4 DEF Box!Gate, Box!Process, BoxTypes
<1> HIDE DEF r, g
<1>8. JobIsNow(j, r)
  BY <1>0, <1>2, <1>5, <1>6, RecordSet DEF BoxTypes, JobIsNow
<1>9. OneInHand'
  BY <1>0, <1>1, <1>2, <1>3, <1>5, <1>8, HandFollows DEF InHand, Preparing
<1>10. OneGate'
  <2>1. \A p \in proc : p.kind # "gate"
    BY <1>0, <1>1 DEF OneGate, Preparing
  <2>2. \A i \in 1..Len(queue') : queue'[i].state \in {"begun", "running"} => i = j
    BY <1>2, <1>8 DEF JobIsNow
  <2>3. j \in 1..Len(queue') /\ \A p \in judged : p.kind = "server" /\ p.owner = agent.n
    BY <1>0, <1>1, <1>2, <1>8 DEF JobIsNow, OneGate, Preparing
  <2>4. lease # None => /\ lease.server.kind = "server"
                        /\ lease.server.owner = lease.owner
                        /\ lease.owner <= agent.n
    BY <1>0 DEF OneGate
  <2> QED
    BY <1>1, <1>3, <1>4, <1>6, <1>7, <2>1, <2>2, <2>3, <2>4 DEF OneGate, Preparing, Open
<1>11. RecordsAreItsOwn'
  <2>1. \A i \in 1..Len(queue) :
          /\ i # j => queue'[i] = queue[i] /\ queue[i].state # "running"
          /\ queue'[i].of = queue[i].of /\ queue'[i].before = queue[i].before
          /\ queue'[i].got = queue[i].got
    BY <1>2, <1>5, <1>8 DEF JobIsNow
  <2>2. Snapped(j) /\ PastTheCheck(j) /\ queue'[j].ran = queue'[j].of
        /\ Len(queue') = Len(queue)
    BY <1>1, <1>5, <1>8 DEF Snapped, PastTheCheck, InHand, Preparing, JobIsNow
  <2> QED
    BY <1>0, <1>1, <1>2, <1>3, <2>1, <2>2
    DEF RecordsAreItsOwn, Snapped, Spawned, PastTheCheck, Box!ResultIsOfTheCommit
<1>12. BuildsAreOfTheCommit'
  <2>1. /\ Len(queue') = Len(queue) /\ Len(queue) \in Nat
        /\ \A i \in 1..Len(queue) :
             queue'[i].of = queue[i].of /\ (i # worker.job => queue'[i].state = queue[i].state)
    BY <1>0, <1>5, <1>8 DEF JobIsNow, BoxTypes
  <2> QED
    BY <1>1, <1>2, <1>3, <2>1, BuildsStay
<1>13. BoxTypes'
  BY <1>0, <1>1, <1>3, <1>6, <1>7, <1>8 DEF BoxTypes, JobIsNow
<1> QED
  BY <1>9, <1>10, <1>11, <1>12, <1>13 DEF BoxInv

LEMMA SaveChildKeeps ==
  ASSUME BoxInv, Box!SaveChild
  PROVE  BoxInv'
<1>0. BoxTypes /\ OneInHand /\ OneGate /\ RecordsAreItsOwn /\ BuildsAreOfTheCommit
  BY DEF BoxInv
<1> DEFINE j == worker.job
           r == [queue[j] EXCEPT !.state = "running"]
<1>1. /\ worker.at = "save" /\ agent.up /\ Box!Goto("wait")
      /\ queue' = [queue EXCEPT ![j].state = "running"]
      /\ UNCHANGED <<agent, repo, tree, known, cargo, lock, target, cache, kept,
                     proc, lease, file, spent, judged>>
  BY DEF Box!SaveChild, Box!At, Box!builds, Box!box, Box!j0
<1>2. worker.at \in InHand /\ j \in 1..Len(queue) /\ Open(j)
      /\ \A i \in 1..Len(queue) : i # j => queue[i].state \notin {"begun", "running"}
  BY <1>0, <1>1 DEF OneInHand, InHand, Preparing, Open
<1>3. /\ worker'.at = "wait" /\ worker'.job = worker.job
      /\ worker' \in [at : Box!Stage, job : Box!Job \cup {None}]
  BY <1>0, <1>1, HandGoesOn DEF Box!Stage
<1>4. queue[j] \in Box!JobRecord
  BY <1>0, <1>2, CommitOfAJob
<1>5. /\ r \in Box!JobRecord /\ r.of = queue[j].of /\ r.state = "running"
      /\ r.before = queue[j].before /\ r.ran = queue[j].ran /\ r.got = queue[j].got
  BY <1>4 DEF Box!JobRecord
<1>6. queue' = [queue EXCEPT ![j] = r]
  BY <1>1
<1> HIDE DEF r
<1>7. JobIsNow(j, r)
  BY <1>0, <1>2, <1>5, <1>6, RecordSet DEF BoxTypes, JobIsNow
<1>8. OneInHand'
  BY <1>0, <1>1, <1>2, <1>3, <1>5, <1>7, HandFollows DEF InHand, Preparing
<1>9. /\ Len(queue') = Len(queue) /\ Len(queue) \in Nat
      /\ \A i \in 1..Len(queue) :
           /\ i # j => queue'[i] = queue[i]
           /\ queue'[i].of = queue[i].of /\ queue'[i].before = queue[i].before
           /\ queue'[i].ran = queue[i].ran /\ queue'[i].got = queue[i].got
      /\ queue'[j].state = "running"
  BY <1>0, <1>5, <1>7 DEF JobIsNow, BoxTypes
<1>10. OneGate'
  <2>1. \A i \in 1..Len(queue') : queue'[i].state \in {"begun", "running"} => i = j
    BY <1>2, <1>9
  <2>2. \A g \in proc : g.kind = "gate" => g.job = j
    BY <1>0, <1>2 DEF OneGate
  <2> QED
    BY <1>0, <1>1, <1>3, <1>9, <2>1, <2>2 DEF OneGate, Preparing, Open
<1>11. RecordsAreItsOwn'
  <2>1. Snapped(j) /\ Spawned(j) /\ PastTheCheck(j)
    BY <1>1 DEF Snapped, Spawned, PastTheCheck, InHand, Preparing
  <2> QED
    BY <1>0, <1>1, <1>2, <1>3, <1>9, <2>1
    DEF RecordsAreItsOwn, Snapped, Spawned, PastTheCheck, Box!ResultIsOfTheCommit
<1>12. BuildsAreOfTheCommit'
  BY <1>1, <1>2, <1>3, <1>9, BuildsStay
<1>13. BoxTypes'
  BY <1>0, <1>1, <1>3, <1>7 DEF BoxTypes, JobIsNow
<1> QED
  BY <1>8, <1>10, <1>11, <1>12, <1>13 DEF BoxInv

LEMMA WaitKeeps ==
  ASSUME BoxInv, Box!Wait
  PROVE  BoxInv'
<1>0. BoxTypes /\ OneInHand /\ OneGate /\ RecordsAreItsOwn /\ BuildsAreOfTheCommit
  BY DEF BoxInv
<1> DEFINE j == worker.job
<1>1. /\ worker.at = "wait" /\ agent.up
      /\ \/ Box!GateOf(j) = {} /\ Box!Goto("collect") /\ UNCHANGED <<queue, proc>>
         \/ Box!GateOf(j) # {} /\ proc' = proc \ Box!GateOf(j) /\ Box!Finish
      /\ UNCHANGED <<agent, repo, tree, known, cargo, lock, target, cache, kept,
                     lease, file, spent, judged>>
  BY DEF Box!Wait, Box!At, Box!builds, Box!j0
<1>2. worker.at \in InHand /\ j \in 1..Len(queue) /\ Open(j) /\ queue[j].state = "running"
  BY <1>0, <1>1 DEF OneInHand, InHand, Preparing, Open
<1>3. \A g \in proc : g.kind = "gate" => g \in Box!GateOf(j)
  BY <1>0, <1>2 DEF OneGate, Box!GateOf
<1>4. CASE Box!GateOf(j) = {} /\ Box!Goto("collect") /\ UNCHANGED <<queue, proc>>
  <2>1. /\ worker'.at = "collect" /\ worker'.job = worker.job
        /\ worker' \in [at : Box!Stage, job : Box!Job \cup {None}]
    BY <1>0, <1>4, HandGoesOn DEF Box!Stage
  <2>2. OneInHand'
    BY <1>0, <1>1, <1>2, <1>4, <2>1 DEF OneInHand, InHand, Preparing, Open
  <2>3. OneGate'
    BY <1>0, <1>1, <1>3, <1>4, <2>1 DEF OneGate, Preparing
  <2>4. RecordsAreItsOwn'
    BY <1>0, <1>1, <1>2, <1>4, <2>1
    DEF RecordsAreItsOwn, Snapped, Spawned, PastTheCheck, Box!ResultIsOfTheCommit, InHand
  <2>5. Len(queue) \in Nat
    BY <1>0 DEF BoxTypes
  <2>6. BuildsAreOfTheCommit'
    BY <1>1, <1>2, <1>4, <2>1, <2>5, BuildsStay
  <2>7. BoxTypes'
    BY <1>0, <1>1, <1>4, <2>1 DEF BoxTypes
  <2> QED
    BY <2>2, <2>3, <2>4, <2>6, <2>7 DEF BoxInv
<1>5. CASE proc' = proc \ Box!GateOf(j) /\ Box!Finish
  <2>1. \A g \in proc' : g.kind = "gate" => g.owner # agent.n
    BY <1>3, <1>5
  <2>2. \A b \in cargo' : b.by # worker.job /\ lock' = b.by
    BY <1>0, <1>1 DEF BuildsAreOfTheCommit
  <2>3. cargo' = {} => lock' = None
    BY <1>0, <1>1 DEF BuildsAreOfTheCommit
  <2>4. OneInHand' /\ OneGate' /\ RecordsAreItsOwn' /\ BuildsAreOfTheCommit'
    BY <1>0, <1>1, <1>2, <1>5, <2>1, <2>2, <2>3, EndingKeeps DEF RecordsAreItsOwn
  <2>5. BoxTypes'
    BY <1>0, <1>1, <1>2, <1>5, FinishEnds DEF BoxTypes
  <2> QED
    BY <2>4, <2>5 DEF BoxInv
<1> QED
  BY <1>1, <1>4, <1>5

LEMMA CollectKeeps ==
  ASSUME BoxInv, Box!Collect
  PROVE  BoxInv'
<1>0. BoxTypes /\ OneInHand /\ OneGate /\ RecordsAreItsOwn /\ BuildsAreOfTheCommit
  BY DEF BoxInv
<1> DEFINE j == worker.job
           c == queue[j].of
           new == {file[c][m] : m \in Box!New(j)}
           r == [queue[j] EXCEPT !.state = "done", !.got = new]
<1>1. /\ worker.at = "collect" /\ agent.up
      /\ queue' = [queue EXCEPT ![j].state = "done", ![j].got = new]
      /\ worker' = [at |-> "retain", job |-> None]
      /\ UNCHANGED <<agent, repo, tree, known, cargo, lock, target, cache, kept,
                     proc, lease, file, spent, judged>>
  BY DEF Box!Collect, Box!At, Box!builds, Box!box, Box!c0, Box!j0
<1>2. /\ worker.at \in InHand /\ j \in 1..Len(queue) /\ queue[j].state = "running"
      /\ \A i \in 1..Len(queue) : i # j => queue[i].state \notin {"begun", "running"}
  BY <1>0, <1>1 DEF OneInHand, InHand, Preparing, Open
<1>3. queue[j] \in Box!JobRecord /\ c \in Commit /\ j \in Box!Job
  BY <1>0, <1>2, CommitOfAJob
<1>4. new \subseteq {j}
  <2>1. \A m \in Name : file[c][m] \in {None, queue[j].before[m], j}
    BY <1>0, <1>2 DEF RecordsAreItsOwn, Snapped
  <2>2. \A m \in Box!New(j) : m \in Name /\ file[c][m] \notin {None, queue[j].before[m]}
    BY DEF Box!New
  <2> QED
    BY <2>1, <2>2
<1> HIDE DEF new
<1>5. new \in SUBSET Box!Job
  BY <1>3, <1>4
<1>6. /\ r \in Box!JobRecord /\ r.of = c /\ r.state = "done"
      /\ r.before = queue[j].before /\ r.ran = queue[j].ran /\ r.got = new
  BY <1>3, <1>5 DEF Box!JobRecord
<1>7. queue' = [queue EXCEPT ![j] = r]
  BY <1>1
<1> HIDE DEF r
<1>8. JobIsNow(j, r)
  BY <1>0, <1>2, <1>6, <1>7, RecordSet DEF BoxTypes, JobIsNow
<1>9. /\ Len(queue') = Len(queue) /\ Len(queue) \in Nat
      /\ \A i \in 1..Len(queue) :
           /\ i # j => queue'[i] = queue[i]
           /\ queue'[i].of = queue[i].of /\ queue'[i].ran = queue[i].ran
           /\ queue'[i].state \notin {"begun", "running"}
           /\ i # j => queue'[i].state = queue[i].state /\ queue'[i].got = queue[i].got
      /\ queue'[j].got = new
  BY <1>0, <1>2, <1>6, <1>8 DEF JobIsNow, BoxTypes
<1>10. /\ worker'.at = "retain" /\ worker'.job = None
       /\ worker' \in [at : Box!Stage, job : Box!Job \cup {None}]
  BY <1>1 DEF Box!Stage
<1>11. OneInHand'
  BY <1>1, <1>9, <1>10 DEF OneInHand, InHand, Preparing, Open
<1>12. OneGate'
  BY <1>0, <1>1, <1>9, <1>10 DEF OneGate, Preparing, Open
<1>13. RecordsAreItsOwn'
  <2>1. queue[j].ran = c /\ (AllowUnpublished \/ c \in repo.origin)
    BY <1>0, <1>2 DEF RecordsAreItsOwn, Spawned, PastTheCheck
  <2>2. \A i \in 1..Len(queue) : ~Snapped(i)' /\ ~Spawned(i)' /\ ~PastTheCheck(i)'
    BY <1>9, <1>10, NoneIsNoJob DEF Snapped, Spawned, PastTheCheck, InHand, Preparing
  <2>3. Box!ResultIsOfTheCommit'
    <3>1. \A i \in 1..Len(queue) : queue'[i].got # {} =>
            /\ queue'[i].got = {i} /\ queue'[i].ran = queue'[i].of
            /\ AllowUnpublished \/ queue'[i].of \in repo.origin
      BY <1>0, <1>4, <1>9, <2>1 DEF RecordsAreItsOwn, Box!ResultIsOfTheCommit
    <3> QED
      BY <1>1, <1>9, <3>1 DEF Box!ResultIsOfTheCommit
  <2>4. repo'.tracked \subseteq repo'.origin
    BY <1>0, <1>1 DEF RecordsAreItsOwn
  <2> QED
    BY <1>9, <2>2, <2>3, <2>4 DEF RecordsAreItsOwn, Snapped, Spawned, PastTheCheck
<1>14. BuildsAreOfTheCommit'
  BY <1>1, <1>9, <1>10, BuildsStay DEF InHand, Preparing
<1>15. BoxTypes'
  BY <1>0, <1>1, <1>8, <1>10 DEF BoxTypes, JobIsNow
<1> QED
  BY <1>11, <1>12, <1>13, <1>14, <1>15 DEF BoxInv

\* No job is open, so none has anything to lose.
LEMMA NoneIsOpen ==
  ASSUME BoxTypes, OneInHand, worker.at \in {"idle", "retain"}
  PROVE  \A i \in 1..Len(queue) : queue[i].state \notin {"begun", "running"} /\ worker.job # i
  BY NoneIsNoJob DEF OneInHand, InHand, Preparing, Open, BoxTypes

LEMMA RetainKeeps ==
  ASSUME BoxInv, Box!Retain
  PROVE  BoxInv'
<1>0. BoxTypes /\ OneInHand /\ OneGate /\ RecordsAreItsOwn /\ BuildsAreOfTheCommit
  BY DEF BoxInv
<1>1. PICK gone :
        /\ worker.at = "retain" /\ agent.up /\ Box!Goto("idle")
        /\ cache' = [c \in Commit |-> IF c \in gone THEN Box!NoBuild ELSE cache[c]]
        /\ tree' = [c \in Commit |-> IF c \in gone THEN None ELSE tree[c]]
        /\ file' = [c \in Commit |-> IF c \in gone THEN Box!NoRecords ELSE file[c]]
        /\ UNCHANGED <<agent, queue, repo, known, cargo, lock, target, proc, lease, spent, judged>>
  BY DEF Box!Retain, Box!At
<1>2. /\ worker'.at = "idle" /\ worker'.job = worker.job
      /\ worker' \in [at : Box!Stage, job : Box!Job \cup {None}]
  BY <1>0, <1>1, HandGoesOn DEF Box!Stage
<1>3. \A i \in 1..Len(queue) : queue[i].state \notin {"begun", "running"} /\ worker.job # i
  BY <1>0, <1>1, NoneIsOpen
<1>4. /\ Box!NoBuild \in [bin : Box!Binary, sha : Commit \cup {None}, hash : Box!Binary]
      /\ Box!NoBuild.sha = None /\ Box!NoBuild.hash = None
      /\ Box!NoRecords \in [Name -> Box!Job \cup {None}]
  BY DEF Box!NoBuild, Box!NoRecords, Box!Binary
<1>5. /\ cache' \in [Commit -> [bin : Box!Binary, sha : Commit \cup {None}, hash : Box!Binary]]
      /\ tree' \in [Commit -> Commit \cup {None}]
      /\ file' \in [Commit -> [Name -> Box!Job \cup {None}]]
  BY <1>0, <1>1, <1>4 DEF BoxTypes
<1>6. OneInHand' /\ OneGate'
  BY <1>0, <1>1, <1>2 DEF OneInHand, OneGate, InHand, Preparing, Open
<1>7. RecordsAreItsOwn'
  BY <1>0, <1>1, <1>2, <1>3
  DEF RecordsAreItsOwn, Snapped, Spawned, PastTheCheck, Box!ResultIsOfTheCommit
<1>8. \A c \in Commit : cache'[c].sha = c => cache'[c].hash = c
  BY <1>0, <1>1, <1>4 DEF BuildsAreOfTheCommit
<1>9. BuildsAreOfTheCommit'
  BY <1>0, <1>1, <1>2, <1>8 DEF BuildsAreOfTheCommit, InHand, Preparing
<1>10. BoxTypes'
  BY <1>0, <1>1, <1>2, <1>5 DEF BoxTypes
<1> QED
  BY <1>6, <1>7, <1>9, <1>10 DEF BoxInv

LEMMA ReleaseKeeps ==
  ASSUME BoxInv, Box!ReleaseIdleLease
  PROVE  BoxInv'
<1>0. BoxTypes /\ OneInHand /\ OneGate /\ RecordsAreItsOwn /\ BuildsAreOfTheCommit
  BY DEF BoxInv
<1>1. /\ proc' \subseteq proc /\ lease' = None
      /\ UNCHANGED <<agent, worker, queue, repo, tree, known, cargo, lock, target, cache, kept,
                     file, spent, judged>>
  BY DEF Box!ReleaseIdleLease, Box!builds
<1>2. OneInHand' /\ OneGate' /\ RecordsAreItsOwn' /\ BuildsAreOfTheCommit'
  BY <1>0, <1>1
  DEF OneInHand, OneGate, RecordsAreItsOwn, BuildsAreOfTheCommit, Open, Snapped, Spawned,
      PastTheCheck, Box!ResultIsOfTheCommit
<1>3. BoxTypes'
  BY <1>0, <1>1 DEF BoxTypes
<1> QED
  BY <1>2, <1>3 DEF BoxInv

-----------------------------------------------------------------------------
(* A job begins; an agent comes back *)

LEMMA LeastOfAny ==
  ASSUME NEW S \in SUBSET Nat, S # {}
  PROVE  \E j \in S : \A i \in S : j <= i
<1>1. PICK j \in S : \A i \in S : ~ (<<i, j>> \in OpToRel(<, Nat))
  BY NatLessThanWellFounded, WFMin
<1>2. ASSUME NEW i \in S PROVE j <= i
  <2>1. ~ (i < j)
    <3> SUFFICES ASSUME i < j PROVE <<i, j>> \in OpToRel(<, Nat)
      BY <1>1
    <3>1. <<i, j>> \in Nat \X Nat
      OBVIOUS
    <3> QED
      BY <3>1 DEF OpToRel
  <2> QED
    BY <2>1
<1> QED
  BY <1>2

LEMMA BeginKeeps ==
  ASSUME BoxInv, Box!Begin
  PROVE  BoxInv'
<1>0. BoxTypes /\ OneInHand /\ OneGate /\ RecordsAreItsOwn /\ BuildsAreOfTheCommit
  BY DEF BoxInv
<1>1. /\ worker.at = "idle" /\ agent.up /\ judged' = proc
      /\ UNCHANGED <<agent, repo, tree, known, cargo, lock, target, cache, kept,
                     proc, lease, file, spent>>
  BY DEF Box!Begin, Box!At, Box!builds, Box!box
<1>2. PICK j \in Box!Queued :
        /\ worker' = [at |-> "commit", job |-> j]
        /\ queue' = [queue EXCEPT ![j].state = "begun"]
  <2> DEFINE first == CHOOSE j \in Box!Queued : \A i \in Box!Queued : j <= i
  <2>1. Box!Queued # {} /\ Box!Queued \subseteq Nat
    BY DEF Box!Begin, Box!Queued
  <2>2. \E j \in Box!Queued : \A i \in Box!Queued : j <= i
    BY <2>1, LeastOfAny
  <2>3. first \in Box!Queued
    BY <2>2
  <2>4. worker' = [at |-> "commit", job |-> first] /\ queue' = [queue EXCEPT ![first].state = "begun"]
    BY DEF Box!Begin
  <2> HIDE DEF first
  <2> QED
    BY <2>3, <2>4
<1>3. j \in 1..Len(queue) /\ queue[j].state = "queued"
  BY DEF Box!Queued
<1>4. \A i \in 1..Len(queue) : queue[i].state \notin {"begun", "running"} /\ worker.job # i
  BY <1>0, <1>1, NoneIsOpen
<1> DEFINE r == [queue[j] EXCEPT !.state = "begun"]
<1>5. queue[j] \in Box!JobRecord /\ j \in Box!Job
  BY <1>0, <1>3, CommitOfAJob
<1>6. /\ r \in Box!JobRecord /\ r.of = queue[j].of /\ r.state = "begun"
      /\ r.before = queue[j].before /\ r.ran = queue[j].ran /\ r.got = queue[j].got
  BY <1>5 DEF Box!JobRecord
<1>7. queue' = [queue EXCEPT ![j] = r]
  BY <1>2
<1> HIDE DEF r
<1>8. JobIsNow(j, r)
  BY <1>0, <1>3, <1>6, <1>7, RecordSet DEF BoxTypes, JobIsNow
<1>9. /\ Len(queue') = Len(queue) /\ Len(queue) \in Nat
      /\ \A i \in 1..Len(queue) :
           /\ i # j => queue'[i] = queue[i]
           /\ queue'[i].of = queue[i].of /\ queue'[i].ran = queue[i].ran
           /\ queue'[i].got = queue[i].got
           /\ queue'[i].state # "running"
           /\ queue'[i].state = "begun" => i = j
      /\ queue'[j].state = "begun"
  BY <1>0, <1>4, <1>6, <1>8 DEF JobIsNow, BoxTypes
<1>10. /\ worker'.at = "commit" /\ worker'.job = j
       /\ worker' \in [at : Box!Stage, job : Box!Job \cup {None}]
  BY <1>2, <1>5 DEF Box!Stage
<1>11. OneInHand'
  BY <1>1, <1>3, <1>9, <1>10 DEF OneInHand, InHand, Preparing, Open
<1>12. /\ \A p \in proc : p.kind # "gate" /\ p.kind = "server" /\ p.owner = agent.n
  <2>1. PICK memory, disk \in Box!Reading : Box!Judge(memory, disk) = {}
    BY DEF Box!Begin
  <2>2. "gpu_app" \notin Box!Judge(memory, disk)
    BY <2>1
  <2>3. proc \ Box!Ours = {}
    BY <2>2 DEF Box!Judge
  <2>4. \A p \in Box!Ours : lease # None /\ p = lease.server /\ lease.owner = agent.n
    BY DEF Box!Ours
  <2> QED
    BY <1>0, <2>3, <2>4 DEF OneGate
<1>13. OneGate'
  BY <1>0, <1>1, <1>10, <1>12 DEF OneGate, Preparing
<1>14. RecordsAreItsOwn'
  BY <1>0, <1>1, <1>9, <1>10
  DEF RecordsAreItsOwn, Snapped, Spawned, PastTheCheck, Box!ResultIsOfTheCommit, InHand
<1>15. BuildsAreOfTheCommit'
  <2>1. \A b \in cargo :
          /\ b.by \in 1..Len(queue) /\ queue[b.by].state \in {"begun", "done"}
          /\ b.from = queue[b.by].of /\ b.by # worker.job /\ lock = b.by
    BY <1>0, <1>1 DEF BuildsAreOfTheCommit
  <2>2. \A b \in cargo' :
          /\ b.by \in 1..Len(queue') /\ queue'[b.by].state \in {"begun", "done"}
          /\ b.from = queue'[b.by].of /\ b.by # worker'.job /\ lock' = b.by
    BY <1>1, <1>3, <1>9, <1>10, <2>1
  <2>3. /\ lock' # None => \E b \in cargo' : b.by = lock'
        /\ cargo' # {} => lock' # None
        /\ "stop" \notin spent' => cargo' = {}
        /\ \A c \in Commit : cache'[c].sha = c => cache'[c].hash = c
    BY <1>0, <1>1, <2>1 DEF BuildsAreOfTheCommit
  <2> QED
    BY <1>10, <2>2, <2>3 DEF BuildsAreOfTheCommit
<1>16. BoxTypes'
  BY <1>0, <1>1, <1>8, <1>10 DEF BoxTypes, JobIsNow
<1> QED
  BY <1>11, <1>13, <1>14, <1>15, <1>16 DEF BoxInv

LEMMA RecoverKeeps ==
  ASSUME BoxInv, Box!Recover
  PROVE  BoxInv'
<1>0. BoxTypes /\ OneInHand /\ OneGate /\ RecordsAreItsOwn /\ BuildsAreOfTheCommit
  BY DEF BoxInv
<1>1. /\ worker.at = "recover" /\ agent.up
      /\ UNCHANGED <<agent, repo, tree, known, cargo, lock, target, cache, kept,
                     proc, lease, file, spent, judged>>
  BY DEF Box!Recover, Box!At, Box!builds, Box!box
<1>2. worker.job = None /\ Len(queue) \in Nat /\ "stop" \in spent
      /\ \A g \in proc : g.kind = "gate" => ~(agent.up /\ g.owner = agent.n)
  BY <1>0, <1>1 DEF OneInHand, InHand, Preparing, BoxTypes, BuildsAreOfTheCommit, OneGate
<1>3. \A b \in cargo :
        /\ b.by \in 1..Len(queue) /\ queue[b.by].state \in {"begun", "done"}
        /\ b.from = queue[b.by].of /\ lock = b.by /\ b.by # None
  BY <1>0, <1>2, NoneIsNoJob DEF BuildsAreOfTheCommit
<1>4. CASE Box!Unfinished = {} /\ Box!Goto("idle") /\ UNCHANGED queue
  <2>1. /\ worker'.at = "idle" /\ worker'.job = None
        /\ worker' \in [at : Box!Stage, job : Box!Job \cup {None}]
    BY <1>0, <1>2, <1>4, HandGoesOn DEF Box!Stage
  <2>2. \A i \in 1..Len(queue) : ~Open(i)
    BY <1>4 DEF Box!Unfinished, Open
  <2>3. OneInHand'
    BY <1>0, <1>1, <1>4, <2>1, <2>2 DEF OneInHand, InHand, Preparing, Open
  <2>4. OneGate'
    BY <1>0, <1>1, <1>4, <2>1 DEF OneGate, Preparing, Open
  <2>5. RecordsAreItsOwn'
    BY <1>0, <1>1, <1>2, <1>4, <2>1, NoneIsNoJob
    DEF RecordsAreItsOwn, Snapped, Spawned, PastTheCheck, Box!ResultIsOfTheCommit, InHand, Preparing
  <2>6. BuildsAreOfTheCommit'
    BY <1>0, <1>1, <1>2, <1>3, <1>4, <2>1 DEF BuildsAreOfTheCommit, InHand, Preparing
  <2>7. BoxTypes'
    BY <1>0, <1>1, <1>4, <2>1 DEF BoxTypes
  <2> QED
    BY <2>3, <2>4, <2>5, <2>6, <2>7 DEF BoxInv
<1>5. ASSUME NEW j \in Box!Unfinished, queue[j].state = "running",
             worker' = [at |-> "resume", job |-> j], UNCHANGED queue
      PROVE  BoxInv'
  <2>1. j \in 1..Len(queue) /\ Open(j)
    BY <1>5 DEF Box!Unfinished, Open
  <2>2. /\ worker'.at = "resume" /\ worker'.job = j /\ j \in Box!Job
        /\ worker' \in [at : Box!Stage, job : Box!Job \cup {None}]
    BY <1>0, <1>5, <2>1, CommitOfAJob DEF Box!Stage
  <2>3. OneInHand'
    BY <1>0, <1>1, <1>5, <2>1, <2>2 DEF OneInHand, InHand, Preparing, Open
  <2>4. OneGate'
    BY <1>0, <1>1, <1>5, <2>2 DEF OneGate, Preparing, Open
  <2>5. RecordsAreItsOwn'
    BY <1>0, <1>1, <1>2, <1>5, <2>1, <2>2
    DEF RecordsAreItsOwn, Snapped, Spawned, PastTheCheck, Box!ResultIsOfTheCommit
  <2>6. BuildsAreOfTheCommit'
    BY <1>0, <1>1, <1>2, <1>3, <1>5, <2>2 DEF BuildsAreOfTheCommit, InHand, Preparing
  <2>7. BoxTypes'
    BY <1>0, <1>1, <1>5, <2>2 DEF BoxTypes
  <2> QED
    BY <2>3, <2>4, <2>5, <2>6, <2>7 DEF BoxInv
<1>6. ASSUME NEW j \in Box!Unfinished, queue' = [queue EXCEPT ![j].state = "done"],
             UNCHANGED worker
      PROVE  BoxInv'
  <2> DEFINE r == [queue[j] EXCEPT !.state = "done"]
  <2>1. j \in 1..Len(queue) /\ Open(j)
    BY <1>6 DEF Box!Unfinished, Open
  <2>2. queue[j] \in Box!JobRecord
    BY <1>0, <2>1, CommitOfAJob
  <2>3. /\ r \in Box!JobRecord /\ r.of = queue[j].of /\ r.state = "done"
        /\ r.before = queue[j].before /\ r.ran = queue[j].ran /\ r.got = queue[j].got
    BY <2>2 DEF Box!JobRecord
  <2>4. queue' = [queue EXCEPT ![j] = r]
    BY <1>6
  <2> HIDE DEF r
  <2>5. JobIsNow(j, r)
    BY <1>0, <2>1, <2>3, <2>4, RecordSet DEF BoxTypes, JobIsNow
  <2>6. /\ Len(queue') = Len(queue)
        /\ \A i \in 1..Len(queue) :
             /\ i # j => queue'[i] = queue[i]
             /\ queue'[i].of = queue[i].of /\ queue'[i].before = queue[i].before
             /\ queue'[i].ran = queue[i].ran /\ queue'[i].got = queue[i].got
        /\ queue'[j].state = "done"
    BY <2>3, <2>5 DEF JobIsNow
  <2>7. OneInHand'
    BY <1>0, <1>1, <1>6, <2>6 DEF OneInHand, InHand, Preparing, Open
  <2>8. OneGate'
    BY <1>0, <1>1, <1>6, <2>6 DEF OneGate, Preparing, Open
  <2>9. RecordsAreItsOwn'
    BY <1>0, <1>1, <1>6, <2>6
    DEF RecordsAreItsOwn, Snapped, Spawned, PastTheCheck, Box!ResultIsOfTheCommit
  <2>10. BuildsAreOfTheCommit'
    BY <1>0, <1>1, <1>2, <1>3, <1>6, <2>6 DEF BuildsAreOfTheCommit, InHand, Preparing
  <2>11. BoxTypes'
    BY <1>0, <1>1, <1>6, <2>5 DEF BoxTypes, JobIsNow
  <2> QED
    BY <2>7, <2>8, <2>9, <2>10, <2>11 DEF BoxInv
<1> QED
  BY <1>4, <1>5, <1>6 DEF Box!Recover

LEMMA ResumeKeeps ==
  ASSUME BoxInv, Box!Resume
  PROVE  BoxInv'
<1>0. BoxTypes /\ OneInHand /\ OneGate /\ RecordsAreItsOwn /\ BuildsAreOfTheCommit
  BY DEF BoxInv
<1> DEFINE j == worker.job
<1>1. worker.at = "resume" /\ agent.up
  BY DEF Box!Resume, Box!At
<1>2. CASE Box!Fails
  BY <1>1, <1>2, FailsKeeps
<1>3. CASE ~Box!Fails
  <2>1. Box!Checkout /\ Box!Goto("wait") /\ UNCHANGED queue
    BY <1>3 DEF Box!Resume
  <2>2. j \in 1..Len(queue) /\ queue[j].state = "running" /\ Len(queue) \in Nat
        /\ "stop" \in spent
    BY <1>0, <1>1 DEF OneInHand, InHand, Preparing, BoxTypes, BuildsAreOfTheCommit
  <2>3. /\ tree' \in [Commit -> Commit \cup {None}]
        /\ file' \in [Commit -> [Name -> Box!Job \cup {None}]]
        /\ \A d \in Commit, m \in Name : file'[d][m] \in {None, file[d][m]}
        /\ UNCHANGED <<agent, repo, cargo, lock, target, cache, proc, lease, spent, judged>>
    BY <1>0, <2>1, <2>2, CheckedOut
  <2>4. /\ worker'.at = "wait" /\ worker'.job = worker.job
        /\ worker' \in [at : Box!Stage, job : Box!Job \cup {None}]
    BY <1>0, <2>1, HandGoesOn DEF Box!Stage
  <2>5. OneInHand'
    BY <1>0, <1>1, <2>1, <2>2, <2>3, <2>4 DEF OneInHand, InHand, Preparing, Open
  <2>6. OneGate'
    BY <1>0, <1>1, <2>1, <2>3, <2>4 DEF OneGate, Preparing, Open
  <2>7. RecordsAreItsOwn'
    <3>2. \A i \in 1..Len(queue) : queue[i].of \in Commit
      BY <1>0, CommitOfAJob
    <3>3. \A i \in 1..Len(queue) :
            Snapped(i)' => \A m \in Name : file'[queue[i].of][m] \in {None, queue[i].before[m], i}
      <4> SUFFICES ASSUME NEW i \in 1..Len(queue), Snapped(i)', NEW m \in Name
                   PROVE  file'[queue[i].of][m] \in {None, queue[i].before[m], i}
        OBVIOUS
      <4>1. file'[queue[i].of][m] \in {None, file[queue[i].of][m]}
        BY <2>3, <3>2
      <4>2. file[queue[i].of][m] \in {None, queue[i].before[m], i}
        BY <1>0, <1>1, <2>1, <2>4 DEF Snapped, RecordsAreItsOwn
      <4> QED
        BY <4>1, <4>2
    <3>4. \A i \in 1..Len(queue) :
            /\ Spawned(i)' => queue[i].ran = queue[i].of
            /\ PastTheCheck(i)' => AllowUnpublished \/ queue[i].of \in repo.origin
      <4>1. \A i \in 1..Len(queue) : Spawned(i)' => Spawned(i)
        BY <1>1, <2>1, <2>4 DEF Spawned
      <4>2. \A i \in 1..Len(queue) : PastTheCheck(i)' => PastTheCheck(i)
        BY <1>1, <2>1, <2>4 DEF PastTheCheck, InHand, Preparing
      <4> QED
        BY <1>0, <4>1, <4>2 DEF RecordsAreItsOwn
    <3>5. Len(queue') = Len(queue) /\ Box!ResultIsOfTheCommit'
      BY <1>0, <2>1, <2>3 DEF RecordsAreItsOwn, Box!ResultIsOfTheCommit
    <3> QED
      BY <1>0, <2>1, <2>3, <3>3, <3>4, <3>5
      DEF RecordsAreItsOwn, Snapped, Spawned, PastTheCheck
  <2>8. BuildsAreOfTheCommit'
    BY <1>1, <2>1, <2>2, <2>3, <2>4, BuildsStay
  <2>9. BoxTypes'
    BY <1>0, <2>1, <2>3, <2>4 DEF BoxTypes
  <2> QED
    BY <2>5, <2>6, <2>7, <2>8, <2>9 DEF BoxInv
<1> QED
  BY <1>2, <1>3

LEMMA StopKeeps ==
  ASSUME BoxInv, Box!Stop
  PROVE  BoxInv'
<1>0. BoxTypes /\ OneInHand /\ OneGate /\ RecordsAreItsOwn /\ BuildsAreOfTheCommit
  BY DEF BoxInv
<1>1. /\ agent.up /\ agent' = [agent EXCEPT !.up = FALSE]
      /\ worker' = [at |-> "down", job |-> None]
      /\ "stop" \in Faults \ spent /\ spent' = spent \cup {"stop"}
      /\ proc' \subseteq proc
      /\ (cargo' = {} /\ lock' = None) \/ (cargo' = cargo /\ lock' = lock)
      /\ UNCHANGED <<queue, repo, tree, known, target, cache, kept, lease, file, judged>>
  BY DEF Box!Stop, Box!Fault
<1>2. /\ worker'.at = "down" /\ worker'.job = None
      /\ worker' \in [at : Box!Stage, job : Box!Job \cup {None}]
      /\ agent'.up = FALSE /\ agent'.n = agent.n
      /\ agent' \in [n : Nat, up : BOOLEAN, how : Started]
  BY <1>0, <1>1 DEF Box!Stage, BoxTypes
<1>3. OneInHand'
  BY <1>0, <1>1, <1>2 DEF OneInHand, InHand, Preparing, Open
<1>4. OneGate'
  BY <1>0, <1>1, <1>2 DEF OneGate, Preparing, Open
<1>5. RecordsAreItsOwn'
  BY <1>0, <1>1, <1>2
  DEF RecordsAreItsOwn, Snapped, Spawned, PastTheCheck, Box!ResultIsOfTheCommit, InHand, Preparing
<1>6. \A b \in cargo :
        /\ b.by \in 1..Len(queue) /\ queue[b.by].state \in {"begun", "done"}
        /\ b.from = queue[b.by].of /\ lock = b.by /\ b.by # None
  <2>1. \A b \in cargo : b.by = worker.job
    BY <1>0, <1>1 DEF BuildsAreOfTheCommit
  <2>2. Len(queue) \in Nat
    BY <1>0 DEF BoxTypes
  <2> QED
    BY <1>0, <2>1, <2>2, NoneIsNoJob DEF BuildsAreOfTheCommit
<1>7. BuildsAreOfTheCommit'
  BY <1>0, <1>1, <1>2, <1>6 DEF BuildsAreOfTheCommit, InHand, Preparing
<1>8. BoxTypes'
  BY <1>0, <1>1, <1>2 DEF BoxTypes
<1> QED
  BY <1>3, <1>4, <1>5, <1>7, <1>8 DEF BoxInv

LEMMA StartKeeps ==
  ASSUME BoxInv, Box!Start
  PROVE  BoxInv'
<1>0. BoxTypes /\ OneInHand /\ OneGate /\ RecordsAreItsOwn /\ BuildsAreOfTheCommit
  BY DEF BoxInv
<1>1. /\ ~agent.up /\ agent' \in [n : {agent.n + 1}, up : {TRUE}, how : Started]
      /\ worker' = [at |-> "recover", job |-> None]
      /\ UNCHANGED <<queue, repo, tree, known, cargo, lock, target, cache, kept,
                     proc, lease, file, spent, judged>>
  BY DEF Box!Start, Box!builds, Box!box
<1>2. /\ worker'.at = "recover" /\ worker'.job = None
      /\ worker' \in [at : Box!Stage, job : Box!Job \cup {None}]
      /\ agent'.up = TRUE /\ agent'.n = agent.n + 1 /\ agent.n \in Nat
      /\ agent' \in [n : Nat, up : BOOLEAN, how : Started]
  <2>1. agent.n \in Nat
    BY <1>0 DEF BoxTypes
  <2>2. PICK h \in Started : agent' = [n |-> agent.n + 1, up |-> TRUE, how |-> h]
    BY <1>1
  <2>3. worker' \in [at : Box!Stage, job : Box!Job \cup {None}]
    BY <1>1 DEF Box!Stage
  <2> QED
    BY <1>1, <2>1, <2>2, <2>3
<1>3. worker.at = "down" /\ worker.job = None
  BY <1>0, <1>1 DEF OneInHand, InHand, Preparing
<1>4. OneInHand'
  BY <1>0, <1>1, <1>2, <1>3 DEF OneInHand, InHand, Preparing, Open
<1>5. OneGate'
  <2>1. lease # None => lease.owner \in Nat
    BY <1>0 DEF BoxTypes
  <2> QED
    BY <1>0, <1>1, <1>2, <2>1 DEF OneGate, Preparing, Open
<1>6. RecordsAreItsOwn'
  BY <1>0, <1>1, <1>2
  DEF RecordsAreItsOwn, Snapped, Spawned, PastTheCheck, Box!ResultIsOfTheCommit, InHand, Preparing
<1>7. BuildsAreOfTheCommit'
  BY <1>0, <1>1, <1>2, <1>3 DEF BuildsAreOfTheCommit, InHand, Preparing
<1>8. BoxTypes'
  BY <1>0, <1>1, <1>2 DEF BoxTypes
<1> QED
  BY <1>4, <1>5, <1>6, <1>7, <1>8 DEF BoxInv

LEMMA SubmitKeeps ==
  ASSUME BoxInv, NEW c \in Commit, Box!Submit(c)
  PROVE  BoxInv'
<1>0. BoxTypes /\ OneInHand /\ OneGate /\ RecordsAreItsOwn /\ BuildsAreOfTheCommit
  BY DEF BoxInv
<1> DEFINE r == [of |-> c, state |-> "queued", failed |-> None,
                 before |-> Box!NoRecords, ran |-> None, got |-> {}]
<1> PICK n : n = Len(queue) + 1
  OBVIOUS
<1>1. /\ Len(queue) < MaxJobs /\ queue' = Append(queue, r)
      /\ UNCHANGED <<agent, worker, repo, tree, known, cargo, lock, target, cache, kept,
                     proc, lease, file, spent, judged>>
  BY DEF Box!Submit, Box!builds, Box!box
<1>2. /\ r \in Box!JobRecord /\ r.state = "queued" /\ r.got = {}
  BY DEF Box!JobRecord, Box!NoRecords
<1> HIDE DEF r
<1>3. /\ Len(queue) \in Nat /\ Len(queue') = n /\ queue' \in Seq(Box!JobRecord)
      /\ queue'[n] = r /\ \A i \in 1..Len(queue) : queue'[i] = queue[i]
  BY <1>0, <1>1, <1>2 DEF BoxTypes
<1>4. \A i \in 1..Len(queue') : i \in 1..Len(queue) \/ (i = n /\ queue'[i] = r)
  BY <1>3
<1>5. worker.job # n
  BY <1>0, <1>3, NoneIsNoJob DEF OneInHand
<1>6. OneInHand'
  <2>1. \A i \in 1..Len(queue') : Open(i)' => i \in 1..Len(queue) /\ Open(i)
    BY <1>2, <1>3, <1>4 DEF Open
  <2>2. worker.at \in InHand =>
          /\ worker.job \in 1..Len(queue') /\ queue'[worker.job] = queue[worker.job]
    BY <1>0, <1>3 DEF OneInHand
  <2>3. worker.at \in Preparing \cup {"save", "resume", "wait", "collect"} => worker.at \in InHand
    BY DEF InHand
  <2> QED
    BY <1>0, <1>1, <2>1, <2>2, <2>3 DEF OneInHand
<1>7. OneGate'
  <2>1. \A i \in 1..Len(queue') : queue'[i].state \in {"begun", "running"} =>
          i \in 1..Len(queue) /\ Open(i)
    BY <1>2, <1>3, <1>4 DEF Open
  <2>2. \A i \in 1..Len(queue) : i \in 1..Len(queue')
    BY <1>3
  <2> QED
    BY <1>0, <1>1, <2>1, <2>2 DEF OneGate, Open
<1>8. RecordsAreItsOwn'
  <2>1. ~Snapped(n)' /\ ~Spawned(n)' /\ ~PastTheCheck(n)'
    BY <1>1, <1>2, <1>3, <1>5 DEF Snapped, Spawned, PastTheCheck
  <2>2. \A i \in 1..Len(queue') : (i \in 1..Len(queue) /\ queue'[i] = queue[i]) \/ i = n
    BY <1>3, <1>4
  <2>3. Box!ResultIsOfTheCommit'
    BY <1>0, <1>1, <1>2, <1>3, <2>2 DEF RecordsAreItsOwn, Box!ResultIsOfTheCommit
  <2> QED
    BY <1>0, <1>1, <2>1, <2>2, <2>3 DEF RecordsAreItsOwn, Snapped, Spawned, PastTheCheck
<1>9. BuildsAreOfTheCommit'
  <2>1. worker.at \in InHand => worker.job \in 1..Len(queue)
    BY <1>0 DEF OneInHand
  <2>2. \A b \in cargo : b.by \in 1..Len(queue') /\ queue'[b.by] = queue[b.by]
    BY <1>0, <1>3 DEF BuildsAreOfTheCommit
  <2> QED
    BY <1>0, <1>1, <1>3, <2>1, <2>2 DEF BuildsAreOfTheCommit
<1>10. BoxTypes'
  BY <1>0, <1>1, <1>3, NoneIsNoJob DEF BoxTypes
<1> QED
  BY <1>6, <1>7, <1>8, <1>9, <1>10 DEF BoxInv

-----------------------------------------------------------------------------
(* The gate, and what else happens to the box *)

\* Processes come and go under the worker, but no gate comes.
LEMMA ProcessesKeep ==
  ASSUME BoxInv, proc' \subseteq Box!Process,
         \A g \in proc' : g.kind = "gate" => g \in proc,
         \/ lease' = lease
         \/ /\ lease' \in [server : Box!Process, owner : Nat]
            /\ lease'.server.kind = "server" /\ lease'.server.owner = lease'.owner
            /\ lease'.owner <= agent.n
            /\ \A g \in proc' : g.kind = "gate" => lease'.owner <= g.owner,
         spent' \subseteq Faults, spent \subseteq spent',
         UNCHANGED <<agent, worker, queue, repo, tree, cargo, lock, target, cache, file, judged>>
  PROVE  BoxInv'
<1>0. BoxTypes /\ OneInHand /\ OneGate /\ RecordsAreItsOwn /\ BuildsAreOfTheCommit
  BY DEF BoxInv
<1>1. OneInHand' /\ RecordsAreItsOwn'
  BY <1>0 DEF OneInHand, RecordsAreItsOwn, Open, Snapped, Spawned, PastTheCheck,
              Box!ResultIsOfTheCommit
<1>2. BuildsAreOfTheCommit'
  BY <1>0 DEF BuildsAreOfTheCommit
<1>3. OneGate'
  BY <1>0 DEF OneGate, Open
<1>4. BoxTypes'
  BY <1>0 DEF BoxTypes
<1> QED
  BY <1>1, <1>2, <1>3, <1>4 DEF BoxInv

LEMMA GateServesKeeps ==
  ASSUME BoxInv, NEW g \in proc, g.kind = "gate", Box!GateServes(g)
  PROVE  BoxInv'
<1> DEFINE s == Box!Server(g.job, g.owner, g.bin)
<1>1. /\ proc' = (proc \ (IF lease = None THEN {} ELSE {lease.server})) \cup {s}
      /\ lease' = [server |-> s, owner |-> g.owner]
      /\ UNCHANGED <<agent, worker, queue, repo, tree, cargo, lock, target, cache, file,
                     spent, judged>>
  BY DEF Box!GateServes, Box!builds
<1>2. g.owner \in Nat /\ g.owner <= agent.n /\ \A h \in proc : h.kind = "gate" => g = h
  BY DEF BoxInv, OneGate
<1>3. s.kind = "server" /\ s.owner = g.owner /\ s \in Box!Process
  BY DEF Box!Server, Box!Process, BoxInv, BoxTypes
<1> HIDE DEF s
<1>4. /\ proc' \subseteq Box!Process
      /\ \A h \in proc' : h.kind = "gate" => h \in proc /\ h = g
  BY <1>1, <1>2, <1>3 DEF BoxInv, BoxTypes
<1>5. /\ lease'.server = s /\ lease'.owner = g.owner
      /\ lease' \in [server : Box!Process, owner : Nat]
  BY <1>1, <1>2, <1>3
<1>6. spent' \subseteq Faults
  BY <1>1 DEF BoxInv, BoxTypes
<1>7. \A h \in proc' : h.kind = "gate" => lease'.owner <= h.owner
  BY <1>2, <1>4, <1>5
<1> QED
  BY <1>1, <1>2, <1>3, <1>4, <1>5, <1>6, <1>7, ProcessesKeep

LEMMA GateWritesKeeps ==
  ASSUME BoxInv, NEW g \in proc, g.kind = "gate", Box!GateWrites(g)
  PROVE  BoxInv'
<1>0. BoxTypes /\ OneInHand /\ OneGate /\ RecordsAreItsOwn /\ BuildsAreOfTheCommit
  BY DEF BoxInv
<1> DEFINE c == queue[g.job].of
<1>1. PICK m \in Name :
        /\ file' = [file EXCEPT ![c][m] = g.job]
        /\ UNCHANGED <<agent, worker, queue, repo, tree, known, cargo, lock, target, cache, kept,
                       proc, lease, spent, judged>>
  BY DEF Box!GateWrites, Box!builds
<1>2. g.job \in 1..Len(queue) /\ \A i \in 1..Len(queue) : Open(i) => i = g.job
  BY <1>0 DEF OneGate
<1>3. c \in Commit /\ g.job \in Box!Job
  BY <1>0, <1>2, CommitOfAJob
<1> HIDE DEF c
<1>4. /\ file' \in [Commit -> [Name -> Box!Job \cup {None}]]
      /\ \A d \in Commit, x \in Name : file'[d][x] \in {file[d][x], g.job}
  <2>1. file \in [Commit -> [Name -> Box!Job \cup {None}]] /\ file[c] \in [Name -> Box!Job \cup {None}]
    BY <1>0, <1>3 DEF BoxTypes
  <2> DEFINE r == [file[c] EXCEPT ![m] = g.job]
  <2>2. r \in [Name -> Box!Job \cup {None}] /\ \A x \in Name : r[x] \in {file[c][x], g.job}
    BY <1>3, <2>1
  <2>3. file' = [file EXCEPT ![c] = r]
    BY <1>1
  <2> HIDE DEF r
  <2> QED
    BY <1>3, <2>1, <2>2, <2>3
<1>5. RecordsAreItsOwn'
  <2>1. \A i \in 1..Len(queue) : Snapped(i) => Open(i)
    BY <1>0 DEF Snapped, Open, OneInHand, Preparing
  <2>2. \A i \in 1..Len(queue) : queue[i].of \in Commit
    BY <1>0, CommitOfAJob
  <2>3. \A i \in 1..Len(queue) : Snapped(i) =>
          \A x \in Name : file'[queue[i].of][x] \in {None, queue[i].before[x], i}
    <3> SUFFICES ASSUME NEW i \in 1..Len(queue), Snapped(i), NEW x \in Name
                 PROVE  file'[queue[i].of][x] \in {None, queue[i].before[x], i}
      OBVIOUS
    <3>1. g.job = i
      BY <1>2, <2>1
    <3>2. file[queue[i].of][x] \in {None, queue[i].before[x], i}
      BY <1>0 DEF RecordsAreItsOwn
    <3> QED
      BY <1>4, <2>2, <3>1, <3>2
  <2> QED
    BY <1>0, <1>1, <2>3
    DEF RecordsAreItsOwn, Snapped, Spawned, PastTheCheck, Box!ResultIsOfTheCommit
<1>6. OneInHand' /\ OneGate'
  BY <1>0, <1>1 DEF OneInHand, OneGate, Open
<1>7. BuildsAreOfTheCommit'
  BY <1>0, <1>1 DEF BuildsAreOfTheCommit
<1>8. BoxTypes'
  BY <1>0, <1>1, <1>4 DEF BoxTypes
<1> QED
  BY <1>5, <1>6, <1>7, <1>8 DEF BoxInv

LEMMA OthersKeep ==
  ASSUME BoxInv,
         \/ \E g \in proc : Box!GateExits(g)
         \/ Box!ForeignComes \/ Box!ForeignGoes \/ Box!ServerDies
  PROVE  BoxInv'
<1>1. UNCHANGED <<agent, worker, queue, repo, tree, cargo, lock, target, cache, file, judged, lease>>
  BY DEF Box!GateExits, Box!ForeignComes, Box!ForeignGoes, Box!ServerDies, Box!builds
<1>2. spent \subseteq spent' /\ spent' \subseteq Faults
  BY DEF Box!GateExits, Box!ForeignComes, Box!ForeignGoes, Box!ServerDies, Box!Fault,
         BoxInv, BoxTypes
<1>3. Box!Foreign \in Box!Process /\ Box!Foreign.kind = "foreign"
  BY DEF Box!Foreign, Box!Process
<1>4. proc' \subseteq proc \cup {Box!Foreign}
  BY DEF Box!GateExits, Box!ForeignComes, Box!ForeignGoes, Box!ServerDies
<1>5. /\ proc' \subseteq Box!Process
      /\ \A g \in proc' : g.kind = "gate" => g \in proc
  BY <1>3, <1>4 DEF BoxInv, BoxTypes
<1> QED
  BY <1>1, <1>2, <1>5, ProcessesKeep

LEMMA PushKeeps ==
  ASSUME BoxInv, NEW c \in Commit, Box!Push(c)
  PROVE  BoxInv'
<1>0. BoxTypes /\ OneInHand /\ OneGate /\ RecordsAreItsOwn /\ BuildsAreOfTheCommit
  BY DEF BoxInv
<1>1. /\ repo' = [repo EXCEPT !.origin = @ \cup {c}]
      /\ UNCHANGED <<agent, worker, queue, tree, known, cargo, lock, target, cache, kept,
                     proc, lease, file, spent, judged>>
  BY DEF Box!Push, Box!builds, Box!box
<1>2. /\ repo' \in [local : SUBSET Commit, origin : SUBSET Commit, tracked : SUBSET Commit]
      /\ repo.origin \subseteq repo'.origin /\ repo'.tracked = repo.tracked
  BY <1>0, <1>1 DEF BoxTypes
<1>3. OneInHand' /\ OneGate'
  BY <1>0, <1>1 DEF OneInHand, OneGate, Open
<1>4. BuildsAreOfTheCommit'
  BY <1>0, <1>1 DEF BuildsAreOfTheCommit
<1>5. RecordsAreItsOwn'
  BY <1>0, <1>1, <1>2
  DEF RecordsAreItsOwn, Snapped, Spawned, PastTheCheck, Box!ResultIsOfTheCommit
<1>6. BoxTypes'
  BY <1>0, <1>1, <1>2 DEF BoxTypes
<1> QED
  BY <1>3, <1>4, <1>5, <1>6 DEF BoxInv

LEMMA OperatorKeeps ==
  ASSUME BoxInv, NEW c \in Commit, Box!Moved(c) \/ Box!Swapped(c)
  PROVE  BoxInv'
<1>0. BoxTypes /\ OneInHand /\ OneGate /\ RecordsAreItsOwn /\ BuildsAreOfTheCommit
  BY DEF BoxInv
<1>1. /\ worker.job = None /\ spent' \subseteq Faults /\ spent \subseteq spent'
      /\ UNCHANGED <<agent, worker, queue, repo, known, cargo, lock, target, kept,
                     proc, lease, file, judged>>
  BY <1>0 DEF Box!Moved, Box!Swapped, Box!Quiet, Box!Fault, Box!box, BoxTypes
<1>2. worker.at \notin InHand
  <2>1. Len(queue) \in Nat
    BY <1>0 DEF BoxTypes
  <2> QED
    BY <1>0, <1>1, <2>1, NoneIsNoJob DEF OneInHand
<1>3. tree' \in [Commit -> Commit \cup {None}]
  <2>1. CASE Box!Moved(c)
    <3>1. PICK d \in repo.local : tree' = [tree EXCEPT ![c] = d]
      BY <2>1 DEF Box!Moved
    <3> QED
      BY <1>0, <3>1 DEF BoxTypes
  <2>2. CASE Box!Swapped(c)
    BY <1>0, <2>2 DEF Box!Swapped, BoxTypes
  <2> QED
    BY <2>1, <2>2
<1> DEFINE B == [bin : Box!Binary, sha : Commit \cup {None}, hash : Box!Binary]
<1>4. cache \in [Commit -> B] /\ \A d \in Commit : cache[d].sha = d => cache[d].hash = d
  BY <1>0 DEF BoxTypes, BuildsAreOfTheCommit
<1>5. cache' \in [Commit -> B] /\ \A d \in Commit : cache'[d].sha = d => cache'[d].hash = d
  <2>1. CASE Box!Moved(c)
    BY <1>4, <2>1 DEF Box!Moved
  <2>2. CASE Box!Swapped(c)
    <3>1. PICK d \in Commit : \/ cache' = [cache EXCEPT ![c] = [bin |-> d, sha |-> d, hash |-> d]]
                              \/ cache' = [cache EXCEPT ![c].bin = d]
      BY <2>2 DEF Box!Swapped
    <3> DEFINE whole == [bin |-> d, sha |-> d, hash |-> d]
               alone == [cache[c] EXCEPT !.bin = d]
    <3>2. whole \in B /\ whole.sha = d /\ whole.hash = d
      BY DEF Box!Binary
    <3>3. alone \in B /\ alone.sha = cache[c].sha /\ alone.hash = cache[c].hash
      BY <1>4 DEF Box!Binary
    <3>4. cache' = [cache EXCEPT ![c] = whole] \/ cache' = [cache EXCEPT ![c] = alone]
      BY <1>4, <3>1
    <3> HIDE DEF B, whole, alone
    <3> QED
      BY <1>4, <3>2, <3>3, <3>4
  <2> QED
    BY <2>1, <2>2
<1>6. OneInHand' /\ OneGate'
  BY <1>0, <1>1 DEF OneInHand, OneGate, Open
<1>7. RecordsAreItsOwn'
  BY <1>0, <1>1 DEF RecordsAreItsOwn, Snapped, Spawned, PastTheCheck, Box!ResultIsOfTheCommit
<1>8. BuildsAreOfTheCommit'
  BY <1>0, <1>1, <1>2, <1>5 DEF BuildsAreOfTheCommit
<1>9. BoxTypes'
  BY <1>0, <1>1, <1>3, <1>5 DEF BoxTypes
<1> QED
  BY <1>6, <1>7, <1>8, <1>9 DEF BoxInv

LEMMA StillKeeps ==
  ASSUME BoxInv, UNCHANGED Box!vars
  PROVE  BoxInv'
<1>0. BoxTypes /\ OneInHand /\ OneGate /\ RecordsAreItsOwn /\ BuildsAreOfTheCommit
  BY DEF BoxInv
<1>1. UNCHANGED <<agent, worker, queue, repo, tree, known, cargo, lock, target, cache, kept,
                  proc, lease, file, spent, judged>>
  BY DEF Box!vars, Box!builds, Box!box
<1>2. OneInHand' /\ OneGate'
  BY <1>0, <1>1 DEF OneInHand, OneGate, Open
<1>3. RecordsAreItsOwn'
  BY <1>0, <1>1 DEF RecordsAreItsOwn, Snapped, Spawned, PastTheCheck, Box!ResultIsOfTheCommit
<1>4. BuildsAreOfTheCommit'
  BY <1>0, <1>1 DEF BuildsAreOfTheCommit
<1>5. BoxTypes'
  BY <1>0, <1>1 DEF BoxTypes
<1> QED
  BY <1>2, <1>3, <1>4, <1>5 DEF BoxInv

LEMMA BoxInvInit == Box!Init => BoxInv
<1> SUFFICES ASSUME Box!Init PROVE BoxInv
  OBVIOUS
<1>1. /\ agent.up = TRUE /\ agent.n = 1 /\ agent \in [n : {1}, up : {TRUE}, how : Started]
      /\ worker = [at |-> "idle", job |-> None] /\ worker.at = "idle" /\ worker.job = None
      /\ queue = <<>> /\ Len(queue) = 0 /\ tree = [c \in Commit |-> None]
      /\ cargo = {} /\ lock = None /\ target = None
      /\ proc = {} /\ lease = None /\ spent = {} /\ judged = {}
      /\ cache = [c \in Commit |-> Box!NoBuild]
      /\ file = [c \in Commit |-> [m \in Name |-> None]]
  BY DEF Box!Init, Box!NoRecords
<1>2. PICK mine \in SUBSET Commit : repo = [local |-> mine, origin |-> {}, tracked |-> {}]
  BY DEF Box!Init
<1>3. MaxJobs \in Nat \ {0}
  BY BoxAssumption DEF Box!BoxAssumption
<1>4. BoxTypes
  <2>1. agent \in [n : Nat, up : BOOLEAN, how : Started]
    <3>1. PICK h \in Started : agent = [n |-> 1, up |-> TRUE, how |-> h]
      BY <1>1
    <3> QED
      BY <3>1
  <2>2. worker \in [at : Box!Stage, job : Box!Job \cup {None}]
    BY <1>1 DEF Box!Stage
  <2>3. queue \in Seq(Box!JobRecord) /\ Len(queue) <= MaxJobs
    BY <1>1, <1>3
  <2>4. repo \in [local : SUBSET Commit, origin : SUBSET Commit, tracked : SUBSET Commit]
    BY <1>2
  <2>5. cache \in [Commit -> [bin : Box!Binary, sha : Commit \cup {None}, hash : Box!Binary]]
    BY <1>1 DEF Box!NoBuild, Box!Binary
  <2>6. file \in [Commit -> [Name -> Box!Job \cup {None}]]
    BY <1>1
  <2> QED
    BY <1>1, <2>1, <2>2, <2>3, <2>4, <2>5, <2>6 DEF BoxTypes
<1>5. worker.at \notin InHand /\ 1..Len(queue) = {}
  BY <1>1 DEF InHand, Preparing
<1>6. OneInHand
  BY <1>1, <1>5 DEF OneInHand, InHand
<1>7. OneGate
  BY <1>1, <1>5 DEF OneGate, InHand
<1>8. RecordsAreItsOwn
  BY <1>1, <1>2, <1>5 DEF RecordsAreItsOwn, Box!ResultIsOfTheCommit
<1>9. BuildsAreOfTheCommit
  <2>1. \A c \in Commit : cache[c].sha = None /\ cache[c].hash = None
    BY <1>1 DEF Box!NoBuild
  <2> QED
    BY <1>1, <1>5, <2>1 DEF BuildsAreOfTheCommit
<1> QED
  BY <1>4, <1>6, <1>7, <1>8, <1>9 DEF BoxInv

LEMMA BoxInvNext == BoxInv /\ [Box!Next]_(Box!vars) => BoxInv'
<1> SUFFICES ASSUME BoxInv, [Box!Next]_(Box!vars) PROVE BoxInv'
  OBVIOUS
<1>1. CASE UNCHANGED Box!vars
  BY <1>1, StillKeeps
<1>2. CASE Box!WorkerNext
  <2>1. CASE Box!Begin \/ Box!HasCommit \/ Box!Fetch \/ Box!Published \/ Box!Worktree
    BY <2>1, BeginKeeps, HasCommitKeeps, FetchKeeps, PublishedKeeps, WorktreeKeeps
  <2>2. CASE Box!LookInCache \/ Box!StartBuild \/ Box!KillBuild \/ Box!BeginCopy
    BY <2>2, LookInCacheKeeps, StartBuildKeeps, KillBuildKeeps, BeginCopyKeeps
  <2>3. CASE Box!EndCopy \/ Box!WriteProvenance \/ Box!CheckGate \/ Box!Snapshot \/ Box!Spawn
    BY <2>3, EndCopyKeeps, WriteProvenanceKeeps, CheckGateKeeps, SnapshotKeeps, SpawnKeeps
  <2>4. CASE Box!SaveChild \/ Box!Wait \/ Box!Collect \/ Box!Retain
    BY <2>4, SaveChildKeeps, WaitKeeps, CollectKeeps, RetainKeeps
  <2>5. CASE Box!ReleaseIdleLease \/ Box!Recover \/ Box!Resume
    BY <2>5, ReleaseKeeps, RecoverKeeps, ResumeKeeps
  <2> QED
    BY <1>2, <2>1, <2>2, <2>3, <2>4, <2>5 DEF Box!WorkerNext
<1>3. CASE Box!Stop \/ Box!Start
  BY <1>3, StopKeeps, StartKeeps
<1>4. CASE \E b \in cargo : Box!CargoEnds(b)
  BY <1>4, CargoEndsKeeps
<1>5. CASE \E g \in {p \in proc : p.kind = "gate"} :
             Box!GateServes(g) \/ Box!GateWrites(g) \/ Box!GateExits(g)
  BY <1>5, GateServesKeeps, GateWritesKeeps, OthersKeep
<1>6. CASE \E c \in Commit : Box!Submit(c) \/ Box!Push(c) \/ Box!Moved(c) \/ Box!Swapped(c)
  BY <1>6, SubmitKeeps, PushKeeps, OperatorKeeps
<1>7. CASE Box!ForeignComes \/ Box!ForeignGoes \/ Box!ServerDies
  BY <1>7, OthersKeep
<1> QED
  BY <1>1, <1>2, <1>3, <1>4, <1>5, <1>6, <1>7 DEF Box!Next

LEMMA BoxInvHolds == Box!Spec => []BoxInv
  BY BoxInvInit, BoxInvNext, PTL DEF Box!Spec

\* What a job hands back was written by its own gate, which was started from a
\* binary of the job's commit, and the commit was published: whatever earlier
\* jobs, a stop of the agent or the operator left in the worktree, the target
\* directory and the cache.
THEOREM ResultsAreOfTheCommit == Box!Spec => []ResultIsOfTheCommit
<1>1. BoxInv => ResultIsOfTheCommit
  BY DEF BoxInv, RecordsAreItsOwn, ResultIsOfTheCommit
<1> QED
  BY <1>1, BoxInvHolds, PTL

LEMMA GatesAreAlone == BoxInv => Box!GateAlone
<1> SUFFICES ASSUME BoxInv,
                    NEW g \in proc, g.kind = "gate", NEW p \in proc \ {g}
             PROVE  p.kind # "gate" /\ (p \in judged => p.kind = "server" /\ p.owner = g.owner)
  BY DEF Box!GateAlone
<1> QED
  BY DEF BoxInv, OneGate

\* Only an agent with nothing to do gives its lease back.
LEMMA LeaseGoesIdle ==
  ASSUME BoxInv, [Box!Next]_(Box!vars), lease # None, lease' = None
  PROVE  \A p \in proc : p.kind # "gate"
<1>1. Box!ReleaseIdleLease
  <2>1. lease' # lease
    OBVIOUS
  <2>2. \A g \in {p \in proc : p.kind = "gate"} : ~Box!GateServes(g)
    <3> SUFFICES ASSUME NEW g \in proc, g.kind = "gate", Box!GateServes(g) PROVE FALSE
      OBVIOUS
    <3>1. lease' = [server |-> Box!Server(g.job, g.owner, g.bin), owner |-> g.owner]
      BY DEF Box!GateServes
    <3>2. g.owner \in Nat /\ Box!Server(g.job, g.owner, g.bin) \in Box!Process
      BY DEF BoxInv, BoxTypes, OneGate, Box!Server, Box!Process
    <3> QED
      BY <3>1, <3>2, BoxAssumption DEF Box!BoxAssumption
  <2> QED
    BY <2>1, <2>2
    DEF Box!Next, Box!WorkerNext, Box!vars, Box!builds, Box!box, Box!Fails, Box!Checkout,
        Box!Begin, Box!HasCommit, Box!Fetch, Box!Published, Box!Worktree, Box!LookInCache,
        Box!StartBuild, Box!KillBuild, Box!BeginCopy, Box!EndCopy, Box!WriteProvenance,
        Box!CheckGate, Box!Snapshot, Box!Spawn, Box!SaveChild, Box!Wait, Box!Collect,
        Box!Retain, Box!Recover, Box!Resume, Box!Stop, Box!Start, Box!CargoEnds,
        Box!GateWrites, Box!GateExits, Box!Submit, Box!Push, Box!Moved, Box!Swapped,
        Box!ForeignComes, Box!ForeignGoes, Box!ServerDies
<1>2. /\ agent.up /\ worker.at = "idle" /\ lease.owner = agent.n
  BY <1>1 DEF Box!ReleaseIdleLease, Box!At, Box!Ours
<1> SUFFICES ASSUME NEW g \in proc, g.kind = "gate" PROVE FALSE
  OBVIOUS
<1>3. /\ g.owner \in Nat /\ g.owner <= agent.n /\ lease.owner <= g.owner
      /\ g.owner # agent.n
  BY <1>2 DEF BoxInv, OneGate
<1>4. agent.n \in Nat
  BY DEF BoxInv, BoxTypes
<1> QED
  BY <1>2, <1>3, <1>4

\* A gate has the box as it was found for it: in no state does anything the
\* worker saw when it judged the box run beside a gate, but for the server the
\* gate may be using, and no step ends that server's lease under a gate.
THEOREM GatesHaveTheBox == Box!Spec => GateHasTheBox
<1>1. BoxInv /\ [Box!Next]_(Box!vars) =>
        [/\ Box!GateAlone'
         /\ lease # None /\ lease' = None => \A p \in proc : p.kind # "gate"]_(Box!vars)
  <2> SUFFICES ASSUME BoxInv, [Box!Next]_(Box!vars)
               PROVE  /\ Box!GateAlone'
                      /\ lease # None /\ lease' = None => \A p \in proc : p.kind # "gate"
    OBVIOUS
  <2>1. Box!GateAlone'
    BY BoxInvNext, GatesAreAlone, PTL
  <2> QED
    BY <2>1, LeaseGoesIdle
<1> QED
  BY <1>1, BoxInvHolds, PTL DEF Box!Spec, GateHasTheBox, Box!GateHasTheBox
=============================================================================
