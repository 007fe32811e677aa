------------------------------ MODULE BenchBox ------------------------------
(***************************************************************************)
(* The machine under a bench job: the checkout and its remote, worktrees,  *)
(* builds, the cache of binaries, the records a gate writes, and the       *)
(* processes on the box, among them the server one gate may leave running  *)
(* for the next (crates/atlasctl-agent/src/bench).  What a job is on disk  *)
(* and how requests reach it is the subject of BenchQueue; here jobs come  *)
(* in order, one worker runs them, and what matters is whose binary ran    *)
(* and beside what.                                                        *)
(*                                                                         *)
(* A binary is the commit it was built from.  The operator may reset a     *)
(* worktree or replace a cached binary while no job is in hand.            *)
(***************************************************************************)
EXTENDS Naturals, Sequences, FiniteSets, SequencesExt

CONSTANTS None,       \* no value
          Commit,     \* commits of the benchmarked repository
          Name,       \* names a gate gives its records
          Started,    \* how an agent may be started: "by_hand", "as_service"
          Faults,     \* what goes wrong, each of it once
          MaxFaults,  \* BOUND: how much of it in one behaviour
          ServeReuse, AllowUnpublished, KeepBuilds,   \* bench.yaml
          MaxJobs     \* BOUND: jobs submitted

Job == 1..MaxJobs

\* What may hold the GPU.
Process == [kind : {"gate", "server", "foreign"}, job : Job \cup {None},
            owner : Nat \cup {None}, bin : Commit \cup {None}]

BoxAssumption ==
  /\ Started \subseteq {"by_hand", "as_service"}
  /\ Faults \subseteq {"stop", "foreign", "moved", "swapped", "server_dies"}
  /\ ServeReuse \in BOOLEAN /\ AllowUnpublished \in BOOLEAN
  /\ KeepBuilds \in Nat /\ MaxFaults \in Nat /\ MaxJobs \in Nat \ {0}
  /\ None \notin Nat \cup [server : Process, owner : Nat]

VARIABLES
  agent,    \* the process: its pid's incarnation, whether it is up, how it was started
  worker,   \* the stage the worker stands at and the job in hand
  job,      \* the jobs, in the order they came, as their records on disk hold them
  repo,     \* the checkout: commits it has, those at the remote, those its tracking refs reach
  tree,     \* [Commit -> what worktrees/<sha> has checked out, or None]
  known,    \* the worktrees git has in its books
  cargo,    \* builds that run: whose, and what they compile
  lock,     \* the job whose build holds cargo's lock of the target directory
  target,   \* target/release/spark
  cache,    \* [Commit -> build/<sha>: the binary and its provenance]
  kept,     \* the cached binaries, newest first
  proc,     \* processes that hold the GPU: gates, servers, what is not ours
  lease,    \* serve-lease.json: the server it names and its owner, or None
  file,     \* [Commit -> [Name -> the job that wrote the record last, or None]]
  spent,    \* faults that have been
  judged    \* history: what ran when the worker found the box free

builds == <<tree, known, cargo, lock, target, cache, kept>>
box    == <<proc, lease, file>>
vars   == <<agent, worker, job, repo, builds, box, spent, judged>>

Stage == {"down", "recover", "idle", "commit", "fetch", "published", "tree",
          "cache", "build", "cargo", "copy", "copying", "provenance", "check", "snapshot",
          "spawn", "save", "resume", "wait", "collect", "retain"}

\* A job's record: what it is for, how far it is, the stage it failed at, and
\* what the record directory held before its gate ran.  `ran` and `got` are
\* history: the binary its gate was started from, and whose records were handed
\* back as its own.
JobRecord ==
  [of : Commit, state : {"queued", "begun", "running", "done"},
   failed : Stage \cup {None},
   before : [Name -> Job \cup {None}],
   ran : Commit \cup {None}, got : SUBSET Job]

Gate(j, n, b)   == [kind |-> "gate",   job |-> j, owner |-> n, bin |-> b]
Server(j, n, b) == [kind |-> "server", job |-> j, owner |-> n, bin |-> b]
Foreign         == [kind |-> "foreign", job |-> None, owner |-> None, bin |-> None]

NoBuild   == [bin |-> None, sha |-> None, hash |-> None]
NoRecords == [m \in Name |-> None]

Init ==
  /\ agent \in [n : {1}, up : {TRUE}, how : Started]
  /\ worker = [at |-> "idle", job |-> None]
  /\ job = <<>>
  /\ \E mine \in SUBSET Commit : repo = [local |-> mine, origin |-> {}, tracked |-> {}]
  /\ tree = [c \in Commit |-> None] /\ known = {}
  /\ cargo = {} /\ lock = None /\ target = None
  /\ cache = [c \in Commit |-> NoBuild]
  /\ kept = <<>>
  /\ proc = {} /\ lease = None
  /\ file = [c \in Commit |-> NoRecords]
  /\ spent = {}
  /\ judged = {}

-----------------------------------------------------------------------------
(* What the worker reads of the box: exclusive.rs, lease.rs *)

\* Mutant: whoever owns it.
OursOfAnyOwner == IF lease # None /\ lease.server \in proc THEN {lease.server} ELSE {}

\* The leased server this agent owns and that is alive.
Ours == IF lease # None /\ lease.server \in proc /\ lease.owner = agent.n
        THEN {lease.server} ELSE {}

\* Memory and disk have room, have too little, or cannot be read.
Reading == {"room", "short", "unread"}

\* Mutant: with a leased server of ours, nothing that runs is in the way.
JudgeExemptsAll(memory, disk) ==
  {why \in {"job", "spark", "memory", "disk"} :
     \/ why = "job"     /\ worker.job # None
     \/ why = "spark"   /\ Ours = {} /\ proc # {}
     \/ why = "memory"  /\ Ours = {} /\ memory # "room"
     \/ why = "disk"    /\ disk # "room"}

\* Every reason not to start.  A leased server of ours is not in the way, nor
\* is the memory it holds.
Judge(memory, disk) ==
  {why \in {"job", "spark", "gpu_app", "memory", "disk"} :
     \/ why = "job"     /\ worker.job # None
     \/ why = "spark"   /\ {p \in proc : p.kind # "foreign"} \ Ours # {}
     \/ why = "gpu_app" /\ proc \ Ours # {}
     \/ why = "memory"  /\ memory \in {"unread"} \cup (IF Ours = {} THEN {"short"} ELSE {})
     \/ why = "disk"    /\ disk # "room"}

-----------------------------------------------------------------------------
(* The worker: runner.rs, machine.rs, ports_std.rs *)

j0 == worker.job
c0 == job[j0].of

At(s) == agent.up /\ worker.at = s
Goto(s) == worker' = [worker EXCEPT !.at = s]

\* machine::finish: the job is over, here by failing where the worker stands,
\* and retention follows.
Finish ==
  /\ job' = [job EXCEPT ![j0].state = "done", ![j0].failed = worker.at]
  /\ worker' = [at |-> "retain", job |-> None]

Fails == Finish /\ UNCHANGED <<agent, repo, builds, box, spent, judged>>

Queued == {j \in 1..Len(job) : job[j].state = "queued"}

Begin ==
  /\ At("idle") /\ Queued # {}
  /\ \E memory, disk \in Reading : Judge(memory, disk) = {}
  /\ LET j == CHOOSE j \in Queued : \A i \in Queued : j <= i
     IN /\ worker' = [at |-> "commit", job |-> j]
        /\ job' = [job EXCEPT ![j].state = "begun"]
  /\ judged' = proc
  /\ UNCHANGED <<agent, repo, builds, box, spent>>

HasCommit ==
  /\ At("commit")
  /\ Goto(IF c0 \in repo.local THEN "published" ELSE "fetch")
  /\ UNCHANGED <<agent, job, repo, builds, box, spent, judged>>

\* git fetch, and the second look for the commit.  The tracking refs are what
\* the remote had then.
Fetch ==
  /\ At("fetch")
  /\ \/ /\ repo' = [repo EXCEPT !.local = @ \cup repo.origin, !.tracked = repo.origin]
        /\ IF c0 \in repo'.local THEN Goto("published") /\ UNCHANGED job ELSE Finish
        /\ UNCHANGED <<agent, builds, box, spent, judged>>
     \/ Fails

\* Whether a tracking ref reaches the commit: as of the last fetch.
Published ==
  /\ At("published")
  /\ IF AllowUnpublished \/ c0 \in repo.tracked
     THEN Goto("tree") /\ UNCHANGED <<agent, job, repo, builds, box, spent, judged>>
     ELSE Fails

\* git worktree add refuses a path it has in its books and cannot find.
Addable(c) == tree[c] # None \/ c \notin known

\* The commit's worktree: kept if it is there and on the commit, otherwise
\* removed, with the records in it, and added again.
Checkout ==
  /\ tree' = [tree EXCEPT ![c0] = c0]
  /\ known' = known \cup {c0}
  /\ file' = [file EXCEPT ![c0] = IF tree[c0] = c0 THEN @ ELSE NoRecords]
  /\ UNCHANGED <<agent, repo, cargo, lock, target, cache, kept, proc, lease, spent, judged>>

Worktree ==
  /\ At("tree")
  /\ IF Addable(c0) THEN Checkout /\ Goto("cache") /\ UNCHANGED job ELSE Fails

\* Mutant: the provenance is believed.
HitUnhashed(c) == cache[c].bin # None /\ cache[c].sha = c

\* The provenance names this commit and the binary hashes to what it says.
Hit(c) ==
  /\ cache[c].bin # None
  /\ cache[c].sha = c
  /\ cache[c].hash = cache[c].bin

LookInCache ==
  /\ At("cache")
  /\ Goto(IF Hit(c0) THEN "check" ELSE "build")
  /\ UNCHANGED <<agent, job, repo, builds, box, spent, judged>>

StartBuild ==
  /\ At("build")
  /\ cargo' = cargo \cup {[by |-> j0, from |-> tree[c0]]}
  /\ lock' = IF lock = None THEN j0 ELSE lock
  /\ Goto("cargo")
  /\ UNCHANGED <<agent, job, repo, tree, known, target, cache, kept, box, spent, judged>>

\* Cargo ends, well or not, and lets go of the lock to any other that waits.
\* The worker sees the status of its own child only.
LetGo(b) ==
  /\ cargo' = cargo \ {b}
  /\ IF lock # b.by THEN UNCHANGED lock
     ELSE lock' \in {w.by : w \in cargo'} \cup (IF cargo' = {} THEN {None} ELSE {})

CargoEnds(b) ==
  /\ lock = b.by
  /\ LetGo(b)
  /\ \E good \in BOOLEAN :
       /\ target' = IF good THEN b.from ELSE target
       /\ IF At("cargo") /\ j0 = b.by
          THEN IF good THEN Goto("copy") /\ UNCHANGED job ELSE Finish
          ELSE UNCHANGED <<worker, job>>
  /\ UNCHANGED <<agent, repo, tree, known, cache, kept, box, spent, judged>>

\* A cancel, or the build's time limit.
KillBuild ==
  /\ At("cargo")
  /\ \E b \in cargo : b.by = j0 /\ LetGo(b)
  /\ Finish
  /\ UNCHANGED <<agent, repo, tree, known, target, cache, kept, box, spent, judged>>

\* fs::copy: what a stop leaves of it is no commit's binary, under whatever
\* provenance was there before.
BeginCopy ==
  /\ At("copy")
  /\ cache' = [cache EXCEPT ![c0].bin = "partial"]
  /\ kept' = <<c0>> \o SelectSeq(kept, LAMBDA c : c # c0)
  /\ Goto("copying")
  /\ UNCHANGED <<agent, job, repo, tree, known, cargo, lock, target, box, spent, judged>>

EndCopy ==
  /\ At("copying")
  /\ cache' = [cache EXCEPT ![c0].bin = target]
  /\ Goto("provenance")
  /\ UNCHANGED <<agent, job, repo, tree, known, cargo, lock, target, kept, box, spent, judged>>

WriteProvenance ==
  /\ At("provenance")
  /\ cache' = [cache EXCEPT ![c0].sha = c0, ![c0].hash = cache[c0].bin]
  /\ Goto("check")
  /\ UNCHANGED <<agent, job, repo, tree, known, cargo, lock, target, kept, box, spent, judged>>

\* The binary is asked for its recipes, its gates and their parameters.
CheckGate ==
  /\ At("check")
  /\ \/ Goto("snapshot") /\ UNCHANGED <<agent, job, repo, builds, box, spent, judged>>
     \/ Fails

\* What the record directory holds before the gate runs.
Snapshot ==
  /\ At("snapshot")
  /\ job' = [job EXCEPT ![j0].before = file[c0]]
  /\ Goto("spawn")
  /\ UNCHANGED <<agent, repo, builds, box, spent, judged>>

Spawn ==
  /\ At("spawn")
  /\ proc' = proc \cup {Gate(j0, agent.n, cache[c0].bin)}
  /\ job' = [job EXCEPT ![j0].ran = cache[c0].bin]
  /\ Goto("save")
  /\ UNCHANGED <<agent, repo, builds, lease, file, spent, judged>>

SaveChild ==
  /\ At("save")
  /\ job' = [job EXCEPT ![j0].state = "running"]
  /\ Goto("wait")
  /\ UNCHANGED <<agent, repo, builds, box, spent, judged>>

GateOf(j) == {p \in proc : p.kind = "gate" /\ p.job = j}

\* The gate is over, or is ended: cancelled, out of time, or silent too long.
Wait ==
  /\ At("wait")
  /\ \/ GateOf(j0) = {} /\ Goto("collect") /\ UNCHANGED <<job, proc>>
     \/ GateOf(j0) # {} /\ proc' = proc \ GateOf(j0) /\ Finish
  /\ UNCHANGED <<agent, repo, builds, lease, file, spent, judged>>

\* records::collect: what is there now and was not, or not like that, before.
New(j) == {m \in Name : file[job[j].of][m] \notin {None, job[j].before[m]}}

Collect ==
  /\ At("collect")
  /\ job' = [job EXCEPT ![j0].state = "done",
                        ![j0].got = {file[c0][m] : m \in New(j0)}]
  /\ worker' = [at |-> "retain", job |-> None]
  /\ UNCHANGED <<agent, repo, builds, box, spent, judged>>

\* runner::retain: all but the newest builds go, with their worktrees; git's
\* books keep them.
Retain ==
  /\ At("retain")
  /\ LET gone == {kept[i] : i \in KeepBuilds + 1 .. Len(kept)}
     IN /\ cache' = [c \in Commit |-> IF c \in gone THEN NoBuild ELSE cache[c]]
        /\ tree' = [c \in Commit |-> IF c \in gone THEN None ELSE tree[c]]
        /\ file' = [c \in Commit |-> IF c \in gone THEN NoRecords ELSE file[c]]
        /\ kept' = SelectSeq(kept, LAMBDA c : c \notin gone)
  /\ Goto("idle")
  /\ UNCHANGED <<agent, job, repo, known, cargo, lock, target, proc, lease, spent, judged>>

\* The queue has been empty for serve_release_after_s.
ReleaseIdleLease ==
  /\ At("idle") /\ Queued = {} /\ Ours # {}
  /\ proc' = proc \ Ours
  /\ lease' = None
  /\ UNCHANGED <<agent, worker, job, repo, builds, file, spent, judged>>

-----------------------------------------------------------------------------
(* Recovery: runner.rs recover, machine/resume.rs *)

Unfinished == {j \in 1..Len(job) : job[j].state \in {"begun", "running"}}

\* A job whose saved gate is still that process is waited for, in its worktree;
\* any other is orphaned.
Recover ==
  /\ At("recover")
  /\ \/ Unfinished = {} /\ Goto("idle") /\ UNCHANGED job
     \/ \E j \in Unfinished :
          IF job[j].state = "running" /\ GateOf(j) # {}
          THEN worker' = [at |-> "resume", job |-> j] /\ UNCHANGED job
          ELSE job' = [job EXCEPT ![j].state = "done"] /\ UNCHANGED worker
  /\ UNCHANGED <<agent, repo, builds, box, spent, judged>>

Resume ==
  /\ At("resume")
  /\ IF Addable(c0) THEN Checkout /\ Goto("wait") /\ UNCHANGED job ELSE Fails

WorkerNext ==
  \/ Begin \/ HasCommit \/ Fetch \/ Published \/ Worktree \/ LookInCache
  \/ StartBuild \/ KillBuild \/ BeginCopy \/ EndCopy \/ WriteProvenance
  \/ CheckGate \/ Snapshot \/ Spawn \/ SaveChild \/ Wait \/ Collect \/ Retain
  \/ ReleaseIdleLease \/ Recover \/ Resume

-----------------------------------------------------------------------------
(* The agent's process *)

Fault(f) ==
  /\ f \in Faults \ spent /\ Cardinality(spent) < MaxFaults
  /\ spent' = spent \cup {f}

Submit(c) ==
  /\ agent.up /\ Len(job) < MaxJobs
  /\ job' = Append(job, [of |-> c, state |-> "queued", failed |-> None,
                         before |-> NoRecords, ran |-> None, got |-> {}])
  /\ UNCHANGED <<agent, worker, repo, builds, box, spent, judged>>

\* The agent ends, at any point.  The unit's control group goes with it; what
\* an agent in a terminal has started goes on.
Stop ==
  /\ agent.up
  /\ agent' = [agent EXCEPT !.up = FALSE]
  /\ worker' = [at |-> "down", job |-> None]
  /\ Fault("stop")
  /\ IF agent.how = "as_service"
     THEN proc' = proc \cap {Foreign} /\ cargo' = {} /\ lock' = None
     ELSE UNCHANGED <<proc, cargo, lock>>
  /\ UNCHANGED <<job, repo, tree, known, target, cache, kept, lease, file, judged>>

Start ==
  /\ ~agent.up
  /\ agent' \in [n : {agent.n + 1}, up : {TRUE}, how : Started]
  /\ worker' = [at |-> "recover", job |-> None]
  /\ UNCHANGED <<job, repo, builds, box, spent, judged>>

-----------------------------------------------------------------------------
(* The gate, as its flags and its files say of it *)

\* With --serve-reuse a gate takes the leased server if it is the one it would
\* have started, and replaces it otherwise.  It leaves it up.
GateServes(g) ==
  /\ ServeReuse
  /\ ~(lease # None /\ lease.server \in proc /\ lease.server.bin = g.bin)
  /\ LET s == Server(g.job, g.owner, g.bin)
     IN /\ proc' = (proc \ (IF lease = None THEN {} ELSE {lease.server})) \cup {s}
        /\ lease' = [server |-> s, owner |-> g.owner]
  /\ UNCHANGED <<agent, worker, job, repo, builds, file, spent, judged>>

\* It writes one record, in its worktree.
GateWrites(g) ==
  /\ \A m \in Name : file[job[g.job].of][m] # g.job
  /\ \E m \in Name : file' = [file EXCEPT ![job[g.job].of][m] = g.job]
  /\ UNCHANGED <<agent, worker, job, repo, builds, proc, lease, spent, judged>>

GateExits(g) ==
  /\ proc' = proc \ {g}
  /\ UNCHANGED <<agent, worker, job, repo, builds, lease, file, spent, judged>>

-----------------------------------------------------------------------------
(* What else happens to the box *)

\* Somebody pushes a commit from another machine.
Push(c) ==
  /\ c \notin repo.origin
  /\ repo' = [repo EXCEPT !.origin = @ \cup {c}]
  /\ UNCHANGED <<agent, worker, job, builds, box, spent, judged>>

\* A GPU process of somebody else comes, and goes.
ForeignComes ==
  /\ proc' = proc \cup {Foreign}
  /\ Fault("foreign")
  /\ UNCHANGED <<agent, worker, job, repo, builds, lease, file, judged>>

ForeignGoes ==
  /\ Foreign \in proc
  /\ proc' = proc \ {Foreign}
  /\ UNCHANGED <<agent, worker, job, repo, builds, lease, file, spent, judged>>

ServerDies ==
  /\ \E s \in proc : s.kind = "server" /\ proc' = proc \ {s}
  /\ Fault("server_dies")
  /\ UNCHANGED <<agent, worker, job, repo, builds, lease, file, judged>>

Quiet == worker.job = None /\ cargo = {} /\ \A p \in proc : p.kind # "gate"

\* The operator leaves a worktree on another commit.
Moved(c) ==
  /\ Quiet /\ tree[c] # None
  /\ \E d \in repo.local : tree' = [tree EXCEPT ![c] = d]
  /\ Fault("moved")
  /\ UNCHANGED <<agent, worker, job, repo, known, cargo, lock, target, cache, kept,
                 box, judged>>

\* Another build, or its binary alone, is put in a build's place.
Swapped(c) ==
  /\ Quiet /\ cache[c].bin # None
  /\ \E d \in Commit :
       \/ cache' = [cache EXCEPT ![c] = [bin |-> d, sha |-> d, hash |-> d]]
       \/ cache' = [cache EXCEPT ![c].bin = d]
  /\ Fault("swapped")
  /\ UNCHANGED <<agent, worker, job, repo, tree, known, cargo, lock, target, kept,
                 box, judged>>

Next ==
  \/ WorkerNext \/ Stop \/ Start
  \/ \E b \in cargo : CargoEnds(b)
  \/ \E g \in {p \in proc : p.kind = "gate"} :
       GateServes(g) \/ GateWrites(g) \/ GateExits(g)
  \/ \E c \in Commit : Submit(c) \/ Push(c) \/ Moved(c) \/ Swapped(c)
  \/ ForeignComes \/ ForeignGoes \/ ServerDies

Spec == Init /\ [][Next]_vars

-----------------------------------------------------------------------------
(* Properties *)

Binary == Commit \cup {None, "partial"}

TypeOK ==
  /\ agent \in [n : Nat, up : BOOLEAN, how : Started]
  /\ worker \in [at : Stage, job : Job \cup {None}]
  /\ job \in Seq(JobRecord)
  /\ repo \in [local : SUBSET Commit, origin : SUBSET Commit, tracked : SUBSET Commit]
  /\ tree \in [Commit -> Commit \cup {None}] /\ known \subseteq Commit
  /\ cargo \subseteq [by : Job, from : Commit] /\ lock \in Job \cup {None}
  /\ target \in Commit \cup {None}
  /\ cache \in [Commit -> [bin : Binary, sha : Commit \cup {None}, hash : Binary]]
  /\ kept \in Seq(Commit)
  /\ proc \subseteq Process /\ judged \subseteq Process
  /\ lease = None \/ lease \in [server : Process, owner : Nat]
  /\ file \in [Commit -> [Name -> Job \cup {None}]]
  /\ spent \subseteq Faults

\* What a job hands back was written by its own gate, the gate was built from
\* the job's commit, and that commit was published: whatever an earlier job, a
\* build that was cut short or survived a restart, or the operator has left in
\* the worktree, the target directory and the cache.
ResultIsOfTheCommit ==
  \A j \in 1..Len(job) :
    job[j].got # {} =>
      /\ job[j].got = {j}
      /\ job[j].ran = job[j].of
      /\ AllowUnpublished \/ job[j].of \in repo.origin

\* Nothing that held the GPU when the worker found the box free runs beside a
\* gate, but for the server an earlier gate of the same agent left for it; and
\* there is one gate.
GateAlone ==
  \A g \in proc : g.kind = "gate" =>
    \A p \in proc \ {g} :
      /\ p.kind # "gate"
      /\ p \in judged => p.kind = "server" /\ p.owner = g.owner

\* A gate has the box as it was found for it: alone, and with the server it may
\* be using, which the agent ends only when no gate runs.  (exclusive.rs:
\* "one gate per box"; lease.rs: the agent's part is to "know that the leased
\* server is its own and not a foreign tenant".)
GateHasTheBox ==
  [][/\ GateAlone'
     /\ lease # None /\ lease' = None => \A p \in proc : p.kind # "gate"]_vars

\* docs/BENCH.md: what is not in the cache is rebuilt.  No job fails because its
\* worktree cannot be made.
NotCachedIsRebuilt == \A j \in 1..Len(job) : job[j].failed \notin {"tree", "resume"}

=============================================================================
