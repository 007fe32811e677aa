---------------------------- MODULE BenchCommand ----------------------------
(***************************************************************************)
(* `atlasctl bench` (crates/atlasctl/src/commands/bench): one command is   *)
(* one process that asks nodes over the peer channel, follows a job,       *)
(* brings its files back and ends with an exit code.                       *)
(*                                                                         *)
(* A target stands for its addresses, in the order they resolve to; what   *)
(* answers at an address is a node, and every try of one may go wrong in   *)
(* each of the ways the channel can fail.  How a follower gets the outcome *)
(* over a lossy link is the subject of BenchJournal: here it arrives, or   *)
(* the stream is lost.                                                     *)
(***************************************************************************)
EXTENDS Naturals, Sequences, FiniteSets, Functions

CONSTANTS None,      \* no value
          Node,      \* machines that run jobs
          Address,   \* socket addresses
          NodeAt,    \* [Address -> Node]: who answers there
          Resolved,  \* what a target may resolve to: sequences of addresses
          Verb,      \* the commands an operator gives
          Artifact,  \* names of files a job leaves behind
          Size,      \* BOUND: sizes of files
          Chunk,     \* MAX_CHUNK, in units of Size
          MaxCommands \* BOUND: commands given, one after the other

ASSUME CommandAssumption ==
  /\ NodeAt \in [Address -> Node]
  /\ Resolved \subseteq Seq(Address)
  /\ Verb \subseteq {"submit", "attach", "status", "cancel", "artifacts", "fetch", "run"}
  /\ IsFiniteSet(Artifact)
  /\ Size \subseteq Nat
  /\ Chunk \in Nat \ {0}
  /\ MaxCommands \in Nat

-----------------------------------------------------------------------------
(* Failures and exit codes: exit.rs *)

ExitOf ==
  [ok |-> 0, bad_args |-> 1, io |-> 1, unreachable |-> 2, not_paired |-> 3,
   not_granted |-> 3, refused |-> 4, job_failed |-> 5, job_cancelled |-> 6,
   stream_lost |-> 7, unsupported_version |-> 8]

Code == DOMAIN ExitOf

\* How one try of an address can fail before a reply is read: DialError, a peer
\* of an older protocol, or anything else the channel breaks with.  A try that
\* broke late may have been served.
Transient  == {"timeout", "connect", "handshake_timeout"}
DialError  == Transient \cup {"not_pinned", "handshake", "no_certificate"}
Breakage   == {"hello_broken", "unanswered"}
LinkError  == DialError \cup {"old_peer"} \cup Breakage

\* BenchError::from_link
FromLink(e) ==
  CASE e \in Transient           -> "unreachable"
    [] e \in DialError \ Transient -> "not_paired"
    [] e = "old_peer"            -> "unsupported_version"
    [] OTHER                     -> "unreachable"

\* A refusal by its code: the right, what only a submission meets, a job that is
\* not there.  Only the right has an exit code of its own.
Refusal == {"not_granted", "queue_full", "unknown_job"}
Refused(r) == IF r = "not_granted" THEN "not_granted" ELSE "refused"

Outcome == {"passed", "failed", "cancelled"}
FromOutcome(o) ==
  CASE o = "passed"    -> "ok"
    [] o = "cancelled" -> "job_cancelled"
    [] OTHER           -> "job_failed"

-----------------------------------------------------------------------------

VARIABLES
  job,     \* [Node -> the job under the command's key, or None]
  out,     \* [Artifact -> what --out-dir holds of it]
  cmd,     \* the command in progress, or None
  given,   \* commands given so far
  result   \* history: how the last command ended, or None

vars == <<job, out, cmd, given, result>>

\* A job: its outcome, None until it is over, and how long each file is that it
\* has written; a file not yet there is None long.  Its first file is its log,
\* which grows while the job runs.
Job == [outcome : Outcome \cup {None}, files : [Artifact -> Size \cup {None}]]

NewJob == [outcome |-> None, files |-> [a \in Artifact |-> None]]

\* What is on disk of an artifact: nothing, a file of an earlier command or one
\* that was written whole or in part, with the length it has.
OnDisk == [state : {"absent", "foreign", "whole", "partial"}, size : Nat]
Absent == [state |-> "absent", size |-> 0]

\* A command: its verb, where it stands, the addresses still to be tried, the
\* one that answered, and what it is bringing back.
Command ==
  [verb : Verb, at : {"ask", "follow", "list", "chunk", "write"},
   todo : Seq(Address), reached : Address \cup {None},
   outcome : Outcome \cup {None},
   items : Seq([name : Artifact, size : Nat]), done : Nat, data : Nat]

ASSUME CommandNoneIsFresh == None \notin Job \cup Outcome \cup Address \cup Size \cup Command

Init ==
  /\ job \in [Node -> {None, NewJob}]
  /\ out \in [Artifact -> {Absent, [state |-> "foreign", size |-> 1]}]
  /\ cmd = None
  /\ given = 0
  /\ result = None

TypeOK ==
  /\ job \in [Node -> Job \cup {None}]
  /\ out \in [Artifact -> OnDisk]
  /\ cmd \in Command \cup {None}
  /\ given \in 0..MaxCommands
  /\ result \in [verb : Verb, exit : 0..8, outcome : Outcome \cup {None},
                 unfetched : SUBSET Artifact, unlisted : SUBSET Artifact] \cup {None}

-----------------------------------------------------------------------------
(* The node, as the command sees it *)

\* A job writes a file, or more of one; a finished one changes nothing.
JobWrites(n) ==
  /\ job[n] # None /\ job[n].outcome = None
  /\ \E a \in Artifact, s \in Size :
       /\ job[n].files[a] # None => s > job[n].files[a]
       /\ job' = [job EXCEPT ![n].files[a] = s]
  /\ UNCHANGED <<out, cmd, given, result>>

JobEnds(n) ==
  /\ job[n] # None /\ job[n].outcome = None
  /\ \E o \in {"passed", "failed"} : job' = [job EXCEPT ![n].outcome = o]
  /\ UNCHANGED <<out, cmd, given, result>>

JobRetired(n) ==
  /\ job[n] # None /\ job[n].outcome # None
  /\ job' = [job EXCEPT ![n] = None]
  /\ UNCHANGED <<out, cmd, given, result>>

\* What the command asks of the node where it stands: `run` submits, then asks
\* for the files.
Request ==
  CASE cmd.at = "list"                     -> "artifacts"
    [] cmd.at # "list" /\ cmd.verb = "run" -> "submit"
    [] OTHER                               -> cmd.verb

\* What the node does for a request, and whether it answers or refuses.  The
\* key of a submission is derived from its arguments, so a second submission
\* of the same finds the first.
Serves(n, request) ==
  CASE request = "submit" ->
         job' = [job EXCEPT ![n] = IF @ = None THEN NewJob ELSE @]
    [] request = "cancel" ->
         /\ job[n] # None
         /\ job' = [job EXCEPT ![n].outcome = IF @ = None THEN "cancelled" ELSE @]
    [] OTHER -> job[n] # None /\ UNCHANGED job

\* BenchHost::artifact_list: the files a job has left so far, its log among them.
Manifest(j) == {a \in Artifact : j.files[a] # None}

\* BenchHost::chunk: how far the file is known after one more request, which
\* brings no more than MAX_CHUNK of it and no more than is there now.
Upto(total, have) == IF have + Chunk >= total THEN total ELSE have + Chunk

-----------------------------------------------------------------------------
(* The command *)

\* Arguments are checked, targets parsed and resolved before anything is dialled.
Give ==
  /\ cmd = None
  /\ given < MaxCommands
  /\ given' = given + 1
  /\ \E verb \in Verb, addrs \in Resolved :
       cmd' = [verb |-> verb, at |-> IF verb = "fetch" THEN "list" ELSE "ask",
               todo |-> addrs, reached |-> None, outcome |-> None,
               items |-> <<>>, done |-> 0, data |-> 0]
  /\ UNCHANGED <<job, out, result>>

Whole(size) == [state |-> "whole", size |-> size]

\* What --out-dir lacks of the files in the manifest, and of those the node has.
Unfetched == {cmd.items[i].name : i \in {k \in DOMAIN cmd.items :
                                          out[cmd.items[k].name] # Whole(cmd.items[k].size)}}
Unlisted ==
  IF cmd.reached = None \/ job[NodeAt[cmd.reached]] = None THEN {}
  ELSE LET j == job[NodeAt[cmd.reached]]
       IN {a \in Manifest(j) : out[a] # Whole(j.files[a])}

\* The command ends, with this code.
EndsWith(code) ==
  /\ cmd' = None
  /\ result' = [verb |-> cmd.verb, exit |-> ExitOf[code], outcome |-> cmd.outcome,
                 unfetched |-> Unfetched, unlisted |-> Unlisted]
Ends(code) == EndsWith(code) /\ UNCHANGED <<out, given>>

\* Session::request: addresses in order.  Whatever is classified unreachable
\* moves on to the next; anything else ends the request.
TryFails ==
  /\ cmd # None /\ cmd.at \in {"ask", "list"} /\ cmd.todo # <<>>
  /\ \E e \in LinkError :
       /\ \/ UNCHANGED job
          \/ e = "unanswered" /\ Serves(NodeAt[Head(cmd.todo)], Request)
       /\ IF FromLink(e) = "unreachable" /\ Len(cmd.todo) > 1
            THEN /\ cmd' = [cmd EXCEPT !.todo = Tail(@)]
                 /\ UNCHANGED <<out, given, result>>
            ELSE Ends(FromLink(e))

TryRefused ==
  /\ cmd # None /\ cmd.at \in {"ask", "list"} /\ cmd.todo # <<>>
  /\ \E r \in Refusal :
       /\ r = "queue_full" => Request = "submit"
       /\ r = "unknown_job" => job[NodeAt[Head(cmd.todo)]] = None /\ Request # "submit"
       /\ Ends(Refused(r))
  /\ UNCHANGED job

NothingResolves ==
  /\ cmd # None /\ cmd.at \in {"ask", "list"} /\ cmd.todo = <<>>
  /\ Ends("unreachable")
  /\ UNCHANGED job

\* An answer settles the address for the rest of the command.
TryAnswered ==
  /\ cmd # None /\ cmd.at = "ask" /\ cmd.todo # <<>>
  /\ Serves(NodeAt[Head(cmd.todo)], Request)
  /\ IF cmd.verb \in {"attach", "run"}
       THEN /\ cmd' = [cmd EXCEPT !.at = "follow", !.reached = Head(cmd.todo),
                                  !.todo = <<Head(cmd.todo)>>]
            /\ UNCHANGED <<out, given, result>>
       ELSE Ends("ok")

\* follow: the outcome, or no stream any more.
Followed ==
  /\ cmd # None /\ cmd.at = "follow"
  /\ LET j == job[NodeAt[cmd.reached]] IN
       /\ j # None /\ j.outcome # None
       /\ IF cmd.verb = "run"
            THEN /\ cmd' = [cmd EXCEPT !.at = "list", !.outcome = j.outcome]
                 /\ UNCHANGED <<out, given, result>>
            ELSE Ends(FromOutcome(j.outcome))
  /\ UNCHANGED job

FollowFails ==
  /\ cmd # None /\ cmd.at = "follow"
  /\ \/ Ends("stream_lost")
     \/ job[NodeAt[cmd.reached]] = None /\ Ends("refused")
  /\ UNCHANGED job

\* fetch::list: the manifest, with each file as long as it is now.
List ==
  /\ cmd # None /\ cmd.at = "list" /\ cmd.todo # <<>>
  /\ LET a == Head(cmd.todo)
         j == job[NodeAt[a]]
     IN /\ j # None
        /\ LET all == 1..Cardinality(Manifest(j))
           IN  \E order \in Bijection(all, Manifest(j)) :
                 cmd' = [cmd EXCEPT !.at = "chunk", !.reached = a, !.todo = <<a>>,
                           !.items = [i \in all |->
                                        [name |-> order[i], size |-> j.files[order[i]]]]]
  /\ UNCHANGED <<job, out, given, result>>

At(stage) == cmd # None /\ cmd.at = stage
More == cmd.done < Len(cmd.items)
Item == cmd.items[cmd.done + 1]
TheJob == job[NodeAt[cmd.reached]]

\* Seeded fault: what is there by now is taken, however long it was to be.
GetWhatIsThere ==
  /\ At("chunk") /\ More /\ TheJob # None
  /\ LET total == TheJob.files[Item.name]
         upto  == Upto(total, cmd.data)
     IN cmd' = [cmd EXCEPT !.data = upto, !.at = IF upto = total THEN "write" ELSE @]
  /\ UNCHANGED <<job, out, given, result>>

\* download and verify: chunk after chunk until the node says it was the last.
\* More than was promised is refused; a file that only grows is no shorter.
GetChunk ==
  /\ At("chunk") /\ More /\ TheJob # None
  /\ LET total == TheJob.files[Item.name]
         upto  == Upto(total, cmd.data)
     IN \/ upto > Item.size /\ Ends("io")
        \/ /\ upto <= Item.size
           /\ cmd' = [cmd EXCEPT !.data = upto, !.at = IF upto = total THEN "write" ELSE @]
           /\ UNCHANGED <<out, given, result>>
  /\ UNCHANGED job

ChunkFails ==
  /\ At("chunk") /\ More
  /\ \/ \E e \in LinkError : Ends(FromLink(e))
     \/ TheJob = None /\ Ends("refused")
  /\ UNCHANGED job

\* create_new and write_all: never over a file that is there.
WriteFile ==
  /\ At("write") /\ out[Item.name] = Absent
  /\ out' = [out EXCEPT ![Item.name] = Whole(cmd.data)]
  /\ cmd' = [cmd EXCEPT !.at = "chunk", !.done = @ + 1, !.data = 0]
  /\ UNCHANGED <<job, given, result>>

\* The file exists, or the disk fills up and keeps what was written of it.
WriteFails ==
  /\ At("write")
  /\ out' \in {out, [out EXCEPT ![Item.name] =
                       IF @ = Absent THEN [state |-> "partial", size |-> 0] ELSE @]}
  /\ EndsWith("io")
  /\ UNCHANGED <<job, given>>

\* fetch is done with the last file, run with the outcome of its job.
Finish ==
  /\ At("chunk") /\ ~More
  /\ Ends(IF cmd.verb = "run" THEN FromOutcome(cmd.outcome) ELSE "ok")
  /\ UNCHANGED job

Next ==
  \/ \E n \in Node : JobWrites(n) \/ JobEnds(n) \/ JobRetired(n)
  \/ Give \/ NothingResolves \/ TryFails \/ TryRefused \/ TryAnswered
  \/ Followed \/ FollowFails
  \/ List \/ GetChunk \/ ChunkFails \/ WriteFile \/ WriteFails \/ Finish

Spec == Init /\ [][Next]_vars

-----------------------------------------------------------------------------
(* Properties *)

\* A script reads the exit code first (exit.rs:5).  Of `run`, 0 says that the
\* job passed and that every file it left is on disk as the node has it; 5 and
\* 6 that it failed or was cancelled, and nothing else says how it ended.  Of
\* `fetch`, 0 says that every file of the manifest is on disk as it was listed,
\* also when the job went on writing while its files were brought back.
ExitTellsTheTruth ==
  result # None =>
    /\ result.exit = 0 /\ result.verb \in {"run", "fetch"} => result.unfetched = {}
    /\ result.verb = "run" =>
         /\ result.exit = 0 => result.outcome = "passed" /\ result.unlisted = {}
         /\ result.exit = 5 => result.outcome = "failed"
         /\ result.exit = 6 => result.outcome = "cancelled"

\* What is on disk stays as it is, over any number of commands into the same
\* directory: a file of an earlier fetch, of another program, or the part of
\* one that the disk had room for.  (fetch.rs:168: "a second fetch into the
\* same directory refuses rather than overwrites -- a record on disk is
\* evidence".)
EvidenceIsKept ==
  [][\A a \in Artifact : out[a] # Absent => out'[a] = out[a]]_vars
=============================================================================
