---------------------------- MODULE BenchJournal ----------------------------
(***************************************************************************)
(* The journal of one bench job on its way from the worker's append        *)
(* (crates/atlasctl-agent/src/bench/journal.rs) over an attached stream    *)
(* (daemon/bench_serve.rs) to a follower that re-attaches after every loss *)
(* of its link (peer/bench.rs, commands/bench/follow.rs).                  *)
(*                                                                         *)
(* The file is lines of bytes.  A write that is cut short, by a crash or a *)
(* full disk, leaves bytes without a newline, and the next append goes to  *)
(* the end of those bytes.  BenchQueue, which is about many jobs and the   *)
(* requests that race for them, takes every write as whole; here one job   *)
(* is run by a worker that only appends.                                   *)
(***************************************************************************)
EXTENDS Naturals, Sequences, SequencesExt, FiniteSets

CONSTANTS None,        \* no value
          From,        \* the places followers ask for: --from-seq
          MaxEvents,   \* BOUND: events appended in a life of the agent
          MaxRestarts, \* BOUND: restarts of the agent
          MaxFaults,   \* BOUND: links cut, dials failed, writes cut short
          Faults,      \* the kinds of fault a run admits
          Wire         \* BOUND: frames a connection holds

FaultKinds == {"cut", "unreachable", "short", "unsaved", "retired", "revoked"}

ASSUME FollowAssumption ==
  /\ From \subseteq Nat \ {0}
  /\ {MaxEvents, MaxRestarts, MaxFaults} \subseteq Nat
  /\ Wire \in Nat \ {0}
  /\ Faults \subseteq FaultKinds

\* How a job ends: as its gate did, or orphaned by a restart.
Outcome == {"own", "orphaned"}

\* A journaled event.  `life` is the life of the agent that wrote it, which
\* tells apart two events that were given the same seq.
Event == [seq : Nat, life : Nat, done : Outcome \cup {None}]

\* A line of the file.  A whole line parses; so does an open one, which lacks
\* only its newline; a torn one does not; a merged one is what an append makes
\* of a torn or open one.
Line == [form : {"whole", "open", "torn", "merged"}, ev : Event]

\* The two journals of a life of the agent: the one its worker appends to, and
\* the one opened after the worker's was forgotten.
Handle == {1, 2}

ASSUME FollowNoneIsFresh ==
  None \notin Handle /\ None \notin Outcome /\ None # "removed" /\ None \notin Nat

VARIABLES
  \* disk
  lines,    \* events.ndjson
  record,   \* the job's record: its outcome, None while it runs, or "removed"
  granted,  \* the sender's bench grant in the pin store
  \* the agent
  high,     \* [Handle -> the seq each journal counts from]
  cached,   \* the journal BenchHost keeps for the job
  worker,   \* what the worker does with the job
  stream,   \* the attached stream being served
  \* the connection and the follower
  link,     \* "up", "closing" after the node's shutdown, "down"
  wire,     \* frames on their way to the follower
  follower, \* what the follower does
  \* counters and history
  life,     \* restarts so far
  faults,   \* faults so far
  appended, \* history: the events journaled
  emitted,  \* history: the events `emit` has seen
  before    \* history: how many events there were when the grant was revoked

disk     == <<lines, record, granted>>
agent    == <<high, cached, worker, stream>>
channel  == <<link, wire>>
history  == <<appended, emitted, before>>
vars == <<disk, agent, channel, follower, life, faults, history>>

Frame == [kind : {"event"}, ev : Event]
         \cup [kind : {"heartbeat"}, over : BOOLEAN, high : Nat]
         \cup [kind : {"refused"}]

\* An attached stream: the journal it reads, the place it has come to, what it
\* has read and not yet sent, and the heartbeat of the next quiet ten seconds.
Stream == [at : {"pass", "send", "wait"}, handle : Handle, seen : Nat,
           next : Nat, outbox : Seq(Event), beat : Frame \cup {None}]

Follower == [at : {"attach", "attached", "lost", "ask", "ended"}, from : From,
             next : Nat, last : Nat,
             result : Outcome \cup {None, "refused", "stream_lost", "unreachable"}]

TypeOK ==
  /\ lines \in Seq(Line)
  /\ record \in Outcome \cup {None, "removed"}
  /\ high \in [Handle -> Nat]
  /\ cached \in Handle \cup {None}
  /\ granted \in BOOLEAN
  /\ worker \in {"recover", "run", "orphan", "idle"} \cup Outcome
  /\ stream \in Stream \cup {None}
  /\ link \in {"up", "closing", "down"}
  /\ wire \in Seq(Frame)
  /\ follower \in Follower
  /\ life \in 0..MaxRestarts
  /\ faults \in 0..MaxFaults
  /\ appended \in Seq(Event)
  /\ emitted \in Seq(Event)
  /\ before \in Nat \cup {None}

Init ==
  /\ lines = <<>>
  /\ record = None
  /\ granted = TRUE
  /\ high = [h \in Handle |-> 0]
  /\ cached = None
  /\ worker = "run"
  /\ stream = None
  /\ link = "down"
  /\ wire = <<>>
  /\ follower \in {[at |-> "attach", from |-> f, next |-> f, last |-> 0,
                    result |-> None] : f \in From}
  /\ life = 0
  /\ faults = 0
  /\ appended = <<>>
  /\ emitted = <<>>
  /\ before = None

Fault(kind) ==
  /\ kind \in Faults
  /\ faults < MaxFaults
  /\ faults' = faults + 1

-----------------------------------------------------------------------------
(* The file *)

Parses(line) == line.form \in {"whole", "open"}

\* Only the last line may fail to parse.
Readable == \A i \in 1..Len(lines) - 1 : Parses(lines[i])

\* The i-th lowest of a set of numbers.
Nth(S, i) == CHOOSE p \in S : Cardinality({q \in S : q < p}) = i - 1

\* Every event with seq >= from.
Replay(from) ==
  LET kept == {i \in DOMAIN lines : Parses(lines[i]) /\ lines[i].ev.seq >= from}
  IN [i \in 1..Cardinality(kept) |-> lines[Nth(kept, i)].ev]

LastSeq == LET all == Replay(0) IN IF all = <<>> THEN 0 ELSE Last(all).seq

\* The file after bytes for event e: a line of its own, or the rest of a line
\* that has no newline yet.
WithLine(form, e) ==
  IF lines # <<>> /\ Last(lines).form \in {"torn", "open"}
    THEN [lines EXCEPT ![Len(lines)].form = IF form = "whole" THEN "merged" ELSE "torn"]
    ELSE Append(lines, [form |-> form, ev |-> e])

\* The journal of the job: the cached one, or one opened now that counts from
\* the last seq in the file.
Journal(h) ==
  \/ /\ cached = h
     /\ UNCHANGED <<high, cached>>
  \/ /\ cached = None
     /\ Readable
     /\ h = IF worker = "idle" THEN 2 ELSE 1
     /\ high' = [high EXCEPT ![h] = LastSeq]
     /\ cached' = h

NoJournal == cached = None /\ ~Readable

-----------------------------------------------------------------------------
(* The worker *)

NextEvent(h, done) == [seq |-> high[h] + 1, life |-> life, done |-> done]

\* machine::run, resume_running and orphan have the journal in hand.
Writes(h, done) ==
  /\ worker = IF done = "orphaned" THEN "orphan" ELSE "run"
  /\ cached = h
  /\ high[h] < MaxEvents
  /\ done \in Outcome \/ high[h] + 1 < MaxEvents

OpenJournal ==
  /\ worker \in {"run", "orphan"}
  /\ cached = None
  /\ \E h \in Handle : Journal(h)
  /\ UNCHANGED <<disk, worker, stream, channel, follower, life, faults, history>>

\* Journal::append: the line, then the counter and the watch.  The worker has
\* the job's outcome in hand once its Done is journaled.
AppendEvent ==
  /\ \E h \in Handle, done \in Outcome \cup {None} :
       /\ Writes(h, done)
       /\ LET e == NextEvent(h, done) IN
            /\ lines' = WithLine("whole", e)
            /\ appended' = Append(appended, e)
            /\ high' = [high EXCEPT ![h] = e.seq]
       /\ worker' = IF done = None THEN worker ELSE done
  /\ UNCHANGED <<record, granted, cached, stream, channel, follower, life, faults,
                 emitted, before>>

\* Bytes of an event that were cut short.  What lacks only its newline is an
\* event to every reader.
CutShort(h, done) ==
  /\ Writes(h, done)
  /\ \E form \in {"torn", "open"} : lines' = WithLine(form, NextEvent(h, done))
  /\ appended' = IF Parses(Last(lines'))
                   THEN Append(appended, NextEvent(h, done)) ELSE appended

\* The disk is full half way through: append returns an error and the counter
\* stays.  The wait for the gate ignores that; every other caller gives the job
\* up, which forgets its journal and leaves its record as it is.
AppendFails ==
  /\ Fault("short")
  /\ \E h \in Handle, done \in Outcome \cup {None} :
       /\ CutShort(h, done)
       /\ \/ done = None /\ worker = "run" /\ UNCHANGED <<worker, cached>>
          \/ worker' = "idle" /\ cached' = None
  /\ UNCHANGED <<record, granted, high, stream, channel, follower, life, emitted, before>>

\* finish: the record is saved after its Done is journaled.
SaveDone ==
  /\ worker \in Outcome
  /\ record' = worker
  /\ worker' = "idle"
  /\ cached' = None
  /\ UNCHANGED <<lines, granted, high, stream, channel, follower, life, faults, history>>

SaveFails ==
  /\ worker \in Outcome
  /\ Fault("unsaved")
  /\ worker' = "idle"
  /\ cached' = None
  /\ UNCHANGED <<disk, high, stream, channel, follower, life, history>>

\* recover: a finished job is left alone, one whose gate lives is resumed, any
\* other is orphaned; one whose journal cannot be opened ends the recovery.
Recover ==
  /\ worker = "recover"
  /\ worker' \in IF record # None \/ NoJournal THEN {"idle"} ELSE {"run", "orphan"}
  /\ UNCHANGED <<disk, high, cached, stream, channel, follower, life, faults, history>>

\* retain: an old finished job's directory is removed, its journal with it.
Retire ==
  /\ worker = "idle"
  /\ record \in Outcome
  /\ Fault("retired")
  /\ record' = "removed"
  /\ lines' = <<>>
  /\ UNCHANGED <<granted, agent, channel, follower, life, history>>

\* The operator of the node takes the follower's bench grant away.
Revoke ==
  /\ granted
  /\ Fault("revoked")
  /\ granted' = FALSE
  /\ before' = Len(appended)
  /\ UNCHANGED <<lines, record, agent, channel, follower, life, appended, emitted>>

\* The connection is gone, and with it frames the follower has not read.
Drop ==
  /\ link' = "down"
  /\ wire' \in {SubSeq(wire, 1, i) : i \in 0..Len(wire)}
  /\ stream' = None

\* The agent stops, perhaps in the middle of an append.
Restart ==
  /\ life < MaxRestarts
  /\ life' = life + 1
  /\ \/ UNCHANGED <<lines, appended>>
     \/ /\ "short" \in Faults
        /\ \E h \in Handle, done \in Outcome \cup {None} : CutShort(h, done)
  /\ high' = [h \in Handle |-> 0]
  /\ cached' = None
  /\ worker' = "recover"
  /\ Drop
  /\ UNCHANGED <<record, granted, follower, faults, emitted, before>>

-----------------------------------------------------------------------------
(* The node's end of a connection: serve_attach *)

Heartbeat(h, over) == [kind |-> "heartbeat", over |-> over, high |-> high[h]]

\* The node's last frame; then it shuts the stream down.
Close(frames) ==
  /\ wire' = wire \o frames
  /\ link' = "closing"
  /\ stream' = None

HasRoom == Len(wire) < Wire

\* Dial, hello and the Attach frame, and what serve_attach does before its loop.
Attach ==
  /\ follower.at = "attach"
  /\ follower' = [follower EXCEPT !.at = "attached", !.last = follower.next - 1]
  /\ \/ /\ granted /\ record # "removed" /\ ~NoJournal
        /\ \E h \in Handle :
             /\ Journal(h)
             /\ stream' = [at |-> "pass", handle |-> h, seen |-> high'[h],
                           next |-> follower.next, outbox |-> <<>>, beat |-> None]
        /\ link' = "up"
        /\ wire' = <<>>
     \/ /\ ~granted \/ record = "removed" \/ NoJournal
        /\ link' = "closing"
        /\ wire' = <<[kind |-> "refused"]>>
        /\ stream' = None
        /\ UNCHANGED <<high, cached>>
  /\ UNCHANGED <<disk, worker, life, faults, history>>

Streaming(at) == stream # None /\ stream.at = at

serving == <<stream, channel>>
notServing == <<disk, high, cached, worker, follower, life, faults, history>>

\* Mutant of Pass: the grant is checked when the stream is opened only.
PassOnce ==
  /\ Streaming("pass")
  /\ \/ Readable
        /\ stream' = [stream EXCEPT !.at = "send", !.outbox = Replay(stream.next)]
        /\ UNCHANGED channel
     \/ ~Readable /\ Close(<<>>)
  /\ UNCHANGED notServing

\* A pass: the grant again, then everything journaled since `next`.  A journal
\* that cannot be read ends the stream without a word.
Pass ==
  /\ Streaming("pass")
  /\ \/ granted /\ Readable
        /\ stream' = [stream EXCEPT !.at = "send", !.outbox = Replay(stream.next)]
        /\ UNCHANGED channel
     \/ granted /\ ~Readable /\ Close(<<>>)
     \/ ~granted /\ HasRoom /\ Close(<<[kind |-> "refused"]>>)
  /\ UNCHANGED notServing

SendEvent ==
  /\ Streaming("send") /\ stream.outbox # <<>> /\ HasRoom
  /\ LET e == Head(stream.outbox)
         frames == <<[kind |-> "event", ev |-> e]>>
     IN \/ e.done # None /\ Close(frames)
        \/ /\ e.done = None
           /\ stream' = [stream EXCEPT !.outbox = Tail(stream.outbox), !.next = e.seq + 1]
           /\ wire' = wire \o frames
           /\ UNCHANGED link
  /\ UNCHANGED notServing

\* Mutant of Look: the terminal state of the job is not looked at.
LookForMore ==
  /\ Streaming("send") /\ stream.outbox = <<>>
  /\ stream' = [stream EXCEPT !.at = "wait", !.beat = Heartbeat(stream.handle, FALSE)]
  /\ UNCHANGED <<channel, notServing>>

\* Nothing more to send: over for good, which one heartbeat says, or not.  A
\* job whose record cannot be loaded counts as Done.
Look ==
  /\ Streaming("send") /\ stream.outbox = <<>>
  /\ LET beat == Heartbeat(stream.handle, record # None) IN
       \/ /\ beat.over /\ high[stream.handle] < stream.next
          /\ HasRoom /\ Close(<<beat>>)
       \/ /\ ~(beat.over /\ high[stream.handle] < stream.next)
          /\ stream' = [stream EXCEPT !.at = "wait", !.beat = beat]
          /\ UNCHANGED channel
  /\ UNCHANGED notServing

\* The watch of the journal has changed since it was last looked at.
Wake ==
  /\ Streaming("wait")
  /\ high[stream.handle] # stream.seen
  /\ stream' = [stream EXCEPT !.at = "pass", !.seen = high[stream.handle]]
  /\ UNCHANGED <<channel, notServing>>

\* Ten seconds of quiet: the heartbeat as it was before the wait.
Tick ==
  /\ Streaming("wait") /\ HasRoom
  /\ wire' = Append(wire, stream.beat)
  /\ stream' = [stream EXCEPT !.at = "pass", !.beat = None]
  /\ UNCHANGED <<link, notServing>>

-----------------------------------------------------------------------------
(* The follower: Attached::next and follow *)

following == <<follower, emitted>>
notFollowing == <<disk, agent, life, appended, before>>

Unreachable ==
  /\ follower.at = "attach"
  /\ Fault("unreachable")
  /\ follower' = [follower EXCEPT !.at = "lost"]
  /\ UNCHANGED <<notFollowing, channel, emitted>>

\* The link breaks, or is silent for so long that the follower hangs up.
Cut ==
  /\ link = "up"
  /\ Fault("cut")
  /\ Drop
  /\ UNCHANGED <<disk, high, cached, worker, follower, life, history>>

End(result) == follower' = [follower EXCEPT !.at = "ended", !.result = result]

\* Mutant of TakesEvent: the place to go on from after an outage is not noted.
TakesUnnoted(e) ==
  /\ e.seq > follower.last
  /\ emitted' = Append(emitted, e)
  /\ follower' = [follower EXCEPT
        !.last = e.seq, !.result = e.done, !.at = IF e.done = None THEN @ ELSE "ended"]

TakesEvent(e) ==
  \/ /\ e.seq <= follower.last \* a replay overlap
     /\ UNCHANGED following
  \/ /\ e.seq > follower.last
     /\ follower.last # 0 /\ e.seq # follower.last + 1
     /\ follower' = [follower EXCEPT !.at = "lost"]
     /\ UNCHANGED emitted
  \/ /\ e.seq > follower.last
     /\ follower.last # 0 => e.seq = follower.last + 1
     /\ emitted' = Append(emitted, e)
     /\ follower' = [follower EXCEPT
           !.next = e.seq + 1, !.last = e.seq, !.result = e.done,
           !.at = IF e.done = None THEN @ ELSE "ended"]

Receive ==
  /\ follower.at = "attached" /\ wire # <<>>
  /\ wire' = Tail(wire)
  /\ LET f == Head(wire) IN
       \/ f.kind = "event" /\ TakesEvent(f.ev)
       \/ /\ f.kind = "heartbeat"
          /\ follower' = [follower EXCEPT
                !.at = IF f.over /\ f.high <= follower.last THEN "ask" ELSE @]
          /\ UNCHANGED emitted
       \/ f.kind = "refused" /\ End("refused") /\ UNCHANGED emitted
  /\ UNCHANGED <<notFollowing, link, faults>>

\* The stream ended, or broke, before Done.
LinkLost ==
  /\ follower.at = "attached" /\ wire = <<>> /\ link # "up"
  /\ follower' = [follower EXCEPT !.at = "lost"]
  /\ UNCHANGED <<notFollowing, channel, faults, emitted>>

\* retry_or: another attempt within the budget of this outage, or none.
Retry ==
  /\ follower.at = "lost"
  /\ follower' = [follower EXCEPT !.at = "attach"]
  /\ UNCHANGED <<notFollowing, channel, faults, emitted>>

GiveUp ==
  /\ follower.at = "lost"
  /\ End("stream_lost")
  /\ UNCHANGED <<notFollowing, channel, faults, emitted>>

\* terminal_outcome: the Done lies before what was asked for.
AskOutcome ==
  /\ follower.at = "ask"
  /\ \/ /\ End(CASE ~granted \/ record = "removed" -> "refused"
                 [] granted /\ record = None -> "stream_lost"
                 [] OTHER -> record)
        /\ UNCHANGED faults
     \/ Fault("unreachable") /\ End("unreachable")
  /\ UNCHANGED <<notFollowing, channel, emitted>>

-----------------------------------------------------------------------------
Serve == Pass \/ SendEvent \/ Look \/ Wake \/ Tick
Work == OpenJournal \/ AppendEvent \/ SaveDone \/ Recover
Follow == Attach \/ Receive \/ LinkLost \/ AskOutcome
Trouble == AppendFails \/ SaveFails \/ Retire \/ Revoke \/ Restart
           \/ Unreachable \/ Cut \/ GiveUp

Next == Work \/ Serve \/ Follow \/ Retry \/ Trouble

Spec == Init /\ [][Next]_vars

\* The node's tasks and the follower's process are scheduled, and a follower
\* that lost its link tries again; nothing makes it give up.
Fairness == WF_vars(Serve) /\ WF_vars(Follow) /\ WF_vars(Retry)

FollowSpec == Spec /\ Fairness

-----------------------------------------------------------------------------
(* Properties *)

\* A revocation cuts a stream that is already attached (bench_serve.rs:156):
\* nothing journaled after it is handed over.
RevokedSeesNothingNewer ==
  before # None => \A i \in 1..Len(emitted) :
                      \E j \in 1..before : appended[j] = emitted[i]

\* The follower of a job that is over ends as well, although it need not give
\* up, if no write was cut short and the job was not removed under it.
Intact == record # "removed" /\ \A i \in 1..Len(lines) : lines[i].form = "whole"
FollowerEnds == (record \in Outcome /\ Intact) ~> (follower.at = "ended" \/ ~Intact)

\* What a follower is handed is the log as it was appended, one event at a
\* time, whatever becomes of the file.
Final(e) == e.done # None
Feed == INSTANCE EventFeed WITH Entry <- [seq : 1..MaxEvents, life : 0..MaxRestarts,
                                         done : Outcome \cup {None}],
                                log <- appended,
                                from <- follower.from, got <- emitted,
                                over <- (follower.at = "ended")
FeedIsServed == Feed!FeedSpec
=============================================================================
