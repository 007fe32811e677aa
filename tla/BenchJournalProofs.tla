------------------------ MODULE BenchJournalProofs -------------------------
(***************************************************************************)
(* The journal of a bench job is an event feed, for any number of events,  *)
(* restarts, faults and frames on the wire: whatever a crash or a full     *)
(* disk leaves in the file, a follower is handed the log as it was         *)
(* appended.                                                               *)
(***************************************************************************)
EXTENDS BenchJournal, FiniteSetTheorems, SequenceTheorems, TLAPS

-----------------------------------------------------------------------------
(* The inductive invariant *)

\* The worker appends only to a job that has no outcome yet.
RecordInv == worker \in {"run", "orphan"} \cup Outcome => record = None

\* As far as the file can be read from its start it is the log: the i-th line
\* is event i, with seq i.  A file that can be read to its end is all of it.
AllParse == \A i \in DOMAIN lines : Parses(lines[i])
FileInv ==
  /\ \A i \in DOMAIN lines : (\A k \in 1..i : Parses(lines[k])) =>
       /\ lines[i].ev.seq = i
       /\ i <= Len(appended)
       /\ appended[i] = lines[i].ev
  /\ AllParse /\ record # "removed" => Len(appended) = Len(lines)

\* The worker's journal counts the lines, while there is still a line to come.
Closed == lines # <<>> => Last(lines).form # "open"
CountInv ==
  worker \in {"recover", "run", "orphan"} /\ cached # None /\ AllParse /\ Closed =>
    high[cached] = Len(lines)

\* The event is in the log, at the place its seq says.
Journaled(e) == e.seq \in DOMAIN appended /\ appended[e.seq] = e

\* What the follower has been handed is the log from the place it asked for,
\* and the Done, if it was handed one, came last.
HandedInv ==
  /\ follower.next = follower.from + Len(emitted)
  /\ \A i \in DOMAIN emitted :
       /\ follower.from + i - 1 <= Len(appended)
       /\ emitted[i] = appended[follower.from + i - 1]
  /\ follower.at # "ended" => \A i \in DOMAIN emitted : ~Final(emitted[i])

\* The stream sends on, without a gap, from the place it has come to; while it
\* waits it has a heartbeat to send.
Beats(s) == s.at = "wait" => s.beat \in Frame /\ s.beat.kind = "heartbeat"
StreamInv ==
  stream # None =>
    /\ stream.next \in Nat \ {0} /\ Beats(stream)
    /\ \A i \in DOMAIN stream.outbox :
         stream.outbox[i].seq = stream.next + i - 1 /\ Journaled(stream.outbox[i])

\* The frames on the wire go on, without a gap, from the place the follower has
\* come to, up to the place the stream has come to.
IsEvent(k) == wire[k].kind = "event"
WireInv ==
  /\ \A k \in DOMAIN wire : IsEvent(k) => Journaled(wire[k].ev)
  /\ follower.at = "attached" =>
      /\ follower.last = follower.next - 1
      /\ \A k \in DOMAIN wire : IsEvent(k) =>
           /\ wire[k].ev.seq >= follower.next
           /\ \A i \in 1..k-1 : IsEvent(i) => wire[i].ev.seq < wire[k].ev.seq
           /\ \A q \in follower.next..wire[k].ev.seq :
                \E i \in 1..k : IsEvent(i) /\ wire[i].ev.seq = q
      /\ stream # None =>
           /\ stream.next >= follower.next
           /\ \A k \in DOMAIN wire : IsEvent(k) => wire[k].ev.seq < stream.next
           /\ \A q \in follower.next..stream.next-1 :
                \E i \in DOMAIN wire : IsEvent(i) /\ wire[i].ev.seq = q

\* Whatever is still on its way was journaled before the grant was revoked.
RevokedInv ==
  /\ granted <=> before = None
  /\ before # None =>
       /\ before <= Len(appended)
       /\ \A k \in DOMAIN wire : IsEvent(k) => wire[k].ev.seq <= before
       /\ stream # None => \A i \in DOMAIN stream.outbox : stream.outbox[i].seq <= before
       /\ \A i \in DOMAIN emitted : follower.from + i - 1 <= before

JournalInv ==
  /\ TypeOK
  /\ RecordInv /\ FileInv /\ CountInv
  /\ HandedInv /\ StreamInv /\ WireInv /\ RevokedInv

-----------------------------------------------------------------------------
(* Reading the file *)

LEMMA NthOfInterval ==
  ASSUME NEW a \in Nat, NEW b \in Nat, NEW i \in 1..Cardinality(a..b)
  PROVE  Nth(a..b, i) = a + i - 1 /\ a + i - 1 \in a..b
<1>1. Cardinality(a..b) = IF a > b THEN 0 ELSE b - a + 1
  BY FS_Interval
<1>2. a + i - 1 \in a..b
  BY <1>1
<1>3. ASSUME NEW p \in a..b PROVE Cardinality({q \in a..b : q < p}) = p - a
  <2> DEFINE below == {q \in a..b : q < p}
  <2>1. below = a..(p - 1)
    OBVIOUS
  <2> HIDE DEF below
  <2>2. Cardinality(a..(p - 1)) = IF a > p - 1 THEN 0 ELSE p - 1 - a + 1
    BY FS_Interval
  <2>3. Cardinality(below) = p - a
    BY <2>1, <2>2
  <2> QED
    BY <2>3 DEF below
<1>4. \A p \in a..b : Cardinality({q \in a..b : q < p}) = i - 1 <=> p = a + i - 1
  BY <1>3
<1> QED
  BY <1>2, <1>4 DEF Nth

LEMMA LineFacts ==
  ASSUME TypeOK
  PROVE  /\ lines \in Seq(Line) /\ Len(lines) \in Nat /\ DOMAIN lines = 1..Len(lines)
         /\ \A i \in DOMAIN lines : lines[i] \in Line /\ lines[i].ev \in Event
                                    /\ lines[i].ev.seq \in Nat
<1>1. lines \in Seq(Line)
  BY DEF TypeOK
<1>2. \A i \in DOMAIN lines : lines[i] \in Line
  BY <1>1
<1> QED
  BY <1>1, <1>2 DEF Line, Event

\* How far the file can be read.
ReadTo == IF AllParse THEN Len(lines) ELSE Len(lines) - 1

LEMMA ReadToFacts ==
  ASSUME TypeOK, Readable
  PROVE  /\ ReadTo \in Nat
         /\ \A i \in DOMAIN lines : Parses(lines[i]) <=> i <= ReadTo
         /\ 1..ReadTo \subseteq DOMAIN lines
<1>1. DOMAIN lines = 1..Len(lines) /\ Len(lines) \in Nat
  BY LineFacts
<1>2. CASE AllParse
  BY <1>1, <1>2 DEF AllParse, ReadTo
<1>3. CASE ~AllParse
  <2>1. PICK i \in DOMAIN lines : ~Parses(lines[i])
    BY <1>3 DEF AllParse
  <2>2. i = Len(lines)
    BY <1>1, <2>1 DEF Readable
  <2> QED
    BY <1>1, <1>3, <2>1, <2>2 DEF Readable, ReadTo
<1> QED
  BY <1>2, <1>3

\* A replay hands on what the file holds from there, without a gap.
LEMMA ReplayFacts ==
  ASSUME TypeOK, FileInv, Readable, NEW from \in Nat \ {0}
  PROVE  /\ Replay(from) \in Seq(Event)
         /\ Len(Replay(from)) = Cardinality(from..ReadTo)
         /\ \A i \in DOMAIN Replay(from) :
              Replay(from)[i].seq = from + i - 1 /\ Journaled(Replay(from)[i])
<1> DEFINE kept == {i \in DOMAIN lines : Parses(lines[i]) /\ lines[i].ev.seq >= from}
<1>1. ReadTo \in Nat /\ 1..ReadTo \subseteq DOMAIN lines
  BY ReadToFacts
<1>2. \A i \in 1..ReadTo : /\ lines[i].ev.seq = i /\ i <= Len(appended)
                           /\ appended[i] = lines[i].ev
  <2> SUFFICES ASSUME NEW i \in 1..ReadTo
               PROVE  \A k \in 1..i : Parses(lines[k])
    BY <1>1 DEF FileInv
  <2> QED
    BY <1>1, ReadToFacts
<1>3. kept = from..ReadTo
  <2>1. \A i : i \in kept <=> i \in 1..ReadTo /\ lines[i].ev.seq >= from
    BY <1>1, LineFacts, ReadToFacts
  <2>2. \A i : i \in kept <=> i \in 1..ReadTo /\ i >= from
    BY <1>2, <2>1
  <2> HIDE DEF kept
  <2>3. \A i : i \in 1..ReadTo /\ i >= from <=> i \in from..ReadTo
    BY <1>1
  <2> QED
    BY <2>2, <2>3
<1>4. Replay(from) = [i \in 1..Cardinality(kept) |-> lines[Nth(kept, i)].ev]
  BY DEF Replay
<1> HIDE DEF kept
<1>5. Cardinality(kept) \in Nat
  <2>1. Cardinality(from..ReadTo) = IF from > ReadTo THEN 0 ELSE ReadTo - from + 1
    BY <1>1, FS_Interval
  <2> QED
    BY <1>1, <1>3, <2>1
<1>6. \A i \in 1..Cardinality(kept) : /\ Nth(kept, i) = from + i - 1
                                      /\ from + i - 1 \in 1..ReadTo
  BY <1>1, <1>3, NthOfInterval
<1>7. \A i \in 1..Cardinality(kept) : lines[Nth(kept, i)].ev \in Event
  BY <1>1, <1>6, LineFacts
<1>8. Replay(from) \in Seq(Event) /\ Len(Replay(from)) = Cardinality(kept)
      /\ DOMAIN Replay(from) = 1..Cardinality(kept)
  BY <1>4, <1>5, <1>7
<1>9. \A i \in 1..Cardinality(kept) : Replay(from)[i] = lines[from + i - 1].ev
  BY <1>4, <1>6
<1>10. appended \in Seq(Event)
  BY DEF TypeOK
<1>11. \A i \in 1..Cardinality(kept) :
         Replay(from)[i].seq = from + i - 1 /\ Journaled(Replay(from)[i])
  BY <1>2, <1>6, <1>9, <1>10, LenProperties DEF Journaled
<1> QED
  BY <1>3, <1>8, <1>11

\* A journal that is opened goes on counting where the file ends.
LEMMA LastSeqFacts ==
  ASSUME TypeOK, FileInv, Readable
  PROVE  LastSeq = ReadTo
<1> DEFINE kept == {i \in DOMAIN lines : Parses(lines[i]) /\ lines[i].ev.seq >= 0}
<1>1. ReadTo \in Nat /\ 1..ReadTo \subseteq DOMAIN lines
  BY ReadToFacts
<1>2. \A i \in 1..ReadTo : lines[i].ev.seq = i
  <2> SUFFICES ASSUME NEW i \in 1..ReadTo
               PROVE  \A k \in 1..i : Parses(lines[k])
    BY <1>1 DEF FileInv
  <2> QED
    BY <1>1, ReadToFacts
<1>3. kept = 1..ReadTo
  BY <1>1, <1>2, LineFacts, ReadToFacts
<1>4. Replay(0) = [i \in 1..Cardinality(kept) |-> lines[Nth(kept, i)].ev]
  BY DEF Replay
<1> HIDE DEF kept
<1>5. Cardinality(kept) = ReadTo
  BY <1>1, <1>3, FS_Interval
<1>6. Replay(0) = [i \in 1..ReadTo |-> lines[Nth(kept, i)].ev]
  BY <1>4, <1>5
<1>7. \A i \in 1..ReadTo : Nth(kept, i) = i
  BY <1>1, <1>3, <1>5, NthOfInterval
<1>8. CASE ReadTo = 0
  <2>1. Replay(0) = <<>>
    BY <1>6, <1>8
  <2> QED
    BY <1>8, <2>1 DEF LastSeq
<1>9. CASE ReadTo > 0
  <2>1. Replay(0) \in Seq(Event) /\ Len(Replay(0)) = ReadTo
    BY <1>1, <1>6, <1>7, LineFacts
  <2>2. Replay(0) # <<>> /\ Replay(0)[ReadTo] = lines[ReadTo].ev
    BY <1>1, <1>6, <1>7, <1>9, <2>1
  <2> QED
    BY <1>1, <1>2, <1>9, <2>1, <2>2 DEF LastSeq, Last
<1> QED
  BY <1>1, <1>8, <1>9

-----------------------------------------------------------------------------
(* Writing the file *)

fileVars == <<lines, record, appended, worker, high, cached>>

LEMMA FileAlone ==
  ASSUME UNCHANGED fileVars, RecordInv, FileInv, CountInv
  PROVE  RecordInv' /\ FileInv' /\ CountInv'
  BY DEF fileVars, RecordInv, FileInv, CountInv, AllParse, Closed, Parses, Last

\* Bytes either make a line of their own, or spoil the one that was cut short.
LEMMA WithLineFacts ==
  ASSUME TypeOK, NEW form \in {"whole", "open", "torn"}, NEW e \in Event
  PROVE  /\ WithLine(form, e) \in Seq(Line)
         /\ \/ /\ Closed
               /\ WithLine(form, e) = Append(lines, [form |-> form, ev |-> e])
            \/ /\ lines # <<>>
               /\ Len(WithLine(form, e)) = Len(lines)
               /\ \A i \in 1..Len(lines) - 1 : WithLine(form, e)[i] = lines[i]
               /\ ~Parses(WithLine(form, e)[Len(lines)])
<1>1. lines \in Seq(Line) /\ Len(lines) \in Nat /\ DOMAIN lines = 1..Len(lines)
  BY LineFacts
<1>2. CASE lines # <<>> /\ Last(lines).form \in {"torn", "open"}
  <2> DEFINE n == Len(lines)
             f == IF form = "whole" THEN "merged" ELSE "torn"
             l == [lines[n] EXCEPT !.form = f]
  <2>1. n \in DOMAIN lines /\ lines[n] \in Line
    BY <1>1, <1>2, LineFacts
  <2>2. f \in {"merged", "torn"}
    OBVIOUS
  <2>3. WithLine(form, e) = [lines EXCEPT ![n].form = f]
    BY <1>2 DEF WithLine
  <2> HIDE DEF f, n
  <2>4. l \in Line /\ l.form = f
    BY <2>1, <2>2 DEF Line
  <2>5. WithLine(form, e) = [lines EXCEPT ![n] = l]
    BY <2>3
  <2> HIDE DEF l
  <2>6. n \in 1..Len(lines)
    BY <1>1, <2>1
  <2>7. /\ WithLine(form, e) \in Seq(Line) /\ Len(WithLine(form, e)) = Len(lines)
        /\ \A j \in 1..Len(lines) : WithLine(form, e)[j] = IF j = n THEN l ELSE lines[j]
    BY <1>1, <2>4, <2>5, <2>6, ExceptSeq
  <2>8. n = Len(lines)
    BY DEF n
  <2> QED
    BY <1>1, <1>2, <2>2, <2>4, <2>6, <2>7, <2>8 DEF Parses
<1>3. CASE ~(lines # <<>> /\ Last(lines).form \in {"torn", "open"})
  <2>1. [form |-> form, ev |-> e] \in Line
    BY DEF Line
  <2>2. WithLine(form, e) = Append(lines, [form |-> form, ev |-> e])
    BY <1>3 DEF WithLine
  <2>3. Append(lines, [form |-> form, ev |-> e]) \in Seq(Line)
    BY <1>1, <2>1
  <2>4. Closed
    BY <1>3 DEF Closed
  <2> QED
    BY <2>2, <2>3, <2>4
<1> QED
  BY <1>2, <1>3

\* A write keeps the file a log, whether it is cut short or not.
LEMMA WriteKeepsFile ==
  ASSUME TypeOK, RecordInv, FileInv, CountInv,
         NEW h \in Handle, NEW done \in Outcome \cup {None}, Writes(h, done),
         NEW e \in Event, e = NextEvent(h, done),
         NEW form \in {"whole", "open", "torn"}, lines' = WithLine(form, e),
         appended' = IF form = "whole" \/ Parses(Last(lines'))
                       THEN Append(appended, e) ELSE appended,
         record' = record
  PROVE  /\ lines' \in Seq(Line) /\ appended' \in Seq(Event)
         /\ FileInv'
         /\ AllParse' => /\ Len(lines') = high[h] + 1 /\ form # "torn"
                         /\ Last(lines').form = form
<1> DEFINE n == Len(lines)
<1>1. lines \in Seq(Line) /\ n \in Nat /\ DOMAIN lines = 1..n
  BY LineFacts
<1>2. appended \in Seq(Event) /\ Len(appended) \in Nat /\ DOMAIN appended = 1..Len(appended)
  BY LenProperties DEF TypeOK
<1>3. lines' \in Seq(Line)
  BY WithLineFacts
<1>4. \/ appended' = appended
      \/ appended' = Append(appended, e)
  OBVIOUS
<1>5. /\ appended' \in Seq(Event) /\ Len(appended') \in Nat
      /\ Len(appended') >= Len(appended)
      /\ \A i \in 1..Len(appended) : appended'[i] = appended[i]
  BY <1>2, <1>4
<1>6. worker \in {"run", "orphan"} /\ cached = h /\ record = None /\ cached # None
  BY FollowNoneIsFresh DEF Writes, RecordInv
<1>7. CASE Closed /\ lines' = Append(lines, [form |-> form, ev |-> e])
  <2>1. /\ Len(lines') = n + 1 /\ DOMAIN lines' = 1..n + 1
        /\ \A i \in 1..n : lines'[i] = lines[i]
        /\ lines'[n + 1].form = form /\ lines'[n + 1].ev = e
    BY <1>1, <1>7
  <2>2. Last(lines') = lines'[n + 1]
    BY <2>1 DEF Last
  <2>3. ASSUME AllParse, Parses(lines'[n + 1])
        PROVE  /\ e.seq = n + 1 /\ high[h] = n
               /\ Len(appended) = n /\ appended' = Append(appended, e)
    <3>1. high[h] = n
      BY <1>6, <1>7, <2>3 DEF CountInv
    <3>2. e.seq = n + 1
      BY <3>1 DEF NextEvent
    <3>3. Len(appended) = n
      BY <1>6, <2>3, FollowNoneIsFresh DEF FileInv
    <3> QED
      BY <2>2, <2>3, <3>1, <3>2, <3>3
  <2>4. ASSUME NEW i \in 1..n + 1, \A k \in 1..i : Parses(lines'[k])
        PROVE  lines'[i].ev.seq = i /\ i <= Len(appended') /\ appended'[i] = lines'[i].ev
    <3>1. CASE i \in 1..n
      <4>1. \A k \in 1..i : Parses(lines[k])
        BY <1>1, <2>1, <2>4, <3>1
      <4>2. lines[i].ev.seq = i /\ i <= Len(appended) /\ appended[i] = lines[i].ev
        BY <1>1, <3>1, <4>1 DEF FileInv
      <4>3. lines'[i] = lines[i]
        BY <2>1, <3>1
      <4> QED
        BY <1>2, <1>5, <3>1, <4>2, <4>3
    <3>2. CASE i = n + 1
      <4>1. AllParse
        BY <1>1, <2>1, <2>4, <3>2 DEF AllParse
      <4>2. Parses(lines'[n + 1])
        BY <1>1, <2>4, <3>2
      <4>3. /\ e.seq = n + 1 /\ Len(appended) = n /\ appended' = Append(appended, e)
        BY <2>3, <4>1, <4>2
      <4>4. Len(appended') = n + 1 /\ appended'[n + 1] = e
        BY <1>2, <4>3
      <4> QED
        BY <1>1, <2>1, <3>2, <4>3, <4>4
    <3> QED
      BY <1>1, <3>1, <3>2
  <2>5. AllParse' => AllParse /\ Parses(lines'[n + 1])
    BY <1>1, <2>1 DEF AllParse, Parses
  <2>6. ASSUME AllParse' PROVE Len(appended') = Len(lines')
    <3>1. Len(appended) = n /\ appended' = Append(appended, e)
      BY <2>3, <2>5, <2>6
    <3> QED
      BY <1>2, <2>1, <3>1
  <2>7. FileInv'
    BY <2>1, <2>4, <2>6 DEF FileInv, Parses
  <2> QED
    BY <1>3, <1>5, <2>1, <2>2, <2>3, <2>5, <2>7 DEF Parses
<1>8. CASE /\ lines # <<>>
           /\ Len(lines') = n
           /\ \A i \in 1..n - 1 : lines'[i] = lines[i]
           /\ ~Parses(lines'[n])
  <2>1. n \in DOMAIN lines' /\ DOMAIN lines' = 1..n
    BY <1>1, <1>3, <1>8
  <2>2. ~AllParse'
    BY <1>8, <2>1 DEF AllParse, Parses
  <2>3. ASSUME NEW i \in 1..n, \A k \in 1..i : Parses(lines'[k])
        PROVE  lines'[i].ev.seq = i /\ i <= Len(appended') /\ appended'[i] = lines'[i].ev
    <3>1. i \in 1..n - 1
      BY <1>1, <1>8, <2>3
    <3>2. \A k \in 1..i : Parses(lines[k])
      BY <1>1, <1>8, <2>3, <3>1
    <3>3. lines[i].ev.seq = i /\ i <= Len(appended) /\ appended[i] = lines[i].ev
      BY <1>1, <3>2 DEF FileInv
    <3>4. lines'[i] = lines[i]
      BY <1>8, <3>1
    <3> QED
      BY <1>2, <1>5, <3>3, <3>4
  <2>4. FileInv'
    BY <2>1, <2>2, <2>3 DEF FileInv, Parses
  <2> QED
    BY <1>3, <1>5, <2>2, <2>4
<1> QED
  BY <1>7, <1>8, WithLineFacts

-----------------------------------------------------------------------------
(* The log grows, and nothing else happens to what is handed on *)

LogGrows ==
  /\ appended' \in Seq(Event)
  /\ Len(appended') >= Len(appended)
  /\ \A i \in DOMAIN appended : appended'[i] = appended[i]

LEMMA AppendGrows ==
  ASSUME TypeOK, appended' = appended \/ \E e \in Event : appended' = Append(appended, e)
  PROVE  LogGrows
<1>1. appended \in Seq(Event) /\ Len(appended) \in Nat
  BY LenProperties DEF TypeOK
<1> QED
  BY <1>1 DEF LogGrows

LEMMA LogFacts ==
  ASSUME TypeOK, LogGrows
  PROVE  /\ DOMAIN appended = 1..Len(appended) /\ DOMAIN appended' = 1..Len(appended')
         /\ Len(appended) \in Nat /\ Len(appended') \in Nat
         /\ Len(appended) <= Len(appended')
         /\ \A e : Journaled(e) => e.seq \in DOMAIN appended' /\ appended'[e.seq] = e
<1>1. appended \in Seq(Event) /\ appended' \in Seq(Event)
  BY DEF TypeOK, LogGrows
<1>2. DOMAIN appended = 1..Len(appended) /\ DOMAIN appended' = 1..Len(appended')
      /\ Len(appended) \in Nat /\ Len(appended') \in Nat
  BY <1>1, LenProperties
<1> QED
  BY <1>2 DEF LogGrows, Journaled

LEMMA FollowerFacts ==
  ASSUME TypeOK
  PROVE  /\ follower.from \in Nat \ {0} /\ follower.next \in Nat /\ follower.last \in Nat
         /\ emitted \in Seq(Event) /\ Len(emitted) \in Nat /\ DOMAIN emitted = 1..Len(emitted)
         /\ wire \in Seq(Frame) /\ Len(wire) \in Nat /\ DOMAIN wire = 1..Len(wire)
         /\ stream # None => /\ stream.outbox \in Seq(Event) /\ stream.next \in Nat
                             /\ stream.handle \in Handle
<1>1. emitted \in Seq(Event) /\ wire \in Seq(Frame)
  BY DEF TypeOK
<1>2. /\ Len(emitted) \in Nat /\ DOMAIN emitted = 1..Len(emitted)
      /\ Len(wire) \in Nat /\ DOMAIN wire = 1..Len(wire)
  BY <1>1, LenProperties
<1>3. follower.from \in Nat \ {0} /\ follower.next \in Nat /\ follower.last \in Nat
  BY FollowAssumption DEF TypeOK, Follower
<1>4. stream # None => /\ stream.outbox \in Seq(Event) /\ stream.next \in Nat
                       /\ stream.handle \in Handle
  BY DEF TypeOK, Stream
<1> QED
  BY <1>1, <1>2, <1>3, <1>4

FeedInv == HandedInv /\ StreamInv /\ WireInv /\ RevokedInv

LEMMA HandedKeeps ==
  ASSUME TypeOK, LogGrows, HandedInv, UNCHANGED <<follower, emitted>>
  PROVE  HandedInv'
<1> USE FollowerFacts, LogFacts
<1>1. ASSUME NEW i \in DOMAIN emitted
      PROVE  /\ follower.from + i - 1 <= Len(appended')
             /\ emitted[i] = appended'[follower.from + i - 1]
  <2>1. follower.from + i - 1 \in DOMAIN appended
    BY <1>1 DEF HandedInv
  <2> QED
    BY <1>1, <2>1 DEF HandedInv, LogGrows
<1> QED
  BY <1>1 DEF HandedInv, Final

\* What is left of a connection: all of it, or a part of what was on the wire.
Link == UNCHANGED <<wire, stream>>
Loss == stream' = None /\ wire' \in {SubSeq(wire, 1, i) : i \in 0..Len(wire)}

\* The log may grow, and the connection may drop.
LEMMA GrowOrDrop ==
  ASSUME TypeOK, FeedInv, LogGrows, UNCHANGED <<follower, emitted, granted, before>>,
         Link \/ Loss
  PROVE  FeedInv' /\ wire' \in Seq(Frame)
<1>1. HandedInv'
  BY HandedKeeps DEF FeedInv
<1>2. StreamInv'
  BY LogFacts DEF FeedInv, StreamInv, Journaled, Link, Loss
<1>3. wire \in Seq(Frame) /\ Len(wire) \in Nat /\ DOMAIN wire = 1..Len(wire)
  BY FollowerFacts
<1>4. /\ wire' \in Seq(Frame) /\ Len(wire') <= Len(wire) /\ DOMAIN wire' = 1..Len(wire')
      /\ Len(wire') \in Nat
      /\ \A k \in DOMAIN wire' : wire'[k] = wire[k] /\ k \in DOMAIN wire
  <2>1. CASE Link
    BY <1>3, <2>1 DEF Link
  <2>2. CASE Loss
    <3>1. PICK i \in 0..Len(wire) : wire' = SubSeq(wire, 1, i)
      BY <2>2 DEF Loss
    <3>2. \A j \in 1..i : wire[j] \in Frame
      BY <1>3, ElementOfSeq
    <3>3. /\ SubSeq(wire, 1, i) \in Seq(Frame)
          /\ Len(SubSeq(wire, 1, i)) = IF 1 <= i THEN i - 1 + 1 ELSE 0
          /\ \A j \in 1..i - 1 + 1 : SubSeq(wire, 1, i)[j] = wire[1 + j - 1]
      BY <1>3, <3>2, SubSeqProperties
    <3>4. wire' \in Seq(Frame) /\ Len(wire') = i /\ \A j \in 1..i : wire'[j] = wire[j]
      BY <1>3, <3>1, <3>3
    <3>5. DOMAIN wire' = 1..Len(wire')
      BY <3>4, LenProperties
    <3> QED
      BY <1>3, <3>1, <3>4, <3>5
  <2> QED
    BY <2>1, <2>2
<1>5. WireInv'
  <2>1. \A k \in DOMAIN wire' : wire'[k].kind = "event" =>
          wire'[k].ev.seq \in DOMAIN appended' /\ appended'[wire'[k].ev.seq] = wire'[k].ev
    BY <1>4, LogFacts DEF FeedInv, WireInv, IsEvent
  <2>2. ASSUME follower.at = "attached", NEW k \in DOMAIN wire', wire'[k].kind = "event"
        PROVE  /\ wire'[k].ev.seq >= follower.next
               /\ \A i \in 1..k-1 : wire'[i].kind = "event" => wire'[i].ev.seq < wire'[k].ev.seq
               /\ \A q \in follower.next..wire'[k].ev.seq :
                    \E i \in 1..k : wire'[i].kind = "event" /\ wire'[i].ev.seq = q
    <3>1. k \in 1..k /\ \A i \in 1..k-1 : i \in 1..k
      BY <1>4, <2>2
    <3>2. k \in DOMAIN wire /\ \A i \in 1..k : i \in DOMAIN wire' /\ wire'[i] = wire[i]
      BY <1>4, <1>3, <2>2
    <3>3. wire[k].kind = "event"
      BY <2>2, <3>1, <3>2
    <3>4. /\ wire[k].ev.seq >= follower.next
          /\ \A i \in 1..k-1 : wire[i].kind = "event" => wire[i].ev.seq < wire[k].ev.seq
          /\ \A q \in follower.next..wire[k].ev.seq :
               \E i \in 1..k : wire[i].kind = "event" /\ wire[i].ev.seq = q
      BY <2>2, <3>2, <3>3 DEF FeedInv, WireInv, IsEvent
    <3> QED
      BY <3>1, <3>2, <3>4
  <2>3. ASSUME follower.at = "attached", stream' # None
        PROVE  /\ stream'.next >= follower.next
               /\ \A k \in DOMAIN wire' : wire'[k].kind = "event" => wire'[k].ev.seq < stream'.next
               /\ \A q \in follower.next..stream'.next-1 :
                    \E i \in DOMAIN wire' : wire'[i].kind = "event" /\ wire'[i].ev.seq = q
    <3>1. stream' = stream /\ wire' = wire
      BY <2>3 DEF Link, Loss
    <3> QED
      BY <2>3, <3>1 DEF FeedInv, WireInv, IsEvent
  <2>4. follower.at = "attached" => follower.last = follower.next - 1
    BY DEF FeedInv, WireInv
  <2> QED
    BY <2>1, <2>2, <2>3, <2>4 DEF WireInv, IsEvent, Journaled
<1>6. RevokedInv'
  <2>1. before # None => before \in Nat /\ before <= Len(appended')
    BY LogFacts DEF FeedInv, RevokedInv, TypeOK
  <2> QED
    BY <1>4, <2>1 DEF FeedInv, RevokedInv, IsEvent, Link, Loss
<1> QED
  BY <1>1, <1>2, <1>4, <1>5, <1>6 DEF FeedInv

-----------------------------------------------------------------------------
(* The worker and the file *)

LEMMA JournalOpens ==
  ASSUME TypeOK, FileInv, CountInv, NEW h \in Handle, Journal(h),
         UNCHANGED <<lines, record, appended, worker>>
  PROVE  /\ high' \in [Handle -> Nat] /\ cached' \in Handle \cup {None}
         /\ FileInv' /\ CountInv'
<1>1. FileInv'
  BY DEF FileInv, AllParse, Parses
<1>2. CASE cached = h /\ UNCHANGED <<high, cached>>
  BY <1>1, <1>2 DEF TypeOK, CountInv, AllParse, Closed, Parses, Last
<1>3. CASE Readable /\ high' = [high EXCEPT ![h] = LastSeq] /\ cached' = h
  <2>1. LastSeq = ReadTo /\ ReadTo \in Nat
    BY <1>3, LastSeqFacts, ReadToFacts
  <2>2. high'[h] = ReadTo /\ high' \in [Handle -> Nat]
    BY <1>3, <2>1 DEF TypeOK
  <2>3. AllParse' => ReadTo = Len(lines')
    BY DEF AllParse, ReadTo, Parses
  <2> QED
    BY <1>1, <1>3, <2>2, <2>3 DEF CountInv
<1> QED
  BY <1>2, <1>3 DEF Journal

LEMMA OpenJournalKeeps == JournalInv /\ OpenJournal => JournalInv'
<1> SUFFICES ASSUME JournalInv, OpenJournal PROVE JournalInv'
  OBVIOUS
<1>1. TypeOK /\ RecordInv /\ FileInv /\ CountInv /\ FeedInv
  BY DEF JournalInv, FeedInv
<1>2. PICK h \in Handle : Journal(h)
  BY DEF OpenJournal
<1>3. UNCHANGED <<disk, worker, stream, channel, follower, life, faults, history>>
  BY DEF OpenJournal
<1>4. /\ high' \in [Handle -> Nat] /\ cached' \in Handle \cup {None}
      /\ FileInv' /\ CountInv'
  BY <1>1, <1>2, <1>3, JournalOpens DEF disk, history
<1>5. FeedInv'
  BY <1>1, <1>3, AppendGrows, GrowOrDrop DEF disk, channel, history, Link
<1>6. RecordInv'
  BY <1>1, <1>3 DEF RecordInv, disk
<1>7. TypeOK'
  BY <1>1, <1>3, <1>4 DEF TypeOK, disk, channel, history
<1> QED
  BY <1>4, <1>5, <1>6, <1>7 DEF JournalInv, FeedInv

LEMMA EventIsTyped ==
  ASSUME TypeOK, NEW h \in Handle, NEW done \in Outcome \cup {None}, Writes(h, done)
  PROVE  /\ NextEvent(h, done) \in Event
         /\ NextEvent(h, done).seq = high[h] + 1 /\ NextEvent(h, done).seq \in 1..MaxEvents
         /\ NextEvent(h, done).life = life /\ NextEvent(h, done).done = done
         /\ NextEvent(h, done).life \in 0..MaxRestarts
  BY FollowAssumption DEF TypeOK, NextEvent, Event, Writes

LEMMA AppendEventKeeps == JournalInv /\ AppendEvent => JournalInv'
<1> SUFFICES ASSUME JournalInv, AppendEvent PROVE JournalInv'
  OBVIOUS
<1>1. TypeOK /\ RecordInv /\ FileInv /\ CountInv /\ FeedInv
  BY DEF JournalInv, FeedInv
<1>2. PICK h \in Handle, done \in Outcome \cup {None} :
        /\ Writes(h, done)
        /\ lines' = WithLine("whole", NextEvent(h, done))
        /\ appended' = Append(appended, NextEvent(h, done))
        /\ high' = [high EXCEPT ![h] = NextEvent(h, done).seq]
        /\ worker' = IF done = None THEN worker ELSE done
  BY DEF AppendEvent
<1>3. UNCHANGED <<record, granted, cached, stream, channel, follower, life, faults,
                  emitted, before>>
  BY DEF AppendEvent
<1>4. PICK e \in Event : e = NextEvent(h, done)
  BY <1>1, <1>2, EventIsTyped
<1>5. PICK form \in {"whole", "open", "torn"} : form = "whole"
  OBVIOUS
<1>6. /\ lines' \in Seq(Line) /\ appended' \in Seq(Event)
      /\ FileInv'
      /\ AllParse' => Len(lines') = high[h] + 1
  BY <1>1, <1>2, <1>3, <1>4, <1>5, WriteKeepsFile
<1>7. /\ high' \in [Handle -> Nat] /\ high'[h] = high[h] + 1
      /\ cached' = h /\ worker \in {"run", "orphan"}
  BY <1>1, <1>2, <1>3, EventIsTyped DEF TypeOK, Writes
<1>8. CountInv'
  BY <1>6, <1>7 DEF CountInv
<1>9. FeedInv'
  BY <1>1, <1>2, <1>3, <1>4, AppendGrows, GrowOrDrop DEF channel, Link
<1>10. RecordInv'
  BY <1>1, <1>2, <1>3, <1>7 DEF RecordInv
<1>11. TypeOK'
  BY <1>1, <1>2, <1>3, <1>6, <1>7 DEF TypeOK, channel
<1> QED
  BY <1>6, <1>8, <1>9, <1>10, <1>11 DEF JournalInv, FeedInv

\* What a write that is cut short leaves.
LEMMA CutShortKeeps ==
  ASSUME TypeOK, RecordInv, FileInv, CountInv, record' = record,
         NEW h \in Handle, NEW done \in Outcome \cup {None}, CutShort(h, done)
  PROVE  /\ lines' \in Seq(Line) /\ LogGrows /\ FileInv'
         /\ AllParse' => ~Closed'
         /\ appended' \in Seq(Event)
<1>1. PICK form \in {"torn", "open"} : lines' = WithLine(form, NextEvent(h, done))
  BY DEF CutShort
<1>2. Writes(h, done)
  BY DEF CutShort
<1>3. PICK e \in Event : e = NextEvent(h, done)
  BY <1>2, EventIsTyped
<1>4. appended' = IF form = "whole" \/ Parses(Last(lines')) THEN Append(appended, e) ELSE appended
  BY <1>1, <1>3 DEF CutShort
<1>5. /\ lines' \in Seq(Line) /\ appended' \in Seq(Event)
      /\ FileInv'
      /\ AllParse' => /\ Len(lines') = high[h] + 1 /\ form # "torn"
                      /\ Last(lines').form = form
  BY <1>1, <1>2, <1>3, <1>4, WriteKeepsFile
<1>6. LogGrows
  BY <1>3, <1>4, AppendGrows
<1>7. ASSUME AllParse' PROVE ~Closed'
  <2>1. Len(lines') = high[h] + 1 /\ Last(lines').form = "open" /\ high[h] \in Nat
    BY <1>5, <1>7 DEF TypeOK
  <2>2. lines' # <<>>
    BY <1>5, <2>1
  <2> QED
    BY <2>1, <2>2 DEF Closed, Last
<1> QED
  BY <1>5, <1>6, <1>7

LEMMA AppendFailsKeeps == JournalInv /\ AppendFails => JournalInv'
<1> SUFFICES ASSUME JournalInv, AppendFails PROVE JournalInv'
  OBVIOUS
<1>1. TypeOK /\ RecordInv /\ FileInv /\ CountInv /\ FeedInv
  BY DEF JournalInv, FeedInv
<1>2. PICK h \in Handle, done \in Outcome \cup {None} :
        /\ CutShort(h, done)
        /\ \/ done = None /\ worker = "run" /\ UNCHANGED <<worker, cached>>
           \/ worker' = "idle" /\ cached' = None
  BY DEF AppendFails
<1>3. UNCHANGED <<record, granted, high, stream, channel, follower, life, emitted, before>>
  BY DEF AppendFails
<1>4. /\ lines' \in Seq(Line) /\ LogGrows /\ FileInv'
      /\ AllParse' => ~Closed'
      /\ appended' \in Seq(Event)
  BY <1>1, <1>2, <1>3, CutShortKeeps
<1>5. CountInv'
  BY <1>4 DEF CountInv
<1>6. FeedInv'
  BY <1>1, <1>3, <1>4, GrowOrDrop DEF channel, Link
<1>7. RecordInv'
  BY <1>1, <1>2, <1>3 DEF RecordInv, Outcome
<1>8. faults' \in 0..MaxFaults
  BY <1>1, FollowAssumption DEF AppendFails, Fault, TypeOK
<1>9. TypeOK'
  BY <1>1, <1>2, <1>3, <1>4, <1>8 DEF TypeOK, channel
<1> QED
  BY <1>4, <1>5, <1>6, <1>7, <1>9 DEF JournalInv, FeedInv

\* The worker puts the job down, with or without having saved its outcome.
LEMMA SaveKeeps == JournalInv /\ (SaveDone \/ SaveFails) => JournalInv'
<1> SUFFICES ASSUME JournalInv, SaveDone \/ SaveFails PROVE JournalInv'
  OBVIOUS
<1>1. TypeOK /\ RecordInv /\ FileInv /\ CountInv /\ FeedInv
  BY DEF JournalInv, FeedInv
<1>2. /\ UNCHANGED <<lines, granted, high, stream, channel, follower, life, history>>
      /\ worker \in Outcome /\ worker' = "idle" /\ cached' = None
      /\ record' \in {worker, record}
  BY DEF SaveDone, SaveFails, disk
<1>3. FeedInv'
  BY <1>1, <1>2, AppendGrows, GrowOrDrop DEF channel, history, Link
<1>4. RecordInv' /\ CountInv'
  BY <1>2 DEF RecordInv, CountInv, Outcome
<1>5. record # "removed"
  BY <1>1, <1>2, FollowNoneIsFresh DEF RecordInv
<1>6. FileInv'
  BY <1>1, <1>2, <1>5 DEF FileInv, AllParse, Parses, history
<1>7. faults' \in 0..MaxFaults
  BY <1>1, FollowAssumption DEF SaveDone, SaveFails, Fault, TypeOK
<1>8. TypeOK'
  BY <1>1, <1>2, <1>7 DEF TypeOK, channel, history
<1> QED
  BY <1>3, <1>4, <1>6, <1>8 DEF JournalInv, FeedInv

LEMMA RecoverKeeps == JournalInv /\ Recover => JournalInv'
<1> SUFFICES ASSUME JournalInv, Recover PROVE JournalInv'
  OBVIOUS
<1>1. TypeOK /\ RecordInv /\ FileInv /\ CountInv /\ FeedInv
  BY DEF JournalInv, FeedInv
<1>2. /\ UNCHANGED <<disk, high, cached, stream, channel, follower, life, faults, history>>
      /\ worker = "recover" /\ worker' \in {"idle", "run", "orphan"}
      /\ worker' # "idle" => record = None
  BY DEF Recover
<1>3. FeedInv'
  BY <1>1, <1>2, AppendGrows, GrowOrDrop DEF disk, channel, history, Link
<1>4. RecordInv'
  BY <1>2 DEF RecordInv, Outcome, disk
<1>5. FileInv' /\ CountInv'
  BY <1>1, <1>2 DEF FileInv, CountInv, AllParse, Closed, Parses, Last, disk, history
<1>6. TypeOK'
  BY <1>1, <1>2 DEF TypeOK, disk, channel, history
<1> QED
  BY <1>3, <1>4, <1>5, <1>6 DEF JournalInv, FeedInv

LEMMA RetireKeeps == JournalInv /\ Retire => JournalInv'
<1> SUFFICES ASSUME JournalInv, Retire PROVE JournalInv'
  OBVIOUS
<1>1. TypeOK /\ RecordInv /\ FileInv /\ CountInv /\ FeedInv
  BY DEF JournalInv, FeedInv
<1>2. /\ UNCHANGED <<granted, agent, channel, follower, life, history>>
      /\ worker = "idle" /\ record' = "removed" /\ lines' = <<>>
  BY DEF Retire
<1>3. FeedInv'
  BY <1>1, <1>2, AppendGrows, GrowOrDrop DEF agent, channel, history, Link
<1>4. RecordInv' /\ CountInv'
  BY <1>2 DEF RecordInv, CountInv, Outcome, agent
<1>5. FileInv'
  BY <1>2 DEF FileInv
<1>6. faults' \in 0..MaxFaults
  BY <1>1, FollowAssumption DEF Retire, Fault, TypeOK
<1>7. lines' \in Seq(Line)
  BY <1>2
<1>8. TypeOK'
  BY <1>1, <1>2, <1>6, <1>7 DEF TypeOK, agent, channel, history
<1> QED
  BY <1>3, <1>4, <1>5, <1>8 DEF JournalInv, FeedInv

LEMMA RevokeKeeps == JournalInv /\ Revoke => JournalInv'
<1> SUFFICES ASSUME JournalInv, Revoke PROVE JournalInv'
  OBVIOUS
<1>1. TypeOK /\ RecordInv /\ FileInv /\ CountInv /\ FeedInv
  BY DEF JournalInv, FeedInv
<1>2. /\ UNCHANGED <<lines, record, agent, channel, follower, life, appended, emitted>>
      /\ granted' = FALSE /\ before' = Len(appended)
  BY DEF Revoke
<1>3. Len(appended) \in Nat /\ DOMAIN appended = 1..Len(appended)
  BY <1>1, LenProperties DEF TypeOK
<1>4. HandedInv' /\ StreamInv' /\ WireInv'
  BY <1>1, <1>2 DEF FeedInv, HandedInv, StreamInv, WireInv, IsEvent, Journaled, Final,
                    agent, channel
<1>5. RevokedInv'
  <2>1. \A k \in DOMAIN wire : IsEvent(k) => wire[k].ev.seq <= Len(appended)
    BY <1>1, <1>3 DEF FeedInv, WireInv, Journaled
  <2>2. stream # None => \A i \in DOMAIN stream.outbox :
                           stream.outbox[i].seq <= Len(appended)
    BY <1>1, <1>3 DEF FeedInv, StreamInv, Journaled
  <2>3. \A i \in DOMAIN emitted : follower.from + i - 1 <= Len(appended)
    BY <1>1 DEF FeedInv, HandedInv
  <2>4. before' # None
    BY <1>2, <1>3, FollowNoneIsFresh
  <2> QED
    BY <1>2, <1>3, <2>1, <2>2, <2>3, <2>4 DEF RevokedInv, IsEvent, agent, channel
<1>6. RecordInv' /\ FileInv' /\ CountInv'
  BY <1>1, <1>2, FileAlone DEF fileVars, agent
<1>7. faults' \in 0..MaxFaults
  BY <1>1, FollowAssumption DEF Revoke, Fault, TypeOK
<1>8. TypeOK'
  BY <1>1, <1>2, <1>3, <1>7 DEF TypeOK, agent, channel
<1> QED
  BY <1>4, <1>5, <1>6, <1>8 DEF JournalInv

LEMMA RestartKeeps == JournalInv /\ Restart => JournalInv'
<1> SUFFICES ASSUME JournalInv, Restart PROVE JournalInv'
  OBVIOUS
<1>1. TypeOK /\ RecordInv /\ FileInv /\ CountInv /\ FeedInv
  BY DEF JournalInv, FeedInv
<1>2. /\ UNCHANGED <<record, granted, follower, faults, emitted, before>>
      /\ high' = [h \in Handle |-> 0] /\ cached' = None /\ worker' = "recover"
      /\ life < MaxRestarts /\ life' = life + 1
      /\ link' = "down" /\ Loss
  BY DEF Restart, Drop, Loss
<1>3. lines' \in Seq(Line) /\ LogGrows /\ FileInv'
  <2>1. CASE UNCHANGED <<lines, appended>>
    <3>1. LogGrows
      BY <1>1, <2>1, AppendGrows
    <3>2. FileInv'
      BY <1>1, <1>2, <2>1 DEF FileInv, AllParse, Parses
    <3> QED
      BY <1>1, <2>1, <3>1, <3>2 DEF TypeOK
  <2>2. CASE \E h \in Handle, done \in Outcome \cup {None} : CutShort(h, done)
    BY <1>1, <1>2, <2>2, CutShortKeeps
  <2> QED
    BY <2>1, <2>2 DEF Restart
<1>4. FeedInv' /\ wire' \in Seq(Frame)
  BY <1>1, <1>2, <1>3, GrowOrDrop
<1>5. RecordInv' /\ CountInv'
  BY <1>2 DEF RecordInv, CountInv, Outcome
<1>6. life' \in 0..MaxRestarts
  BY <1>1, <1>2, FollowAssumption DEF TypeOK
<1>7. stream' = None
  BY <1>2 DEF Loss
<1>8. high' \in [Handle -> Nat]
  BY <1>2
<1>9. TypeOK'
  BY <1>1, <1>2, <1>3, <1>4, <1>6, <1>7, <1>8 DEF TypeOK, LogGrows
<1> QED
  BY <1>3, <1>4, <1>5, <1>9 DEF JournalInv, FeedInv

LEMMA CutKeeps == JournalInv /\ Cut => JournalInv'
<1> SUFFICES ASSUME JournalInv, Cut PROVE JournalInv'
  OBVIOUS
<1>1. TypeOK /\ RecordInv /\ FileInv /\ CountInv /\ FeedInv
  BY DEF JournalInv, FeedInv
<1>2. /\ UNCHANGED <<disk, high, cached, worker, follower, life, history>>
      /\ link' = "down" /\ Loss
  BY DEF Cut, Drop, Loss
<1>3. FeedInv' /\ wire' \in Seq(Frame)
  BY <1>1, <1>2, AppendGrows, GrowOrDrop DEF disk, history
<1>4. RecordInv' /\ FileInv' /\ CountInv'
  BY <1>1, <1>2, FileAlone DEF fileVars, disk, history
<1>5. faults' \in 0..MaxFaults
  BY <1>1, FollowAssumption DEF Cut, Fault, TypeOK
<1>6. stream' = None
  BY <1>2 DEF Loss
<1>7. TypeOK'
  BY <1>1, <1>2, <1>3, <1>5, <1>6 DEF TypeOK, disk, history
<1> QED
  BY <1>3, <1>4, <1>7 DEF JournalInv, FeedInv

-----------------------------------------------------------------------------
(* The node's end of a connection *)

LEMMA AttachKeeps == JournalInv /\ Attach => JournalInv'
<1> SUFFICES ASSUME JournalInv, Attach PROVE JournalInv'
  OBVIOUS
<1>1. TypeOK /\ RecordInv /\ FileInv /\ CountInv /\ HandedInv /\ RevokedInv
  BY DEF JournalInv
<1>2. /\ UNCHANGED <<disk, worker, life, faults, history>>
      /\ follower.at = "attach"
      /\ follower' = [follower EXCEPT !.at = "attached", !.last = follower.next - 1]
  BY DEF Attach
<1>3. /\ follower.next \in Nat \ {0} /\ follower.from \in Nat \ {0}
      /\ follower.next = follower.from + Len(emitted) /\ Len(emitted) \in Nat
  BY <1>1, FollowerFacts DEF HandedInv
<1>4. /\ follower' \in Follower /\ follower'.next = follower.next
      /\ follower'.from = follower.from /\ follower'.at = "attached"
      /\ follower'.last = follower.next - 1
  <2>1. follower.next - 1 \in Nat /\ follower \in Follower
    BY <1>1, <1>3 DEF TypeOK
  <2>2. follower.next - 1 = follower.next - 1
    OBVIOUS
  <2> DEFINE l == follower.next - 1
  <2>3. l \in Nat /\ l = follower.next - 1
    BY <2>1
  <2> HIDE DEF l
  <2>4. follower' = [follower EXCEPT !.at = "attached", !.last = l]
    BY <1>2, <2>3
  <2>5. [follower EXCEPT !.at = "attached", !.last = l] \in Follower
    BY <2>1, <2>3 DEF Follower
  <2> QED
    BY <2>1, <2>3, <2>4, <2>5 DEF Follower
<1>5. HandedInv'
  BY <1>1, <1>2, <1>4 DEF HandedInv, Final, history
<1>6. CASE /\ granted
           /\ \E h \in Handle :
                /\ Journal(h)
                /\ stream' = [at |-> "pass", handle |-> h, seen |-> high'[h],
                              next |-> follower.next, outbox |-> <<>>, beat |-> None]
           /\ link' = "up" /\ wire' = <<>>
  <2>1. PICK h \in Handle :
          /\ Journal(h)
          /\ stream' = [at |-> "pass", handle |-> h, seen |-> high'[h],
                        next |-> follower.next, outbox |-> <<>>, beat |-> None]
    BY <1>6
  <2>2. /\ high' \in [Handle -> Nat] /\ cached' \in Handle \cup {None}
        /\ FileInv' /\ CountInv'
    BY <1>1, <1>2, <2>1, JournalOpens DEF disk, history
  <2>3. high'[h] \in Nat
    BY <2>2
  <2>4. stream' \in Stream
    BY <1>3, <2>1, <2>3 DEF Stream
  <2>5. stream' # None => /\ stream'.next = follower.next /\ stream'.outbox = <<>>
                          /\ Beats(stream')
    BY <2>1 DEF Beats
  <2>6. StreamInv' /\ WireInv' /\ RevokedInv'
    BY <1>1, <1>2, <1>3, <1>4, <1>6, <2>5 DEF StreamInv, WireInv, RevokedInv, IsEvent, Journaled,
       disk, history
  <2>7. RecordInv'
    BY <1>1, <1>2 DEF RecordInv, disk
  <2>8. TypeOK'
    BY <1>1, <1>2, <1>4, <1>6, <2>2, <2>4 DEF TypeOK, disk, history
  <2> QED
    BY <1>5, <2>2, <2>6, <2>7, <2>8 DEF JournalInv
<1>7. CASE /\ link' = "closing" /\ wire' = <<[kind |-> "refused"]>> /\ stream' = None
           /\ UNCHANGED <<high, cached>>
  <2>1. RecordInv' /\ FileInv' /\ CountInv'
    BY <1>1, <1>2, <1>7, FileAlone DEF fileVars, disk, history
  <2>2. wire' \in Seq(Frame) /\ \A k \in DOMAIN wire' : wire'[k].kind # "event"
    <3>1. [kind |-> "refused"] \in Frame
      BY DEF Frame
    <3> QED
      BY <1>7, <3>1
  <2>3. StreamInv' /\ WireInv' /\ RevokedInv'
    BY <1>1, <1>2, <1>3, <1>4, <1>7, <2>2 DEF StreamInv, WireInv, RevokedInv, IsEvent, Journaled,
       disk, history
  <2>4. TypeOK'
    BY <1>1, <1>2, <1>4, <1>7, <2>2 DEF TypeOK, disk, history
  <2> QED
    BY <1>5, <2>1, <2>3, <2>4 DEF JournalInv
<1> QED
  BY <1>6, <1>7 DEF Attach

\* One frame more on the wire: an event only if it is the one to come.
LEMMA FrameFits ==
  ASSUME JournalInv, UNCHANGED notServing, stream # None,
         NEW f \in Frame, wire' = Append(wire, f),
         f.kind = "event" => /\ f.ev.seq = stream.next /\ Journaled(f.ev)
                             /\ before # None => f.ev.seq <= before,
         stream' # None =>
           stream'.next = IF f.kind = "event" THEN stream.next + 1 ELSE stream.next
  PROVE  /\ WireInv' /\ wire' \in Seq(Frame)
         /\ before # None =>
              \A k \in DOMAIN wire' : wire'[k].kind = "event" => wire'[k].ev.seq <= before
<1> DEFINE n == Len(wire)
<1>1. UNCHANGED <<follower, appended, before, emitted>>
  BY DEF notServing, history
<1>2. TypeOK /\ WireInv /\ RevokedInv
  BY DEF JournalInv
<1>3. /\ wire \in Seq(Frame) /\ n \in Nat /\ DOMAIN wire = 1..n
      /\ stream.next \in Nat /\ follower.next \in Nat
  BY <1>2, FollowerFacts
<1>4. /\ wire' \in Seq(Frame) /\ DOMAIN wire' = 1..n + 1
      /\ \A k \in 1..n : wire'[k] = wire[k] /\ k \in DOMAIN wire
      /\ wire'[n + 1] = f
  BY <1>3, AppendProperties
<1> HIDE DEF n
<1>5. \A k \in DOMAIN wire' : wire'[k].kind = "event" => Journaled(wire'[k].ev)
  BY <1>2, <1>3, <1>4 DEF WireInv, IsEvent
<1>6. ASSUME follower.at = "attached", NEW k \in DOMAIN wire', wire'[k].kind = "event"
      PROVE  /\ wire'[k].ev.seq >= follower.next
             /\ \A i \in 1..k-1 : wire'[i].kind = "event" => wire'[i].ev.seq < wire'[k].ev.seq
             /\ \A q \in follower.next..wire'[k].ev.seq :
                  \E i \in 1..k : wire'[i].kind = "event" /\ wire'[i].ev.seq = q
  <2>1. CASE k \in 1..n
    <3>1. /\ wire[k].ev.seq >= follower.next
          /\ \A i \in 1..k-1 : wire[i].kind = "event" => wire[i].ev.seq < wire[k].ev.seq
          /\ \A q \in follower.next..wire[k].ev.seq :
               \E i \in 1..k : wire[i].kind = "event" /\ wire[i].ev.seq = q
      BY <1>2, <1>4, <1>6, <2>1 DEF WireInv, IsEvent
    <3>2. \A i \in 1..k : i \in 1..n
      BY <1>3, <2>1
    <3>3. \A i \in 1..k-1 : i \in 1..n
      BY <1>3, <2>1
    <3> QED
      BY <1>4, <2>1, <3>1, <3>2, <3>3
  <2>2. CASE k = n + 1
    <3>1. f.kind = "event" /\ wire'[k] = f /\ f.ev.seq = stream.next
      BY <1>4, <1>6, <2>2
    <3>2. /\ stream.next >= follower.next
          /\ \A i \in DOMAIN wire : wire[i].kind = "event" => wire[i].ev.seq < stream.next
          /\ \A q \in follower.next..stream.next-1 :
               \E i \in DOMAIN wire : wire[i].kind = "event" /\ wire[i].ev.seq = q
      BY <1>2, <1>6 DEF WireInv, IsEvent
    <3>3. \A i \in 1..k-1 : wire'[i].kind = "event" => wire'[i].ev.seq < stream.next
      BY <1>3, <1>4, <2>2, <3>2
    <3>4. ASSUME NEW q \in follower.next..stream.next
          PROVE  \E i \in 1..k : wire'[i].kind = "event" /\ wire'[i].ev.seq = q
      <4>1. CASE q = stream.next
        BY <1>3, <1>6, <2>2, <3>1, <4>1
      <4>2. CASE q # stream.next
        <5>1. q \in follower.next..stream.next-1
          BY <1>3, <4>2
        <5>2. PICK i \in DOMAIN wire : wire[i].kind = "event" /\ wire[i].ev.seq = q
          BY <3>2, <5>1
        <5> QED
          BY <1>3, <1>4, <2>2, <5>2
      <4> QED
        BY <4>1, <4>2
    <3> QED
      BY <3>1, <3>2, <3>3, <3>4
  <2> QED
    BY <1>3, <1>4, <2>1, <2>2
<1>7. ASSUME follower.at = "attached", stream' # None
      PROVE  /\ stream'.next >= follower.next
             /\ \A k \in DOMAIN wire' : wire'[k].kind = "event" => wire'[k].ev.seq < stream'.next
             /\ \A q \in follower.next..stream'.next-1 :
                  \E i \in DOMAIN wire' : wire'[i].kind = "event" /\ wire'[i].ev.seq = q
  <2>1. /\ stream.next >= follower.next
        /\ \A i \in DOMAIN wire : wire[i].kind = "event" => wire[i].ev.seq < stream.next
        /\ \A q \in follower.next..stream.next-1 :
             \E i \in DOMAIN wire : wire[i].kind = "event" /\ wire[i].ev.seq = q
    BY <1>2, <1>7 DEF WireInv, IsEvent
  <2>2. stream'.next = IF f.kind = "event" THEN stream.next + 1 ELSE stream.next
    BY <1>7
  <2>3. \A i \in 1..n : wire[i].kind = "event" => wire[i].ev.seq \in Nat /\ wire[i].ev.seq < stream.next
    <3>1. \A i \in 1..n : wire[i].kind = "event" => wire[i].ev.seq \in DOMAIN appended
      BY <1>2, <1>3 DEF WireInv, IsEvent, Journaled
    <3>2. DOMAIN appended = 1..Len(appended)
      BY <1>2, LenProperties DEF TypeOK
    <3> QED
      BY <1>3, <2>1, <3>1, <3>2
  <2>4. \A k \in DOMAIN wire' : wire'[k].kind = "event" => wire'[k].ev.seq < stream'.next
    BY <1>3, <1>4, <2>2, <2>3
  <2>5. ASSUME NEW q \in follower.next..stream'.next-1
        PROVE  \E i \in DOMAIN wire' : wire'[i].kind = "event" /\ wire'[i].ev.seq = q
    <3>1. CASE q \in follower.next..stream.next-1
      <4>1. PICK i \in DOMAIN wire : wire[i].kind = "event" /\ wire[i].ev.seq = q
        BY <2>1, <3>1
      <4> QED
        BY <1>3, <1>4, <4>1
    <3>2. CASE q \notin follower.next..stream.next-1
      <4>1. f.kind = "event" /\ q = stream.next
        BY <1>3, <2>2, <3>2
      <4>2. n + 1 \in DOMAIN wire'
        BY <1>3, <1>4
      <4> QED
        BY <1>4, <4>1, <4>2
    <3> QED
      BY <3>1, <3>2
  <2> QED
    BY <1>3, <2>1, <2>2, <2>4, <2>5
<1>8. follower.at = "attached" => follower.last = follower.next - 1
  BY <1>2 DEF WireInv
<1>9. WireInv'
  BY <1>1, <1>5, <1>6, <1>7, <1>8 DEF WireInv, IsEvent, Journaled
<1>10. before # None =>
         \A k \in DOMAIN wire' : wire'[k].kind = "event" => wire'[k].ev.seq <= before
  BY <1>2, <1>3, <1>4 DEF RevokedInv, IsEvent
<1> QED
  BY <1>4, <1>9, <1>10

\* What a step of the stream has to show.
LEMMA ServingKeeps ==
  ASSUME JournalInv, UNCHANGED notServing,
         link' \in {"up", "closing", "down"}, wire' \in Seq(Frame),
         stream' \in Stream \cup {None}, StreamInv', WireInv',
         before # None =>
           /\ \A k \in DOMAIN wire' : wire'[k].kind = "event" => wire'[k].ev.seq <= before
           /\ stream' # None => \A i \in DOMAIN stream'.outbox : stream'.outbox[i].seq <= before
  PROVE  JournalInv'
<1>1. UNCHANGED <<disk, high, cached, worker, follower, life, faults, history>>
  BY DEF notServing
<1>2. TypeOK /\ RecordInv /\ FileInv /\ CountInv /\ HandedInv /\ RevokedInv
  BY DEF JournalInv
<1>3. RecordInv' /\ FileInv' /\ CountInv'
  BY <1>1, <1>2, FileAlone DEF fileVars, disk, history
<1>4. HandedInv'
  BY <1>1, <1>2 DEF HandedInv, Final, history
<1>5. RevokedInv'
  BY <1>1, <1>2 DEF RevokedInv, IsEvent, disk, history
<1>6. TypeOK'
  BY <1>1, <1>2 DEF TypeOK, disk, history
<1> QED
  BY <1>3, <1>4, <1>5, <1>6 DEF JournalInv

\* A last frame that is no event, or no frame at all, and the stream is over.
LEMMA ClosingKeeps ==
  ASSUME JournalInv, UNCHANGED notServing, stream # None,
         Close(<<>>) \/ \E f \in Frame : /\ Close(<<f>>)
                                         /\ f.kind = "event" =>
                                              /\ f.ev.seq = stream.next /\ Journaled(f.ev)
                                              /\ before # None => f.ev.seq <= before
  PROVE  JournalInv'
<1>1. link' = "closing" /\ stream' = None
  BY DEF Close
<1>2. TypeOK /\ WireInv /\ RevokedInv /\ wire \in Seq(Frame)
  BY FollowerFacts DEF JournalInv
<1>3. StreamInv'
  BY <1>1 DEF StreamInv
<1>4. CASE Close(<<>>)
  <2>1. wire' = wire
    BY <1>2, <1>4 DEF Close
  <2>2. WireInv'
    BY <1>1, <1>2, <2>1 DEF WireInv, IsEvent, Journaled, notServing, history
  <2>3. before # None =>
          \A k \in DOMAIN wire' : wire'[k].kind = "event" => wire'[k].ev.seq <= before
    BY <1>2, <2>1 DEF RevokedInv, IsEvent
  <2> QED
    BY <1>1, <1>2, <1>3, <2>1, <2>2, <2>3, ServingKeeps
<1>5. CASE \E f \in Frame : /\ Close(<<f>>)
                            /\ f.kind = "event" => /\ f.ev.seq = stream.next /\ Journaled(f.ev)
                                                   /\ before # None => f.ev.seq <= before
  <2>1. PICK f \in Frame : /\ Close(<<f>>)
                           /\ f.kind = "event" => /\ f.ev.seq = stream.next /\ Journaled(f.ev)
                                                  /\ before # None => f.ev.seq <= before
    BY <1>5
  <2>2. wire' = Append(wire, f)
    BY <1>2, <2>1 DEF Close
  <2>3. /\ WireInv' /\ wire' \in Seq(Frame)
        /\ before # None =>
             \A k \in DOMAIN wire' : wire'[k].kind = "event" => wire'[k].ev.seq <= before
    BY <1>1, <2>1, <2>2, FrameFits
  <2> QED
    BY <1>1, <1>3, <2>3, ServingKeeps
<1> QED
  BY <1>4, <1>5

\* The stream goes on where it is, and nothing is put on the wire.
LEMMA StreamingKeeps ==
  ASSUME JournalInv, UNCHANGED <<channel, notServing>>, stream # None,
         stream' \in Stream, stream'.next = stream.next, StreamInv',
         before # None =>
           \A i \in DOMAIN stream'.outbox : stream'.outbox[i].seq <= before
  PROVE  JournalInv'
<1>1. UNCHANGED <<link, wire, follower, appended, before>>
  BY DEF channel, notServing, history
<1>2. TypeOK /\ WireInv /\ RevokedInv
  BY DEF JournalInv
<1>3. WireInv'
  BY <1>1, <1>2 DEF WireInv, IsEvent, Journaled
<1>4. before # None =>
        \A k \in DOMAIN wire' : wire'[k].kind = "event" => wire'[k].ev.seq <= before
  BY <1>1, <1>2 DEF RevokedInv, IsEvent
<1>5. link' \in {"up", "closing", "down"} /\ wire' \in Seq(Frame)
  BY <1>1, <1>2 DEF TypeOK
<1> QED
  BY <1>3, <1>4, <1>5, ServingKeeps

LEMMA PassKeeps == JournalInv /\ Pass => JournalInv'
<1> SUFFICES ASSUME JournalInv, Pass PROVE JournalInv'
  OBVIOUS
<1>1. UNCHANGED notServing /\ stream # None
  BY DEF Pass, Streaming
<1>2. TypeOK /\ FileInv /\ StreamInv /\ RevokedInv /\ stream \in Stream
  BY <1>1 DEF JournalInv, TypeOK
<1>3. CASE /\ granted /\ Readable
           /\ stream' = [stream EXCEPT !.at = "send", !.outbox = Replay(stream.next)]
           /\ UNCHANGED channel
  <2> DEFINE out == Replay(stream.next)
  <2>1. stream.next \in Nat \ {0}
    BY <1>1, <1>2 DEF StreamInv
  <2>2. /\ out \in Seq(Event)
        /\ \A i \in DOMAIN out : out[i].seq = stream.next + i - 1 /\ Journaled(out[i])
    BY <1>2, <1>3, <2>1, ReplayFacts
  <2> HIDE DEF out
  <2>3. stream' = [stream EXCEPT !.at = "send", !.outbox = out]
    BY <1>3 DEF out
  <2>4. /\ stream' \in Stream /\ stream'.next = stream.next /\ stream'.outbox = out
        /\ Beats(stream')
    BY <1>2, <2>2, <2>3 DEF Stream, Beats
  <2>5. StreamInv'
    BY <1>1, <2>1, <2>2, <2>4 DEF StreamInv, Journaled, notServing, history
  <2>6. before = None
    BY <1>2, <1>3 DEF RevokedInv
  <2> QED
    BY <1>1, <1>3, <2>4, <2>5, <2>6, StreamingKeeps
<1>4. CASE Close(<<>>)
  BY <1>1, <1>4, ClosingKeeps
<1>5. CASE Close(<<[kind |-> "refused"]>>)
  <2>1. [kind |-> "refused"] \in Frame
    BY DEF Frame
  <2> QED
    BY <1>1, <1>5, <2>1, ClosingKeeps
<1> QED
  BY <1>3, <1>4, <1>5 DEF Pass

LEMMA SendEventKeeps == JournalInv /\ SendEvent => JournalInv'
<1> SUFFICES ASSUME JournalInv, SendEvent PROVE JournalInv'
  OBVIOUS
<1>1. UNCHANGED notServing /\ stream # None /\ stream.outbox # <<>>
  BY DEF SendEvent, Streaming
<1>2. TypeOK /\ StreamInv /\ RevokedInv /\ stream \in Stream
  BY <1>1 DEF JournalInv, TypeOK
<1> DEFINE out == stream.outbox
           e == Head(out)
           f == [kind |-> "event", ev |-> e]
<1>3. /\ out \in Seq(Event) /\ out # <<>> /\ Len(out) \in Nat \ {0}
      /\ DOMAIN out = 1..Len(out) /\ e = out[1] /\ e \in Event
      /\ Tail(out) \in Seq(Event) /\ Len(Tail(out)) = Len(out) - 1
      /\ DOMAIN Tail(out) = 1..Len(out) - 1
      /\ \A i \in 1..Len(out) - 1 : Tail(out)[i] = out[i + 1]
  BY <1>1, <1>2 DEF Stream
<1>4. /\ stream.next \in Nat \ {0}
      /\ \A i \in DOMAIN out : out[i].seq = stream.next + i - 1 /\ Journaled(out[i])
      /\ before # None => \A i \in DOMAIN out : out[i].seq <= before
  BY <1>1, <1>2 DEF StreamInv, RevokedInv
<1>5. \/ Close(<<f>>)
      \/ /\ stream' = [stream EXCEPT !.outbox = Tail(out), !.next = e.seq + 1]
         /\ wire' = wire \o <<f>>
         /\ UNCHANGED link
  BY DEF SendEvent
<1> HIDE DEF out, e
<1>6. /\ e.seq = stream.next /\ Journaled(e)
      /\ before # None => e.seq <= before
  BY <1>3, <1>4
<1>7. f \in Frame /\ f.kind = "event" /\ f.ev = e
  BY <1>3 DEF Frame
<1> HIDE DEF f
<1>8. CASE Close(<<f>>)
  BY <1>1, <1>6, <1>7, <1>8, ClosingKeeps
<1>9. CASE /\ stream' = [stream EXCEPT !.outbox = Tail(out), !.next = e.seq + 1]
           /\ wire' = wire \o <<f>>
           /\ UNCHANGED link
  <2>1. wire' = Append(wire, f)
    BY <1>2, <1>9 DEF TypeOK
  <2>2. /\ stream' \in Stream /\ stream'.next = stream.next + 1 /\ stream'.outbox = Tail(out)
        /\ Beats(stream')
    <3>1. e.seq + 1 = stream.next + 1 /\ stream.next + 1 \in Nat
      BY <1>4, <1>6
    <3>2. PICK next \in Nat : next = e.seq + 1 /\ next = stream.next + 1
      BY <3>1
    <3>3. PICK rest \in Seq(Event) : rest = Tail(out)
      BY <1>3
    <3>4. stream' = [stream EXCEPT !.outbox = rest, !.next = next]
      BY <1>9, <3>2, <3>3
    <3>5. [stream EXCEPT !.outbox = rest, !.next = next] \in Stream
      BY <1>2 DEF Stream
    <3>6. stream.at = "send"
      BY DEF SendEvent, Streaming
    <3> QED
      BY <1>2, <3>2, <3>3, <3>4, <3>5, <3>6 DEF Stream, Beats
  <2>3. /\ WireInv' /\ wire' \in Seq(Frame)
        /\ before # None =>
             \A k \in DOMAIN wire' : wire'[k].kind = "event" => wire'[k].ev.seq <= before
    BY <1>1, <1>6, <1>7, <2>1, <2>2, FrameFits
  <2>4. UNCHANGED appended
    BY <1>1 DEF notServing, history
  <2>5. \A i \in 1..Len(out) - 1 : /\ Tail(out)[i].seq = stream.next + 1 + i - 1
                                   /\ Journaled(Tail(out)[i])
                                   /\ before # None => Tail(out)[i].seq <= before
    <3> SUFFICES ASSUME NEW i \in 1..Len(out) - 1
                 PROVE  /\ Tail(out)[i].seq = stream.next + 1 + i - 1
                        /\ Journaled(Tail(out)[i])
                        /\ before # None => Tail(out)[i].seq <= before
      OBVIOUS
    <3>1. i + 1 \in DOMAIN out /\ Tail(out)[i] = out[i + 1]
      BY <1>3
    <3>2. out[i + 1].seq = stream.next + (i + 1) - 1 /\ Journaled(out[i + 1])
      BY <1>4, <3>1
    <3> QED
      BY <1>4, <3>1, <3>2
  <2>6. StreamInv'
    BY <1>3, <1>4, <2>2, <2>4, <2>5 DEF StreamInv, Journaled
  <2>7. before # None => \A i \in DOMAIN stream'.outbox : stream'.outbox[i].seq <= before
    BY <1>3, <2>2, <2>5
  <2>8. link' \in {"up", "closing", "down"}
    BY <1>2, <1>9 DEF TypeOK
  <2> QED
    BY <1>1, <2>2, <2>3, <2>6, <2>7, <2>8, ServingKeeps
<1> QED
  BY <1>5, <1>8, <1>9

\* A heartbeat, a wait, a wake: the outbox has been sent.
LEMMA QuietKeeps == JournalInv /\ (Look \/ Wake \/ Tick) => JournalInv'
<1> SUFFICES ASSUME JournalInv, Look \/ Wake \/ Tick PROVE JournalInv'
  OBVIOUS
<1>1. UNCHANGED notServing /\ stream # None
  BY DEF Look, Wake, Tick, Streaming
<1>2. TypeOK /\ StreamInv /\ RevokedInv /\ stream \in Stream /\ high \in [Handle -> Nat]
  BY <1>1 DEF JournalInv, TypeOK
<1>3. stream.handle \in Handle /\ high[stream.handle] \in Nat
  BY <1>2 DEF Stream
<1>4. \A over \in BOOLEAN : /\ Heartbeat(stream.handle, over) \in Frame
                            /\ Heartbeat(stream.handle, over).kind = "heartbeat"
  BY <1>3 DEF Heartbeat, Frame
<1>5. ASSUME NEW s, stream' = s, s \in Stream, s.next = stream.next, s.outbox = stream.outbox,
             Beats(s)
      PROVE  /\ StreamInv'
             /\ before # None =>
                  \A i \in DOMAIN stream'.outbox : stream'.outbox[i].seq <= before
  BY <1>1, <1>2, <1>5 DEF StreamInv, RevokedInv, Journaled, notServing, history
<1>6. CASE Look
  <2> DEFINE beat == Heartbeat(stream.handle, record # None)
  <2>1. beat \in Frame /\ beat.kind = "heartbeat"
    BY <1>4
  <2>2. \/ Close(<<beat>>)
        \/ stream' = [stream EXCEPT !.at = "wait", !.beat = beat] /\ UNCHANGED channel
    BY <1>6 DEF Look
  <2> HIDE DEF beat
  <2>3. CASE Close(<<beat>>)
    BY <1>1, <2>1, <2>3, ClosingKeeps
  <2>4. CASE stream' = [stream EXCEPT !.at = "wait", !.beat = beat] /\ UNCHANGED channel
    <3>1. /\ stream' \in Stream /\ stream'.next = stream.next
          /\ stream'.outbox = stream.outbox /\ Beats(stream')
      BY <1>2, <2>1, <2>4 DEF Stream, Beats
    <3> QED
      BY <1>1, <1>5, <2>4, <3>1, StreamingKeeps
  <2> QED
    BY <2>2, <2>3, <2>4
<1>7. CASE Wake
  <2>1. stream' = [stream EXCEPT !.at = "pass", !.seen = high[stream.handle]]
        /\ UNCHANGED channel
    BY <1>7 DEF Wake
  <2>2. /\ stream' \in Stream /\ stream'.next = stream.next
        /\ stream'.outbox = stream.outbox /\ Beats(stream')
    BY <1>2, <1>3, <2>1 DEF Stream, Beats
  <2> QED
    BY <1>1, <1>5, <2>1, <2>2, StreamingKeeps
<1>8. CASE Tick
  <2>1. /\ wire' = Append(wire, stream.beat) /\ UNCHANGED link
        /\ stream' = [stream EXCEPT !.at = "pass", !.beat = None]
        /\ stream.at = "wait"
    BY <1>8 DEF Tick, Streaming
  <2>2. /\ stream' \in Stream /\ stream'.next = stream.next
        /\ stream'.outbox = stream.outbox /\ Beats(stream')
    BY <1>2, <2>1 DEF Stream, Beats
  <2>3. stream.beat \in Frame /\ stream.beat.kind = "heartbeat"
    BY <1>1, <1>2, <2>1 DEF StreamInv, Beats
  <2>4. PICK f \in Frame : f = stream.beat /\ f.kind = "heartbeat"
    BY <2>3
  <2>5. /\ WireInv' /\ wire' \in Seq(Frame)
        /\ before # None =>
             \A k \in DOMAIN wire' : wire'[k].kind = "event" => wire'[k].ev.seq <= before
    BY <1>1, <2>1, <2>2, <2>4, FrameFits
  <2>6. link' \in {"up", "closing", "down"}
    BY <1>2, <2>1 DEF TypeOK
  <2> QED
    BY <1>1, <1>5, <2>2, <2>5, <2>6, ServingKeeps
<1> QED
  BY <1>6, <1>7, <1>8

-----------------------------------------------------------------------------
(* The follower *)

\* The first event on the wire is the one the follower is to be handed next.
LEMMA HeadIsNext ==
  ASSUME JournalInv, follower.at = "attached", wire # <<>>, Head(wire).kind = "event"
  PROVE  /\ Head(wire).ev.seq = follower.next /\ Journaled(Head(wire).ev)
         /\ Head(wire).ev \in Event
         /\ follower.next \in Nat \ {0} /\ follower.last = follower.next - 1
<1>1. TypeOK /\ WireInv /\ HandedInv
  BY DEF JournalInv
<1>2. /\ wire \in Seq(Frame) /\ Len(wire) \in Nat /\ DOMAIN wire = 1..Len(wire)
      /\ follower.next \in Nat /\ follower.from \in Nat \ {0} /\ Len(emitted) \in Nat
  BY <1>1, FollowerFacts
<1>3. 1 \in DOMAIN wire /\ wire[1] = Head(wire) /\ wire[1] \in Frame /\ wire[1].kind = "event"
  BY <1>2
<1>4. /\ wire[1].ev.seq >= follower.next
      /\ \A q \in follower.next..wire[1].ev.seq :
           \E i \in 1..1 : wire[i].kind = "event" /\ wire[i].ev.seq = q
      /\ Journaled(wire[1].ev)
  BY <1>1, <1>3 DEF WireInv, IsEvent
<1>5. wire[1].ev \in Event /\ wire[1].ev.seq \in Nat
  BY <1>3 DEF Frame, Event
<1>6. wire[1].ev.seq = follower.next
  BY <1>2, <1>4, <1>5
<1>7. follower.next # 0
  BY <1>1, <1>2 DEF HandedInv
<1> QED
  BY <1>1, <1>2, <1>3, <1>4, <1>5, <1>6, <1>7 DEF WireInv

\* One frame fewer on the wire.
LEMMA TailFits ==
  ASSUME JournalInv, follower.at = "attached", wire # <<>>, wire' = Tail(wire),
         UNCHANGED <<stream, appended>>,
         follower'.at = "attached" =>
           /\ follower'.next = IF Head(wire).kind = "event" THEN follower.next + 1
                               ELSE follower.next
           /\ follower'.last = follower'.next - 1
  PROVE  /\ WireInv' /\ wire' \in Seq(Frame)
         /\ before # None =>
              \A k \in DOMAIN wire' : wire'[k].kind = "event" => wire'[k].ev.seq <= before
<1> DEFINE n == Len(wire)
<1>1. TypeOK /\ WireInv /\ RevokedInv
  BY DEF JournalInv
<1>2. /\ wire \in Seq(Frame) /\ n \in Nat /\ DOMAIN wire = 1..n /\ follower.next \in Nat
      /\ stream # None => stream.next \in Nat
  BY <1>1, FollowerFacts
<1>3. /\ n \in Nat \ {0} /\ wire[1] = Head(wire)
      /\ wire' \in Seq(Frame) /\ DOMAIN wire' = 1..n - 1
      /\ \A k \in 1..n - 1 : wire'[k] = wire[k + 1] /\ k + 1 \in DOMAIN wire
  BY <1>2
<1> HIDE DEF n
<1>4. \A k \in DOMAIN wire : wire[k].kind = "event" =>
        /\ wire[k].ev.seq \in Nat /\ wire[k].ev.seq >= follower.next
        /\ \A i \in 1..k-1 : wire[i].kind = "event" => wire[i].ev.seq < wire[k].ev.seq
        /\ \A q \in follower.next..wire[k].ev.seq :
             \E i \in 1..k : wire[i].kind = "event" /\ wire[i].ev.seq = q
  <2>1. \A k \in DOMAIN wire : wire[k].kind = "event" => wire[k].ev.seq \in Nat
    <3>1. \A k \in DOMAIN wire : wire[k].kind = "event" => wire[k].ev.seq \in DOMAIN appended
      BY <1>1 DEF WireInv, IsEvent, Journaled
    <3>2. DOMAIN appended = 1..Len(appended)
      BY <1>1, LenProperties DEF TypeOK
    <3> QED
      BY <3>1, <3>2
  <2> QED
    BY <1>1, <2>1 DEF WireInv, IsEvent
<1>5. ASSUME follower'.at = "attached"
      PROVE  \/ /\ wire[1].kind = "event" /\ wire[1].ev.seq = follower.next
                /\ follower'.next = follower.next + 1
             \/ wire[1].kind # "event" /\ follower'.next = follower.next
  BY <1>3, <1>5, HeadIsNext
<1>6. ASSUME follower'.at = "attached", NEW k \in DOMAIN wire', wire'[k].kind = "event"
      PROVE  /\ wire'[k].ev.seq >= follower'.next
             /\ \A i \in 1..k-1 : wire'[i].kind = "event" => wire'[i].ev.seq < wire'[k].ev.seq
             /\ \A q \in follower'.next..wire'[k].ev.seq :
                  \E i \in 1..k : wire'[i].kind = "event" /\ wire'[i].ev.seq = q
  <2>1. k \in 1..n - 1 /\ k + 1 \in DOMAIN wire /\ wire'[k] = wire[k + 1]
    BY <1>3, <1>6
  <2>2. /\ wire[k + 1].ev.seq \in Nat /\ wire[k + 1].ev.seq >= follower.next
        /\ \A i \in 1..(k + 1)-1 : wire[i].kind = "event" => wire[i].ev.seq < wire[k + 1].ev.seq
        /\ \A q \in follower.next..wire[k + 1].ev.seq :
             \E i \in 1..k + 1 : wire[i].kind = "event" /\ wire[i].ev.seq = q
    BY <1>4, <1>6, <2>1
  <2>3. 1 \in 1..(k + 1)-1
    BY <1>3, <2>1
  <2>4. wire'[k].ev.seq >= follower'.next
    BY <1>2, <1>5, <1>6, <2>1, <2>2, <2>3
  <2>5. ASSUME NEW i \in 1..k-1, wire'[i].kind = "event"
        PROVE  wire'[i].ev.seq < wire'[k].ev.seq
    <3>1. i \in 1..n - 1 /\ i + 1 \in 1..(k + 1)-1
      BY <1>3, <2>1
    <3> QED
      BY <1>3, <2>1, <2>2, <2>5, <3>1
  <2>6. ASSUME NEW q \in follower'.next..wire'[k].ev.seq
        PROVE  \E i \in 1..k : wire'[i].kind = "event" /\ wire'[i].ev.seq = q
    <3>1. q \in follower.next..wire[k + 1].ev.seq
      BY <1>2, <1>5, <1>6, <2>1, <2>2
    <3>2. PICK i \in 1..k + 1 : wire[i].kind = "event" /\ wire[i].ev.seq = q
      BY <2>2, <3>1
    <3>3. i # 1
      BY <1>2, <1>5, <1>6, <2>1, <2>2, <3>2
    <3>4. i - 1 \in 1..k /\ i - 1 \in 1..n - 1 /\ (i - 1) + 1 = i
      BY <1>3, <2>1, <3>3
    <3>5. wire'[i - 1] = wire[i]
      BY <1>3, <3>4
    <3> QED
      BY <3>2, <3>4, <3>5
  <2> QED
    BY <2>4, <2>5, <2>6
<1>7. ASSUME follower'.at = "attached", stream' # None
      PROVE  /\ stream'.next >= follower'.next
             /\ \A k \in DOMAIN wire' : wire'[k].kind = "event" => wire'[k].ev.seq < stream'.next
             /\ \A q \in follower'.next..stream'.next-1 :
                  \E i \in DOMAIN wire' : wire'[i].kind = "event" /\ wire'[i].ev.seq = q
  <2>1. /\ stream.next >= follower.next
        /\ \A i \in DOMAIN wire : wire[i].kind = "event" => wire[i].ev.seq < stream.next
        /\ \A q \in follower.next..stream.next-1 :
             \E i \in DOMAIN wire : wire[i].kind = "event" /\ wire[i].ev.seq = q
    BY <1>1, <1>7 DEF WireInv, IsEvent
  <2>2. stream'.next = stream.next /\ stream.next \in Nat
    BY <1>2, <1>7
  <2>3. stream'.next >= follower'.next
    <3>1. 1 \in DOMAIN wire
      BY <1>2, <1>3
    <3> QED
      BY <1>2, <1>5, <1>7, <2>1, <2>2, <3>1
  <2>4. \A k \in DOMAIN wire' : wire'[k].kind = "event" => wire'[k].ev.seq < stream'.next
    BY <1>3, <2>1, <2>2
  <2>5. ASSUME NEW q \in follower'.next..stream'.next-1
        PROVE  \E i \in DOMAIN wire' : wire'[i].kind = "event" /\ wire'[i].ev.seq = q
    <3>1. q \in follower.next..stream.next-1
      BY <1>2, <1>5, <1>7, <2>2
    <3>2. PICK i \in DOMAIN wire : wire[i].kind = "event" /\ wire[i].ev.seq = q
      BY <2>1, <3>1
    <3>3. i # 1
      BY <1>2, <1>5, <1>7, <2>2, <3>1, <3>2
    <3>4. i - 1 \in 1..n - 1 /\ (i - 1) + 1 = i
      BY <1>2, <1>3, <3>2, <3>3
    <3>5. wire'[i - 1] = wire[i] /\ i - 1 \in DOMAIN wire'
      BY <1>3, <3>4
    <3> QED
      BY <3>2, <3>5
  <2> QED
    BY <2>3, <2>4, <2>5
<1>8. \A k \in DOMAIN wire' : wire'[k].kind = "event" => Journaled(wire'[k].ev)
  BY <1>1, <1>3 DEF WireInv, IsEvent
<1>9. WireInv'
  BY <1>6, <1>7, <1>8 DEF WireInv, IsEvent, Journaled
<1>10. before # None =>
         \A k \in DOMAIN wire' : wire'[k].kind = "event" => wire'[k].ev.seq <= before
  BY <1>1, <1>3 DEF RevokedInv, IsEvent
<1> QED
  BY <1>3, <1>9, <1>10

\* What a step of the follower has to show.
LEMMA FollowingKeeps ==
  ASSUME JournalInv, UNCHANGED <<notFollowing, link>>, wire' \in Seq(Frame),
         faults' \in 0..MaxFaults, follower' \in Follower, follower'.from = follower.from,
         emitted' \in Seq(Event), HandedInv', WireInv',
         before # None =>
           /\ \A k \in DOMAIN wire' : wire'[k].kind = "event" => wire'[k].ev.seq <= before
           /\ \A i \in DOMAIN emitted' : follower.from + i - 1 <= before
  PROVE  JournalInv'
<1>1. UNCHANGED <<disk, agent, life, appended, before>>
  BY DEF notFollowing
<1>2. TypeOK /\ RecordInv /\ FileInv /\ CountInv /\ StreamInv /\ RevokedInv
  BY DEF JournalInv
<1>3. RecordInv' /\ FileInv' /\ CountInv'
  BY <1>1, <1>2, FileAlone DEF fileVars, disk, agent
<1>4. StreamInv'
  BY <1>1, <1>2 DEF StreamInv, Journaled, agent
<1>5. RevokedInv'
  BY <1>1, <1>2 DEF RevokedInv, IsEvent, disk, agent
<1>6. TypeOK'
  BY <1>1, <1>2 DEF TypeOK, disk, agent
<1> QED
  BY <1>3, <1>4, <1>5, <1>6 DEF JournalInv

\* The follower is no longer at the stream; it has been handed nothing more.
Left(at, result) == [follower EXCEPT !.at = at, !.result = result]
Leaves ==
  /\ UNCHANGED <<notFollowing, channel, emitted>>
  /\ faults' \in 0..MaxFaults
  /\ follower.at # "ended"
  /\ \E at \in {"attach", "lost", "ask", "ended"},
        result \in Outcome \cup {None, "refused", "stream_lost", "unreachable"} :
       follower' = Left(at, result)

LEMMA LeavingKeeps == JournalInv /\ Leaves => JournalInv'
<1> SUFFICES ASSUME JournalInv, Leaves PROVE JournalInv'
  OBVIOUS
<1>1. TypeOK /\ HandedInv /\ WireInv /\ RevokedInv /\ follower \in Follower
  BY DEF JournalInv, TypeOK
<1>2. PICK at \in {"attach", "lost", "ask", "ended"},
           result \in Outcome \cup {None, "refused", "stream_lost", "unreachable"} :
        follower' = Left(at, result)
  BY DEF Leaves
<1>3. /\ follower' \in Follower /\ follower'.at = at /\ follower'.from = follower.from
      /\ follower'.next = follower.next
  BY <1>1, <1>2 DEF Follower, Left
<1>4. /\ UNCHANGED <<link, wire, appended, before, emitted>> /\ UNCHANGED notFollowing
      /\ faults' \in 0..MaxFaults /\ follower.at # "ended"
  BY DEF Leaves, channel, notFollowing
<1>5. HandedInv'
  BY <1>1, <1>3, <1>4 DEF HandedInv, Final
<1>6. WireInv'
  BY <1>1, <1>3, <1>4 DEF WireInv, IsEvent, Journaled
<1>7. wire' \in Seq(Frame) /\ emitted' \in Seq(Event)
  BY <1>1, <1>4 DEF TypeOK
<1>8. before # None =>
        /\ \A k \in DOMAIN wire' : wire'[k].kind = "event" => wire'[k].ev.seq <= before
        /\ \A i \in DOMAIN emitted' : follower.from + i - 1 <= before
  BY <1>1, <1>4 DEF RevokedInv, IsEvent
<1> QED
  BY <1>3, <1>4, <1>5, <1>6, <1>7, <1>8, FollowingKeeps

LEMMA OutageLeaves ==
  ASSUME JournalInv, Unreachable \/ LinkLost \/ Retry \/ GiveUp
  PROVE  Leaves
<1>1. TypeOK /\ follower \in Follower
  BY DEF JournalInv, TypeOK
<1>2. UNCHANGED <<notFollowing, channel, emitted>> /\ follower.at # "ended"
  BY DEF Unreachable, LinkLost, Retry, GiveUp
<1>3. faults' \in 0..MaxFaults
  BY <1>1, FollowAssumption DEF Unreachable, LinkLost, Retry, GiveUp, Fault, TypeOK,
                                notFollowing
<1>4. CASE Unreachable \/ LinkLost \/ Retry
  <2>1. PICK at \in {"attach", "lost"} : follower' = [follower EXCEPT !.at = at]
    BY <1>4 DEF Unreachable, LinkLost, Retry
  <2>2. [follower EXCEPT !.at = at] = Left(at, follower.result)
        /\ follower.result \in Outcome \cup {None, "refused", "stream_lost", "unreachable"}
    BY <1>1 DEF Follower, Left
  <2> QED
    BY <1>2, <1>3, <2>1, <2>2 DEF Leaves
<1>5. CASE GiveUp
  <2>1. follower' = Left("ended", "stream_lost")
    BY <1>5 DEF GiveUp, End, Left
  <2> QED
    BY <1>2, <1>3, <2>1 DEF Leaves
<1> QED
  BY <1>4, <1>5

LEMMA AskLeaves == ASSUME JournalInv, AskOutcome PROVE Leaves
<1>1. TypeOK
  BY DEF JournalInv
<1>2. UNCHANGED <<notFollowing, channel, emitted>> /\ follower.at # "ended"
  BY DEF AskOutcome
<1>3. faults' \in 0..MaxFaults
  BY <1>1, FollowAssumption DEF AskOutcome, Fault, TypeOK
<1>4. CASE Fault("unreachable") /\ End("unreachable")
  <2>1. follower' = Left("ended", "unreachable")
    BY <1>4 DEF End, Left
  <2> QED
    BY <1>2, <1>3, <2>1 DEF Leaves
<1>5. CASE End(CASE ~granted \/ record = "removed" -> "refused"
                 [] granted /\ record = None -> "stream_lost"
                 [] OTHER -> record)
  <2> DEFINE r == CASE ~granted \/ record = "removed" -> "refused"
                    [] granted /\ record = None -> "stream_lost"
                    [] OTHER -> record
  <2>1. r \in Outcome \cup {None, "refused", "stream_lost", "unreachable"}
    BY <1>1, FollowNoneIsFresh DEF TypeOK
  <2>2. follower' = Left("ended", r)
    BY <1>5 DEF End, Left
  <2> HIDE DEF r
  <2> QED
    BY <1>2, <1>3, <2>1, <2>2 DEF Leaves
<1> QED
  BY <1>4, <1>5 DEF AskOutcome

\* What taking the next event does.
LEMMA TakenFacts ==
  ASSUME JournalInv, Receive, Head(wire).kind = "event"
  PROVE  LET e == appended[follower.from + Len(emitted)] IN
         /\ follower.from + Len(emitted) <= Len(appended)
         /\ e = Head(wire).ev
         /\ emitted' = Append(emitted, e) /\ emitted' \in Seq(Event)
         /\ follower' \in Follower /\ follower'.from = follower.from
         /\ follower'.next = follower.next + 1
         /\ follower'.last = follower.next
         /\ follower'.at = IF Final(e) THEN "ended" ELSE "attached"
<1> DEFINE e == Head(wire).ev
<1>1. TypeOK /\ HandedInv /\ follower \in Follower
  BY DEF JournalInv, TypeOK
<1>2. follower.at = "attached" /\ wire # <<>>
  BY DEF Receive
<1>3. /\ e.seq = follower.next /\ Journaled(e) /\ e \in Event
      /\ follower.next \in Nat \ {0} /\ follower.last = follower.next - 1
  BY <1>2, HeadIsNext
<1>4. TakesEvent(e)
  BY DEF Receive
<1> HIDE DEF e
<1>5. /\ emitted' = Append(emitted, e)
      /\ follower' = [follower EXCEPT
           !.next = e.seq + 1, !.last = e.seq, !.result = e.done,
           !.at = IF e.done = None THEN @ ELSE "ended"]
  BY <1>3, <1>4 DEF TakesEvent
<1>6. follower.next = follower.from + Len(emitted)
  BY <1>1 DEF HandedInv
<1>7. /\ e = appended[follower.from + Len(emitted)]
      /\ follower.from + Len(emitted) <= Len(appended)
  <2>1. DOMAIN appended = 1..Len(appended)
    BY <1>1, LenProperties DEF TypeOK
  <2> QED
    BY <1>3, <1>6, <2>1 DEF Journaled
<1>8. emitted' \in Seq(Event)
  BY <1>1, <1>3, <1>5 DEF TypeOK
<1>9. /\ follower' \in Follower /\ follower'.from = follower.from
      /\ follower'.next = follower.next + 1
      /\ follower'.last = follower.next
      /\ follower'.at = IF Final(e) THEN "ended" ELSE "attached"
  <2>1. PICK at \in {"attached", "ended"} : at = IF Final(e) THEN "ended" ELSE "attached"
    OBVIOUS
  <2>2. PICK next \in Nat, last \in Nat : next = e.seq + 1 /\ last = e.seq
    BY <1>3
  <2>3. PICK done \in Outcome \cup {None} : done = e.done
    BY <1>3 DEF Event
  <2>4. follower' = [follower EXCEPT !.next = next, !.last = last, !.result = done, !.at = at]
    BY <1>2, <1>5, <2>1, <2>2, <2>3 DEF Final
  <2>5. [follower EXCEPT !.next = next, !.last = last, !.result = done, !.at = at] \in Follower
    BY <1>1 DEF Follower
  <2> QED
    BY <1>1, <1>3, <2>1, <2>2, <2>4, <2>5 DEF Follower
<1> QED
  BY <1>5, <1>7, <1>8, <1>9 DEF e

LEMMA OtherFacts ==
  ASSUME JournalInv, Receive, Head(wire).kind # "event"
  PROVE  /\ emitted' = emitted
         /\ follower' \in Follower /\ follower'.from = follower.from
         /\ follower'.next = follower.next /\ follower'.last = follower.last
         /\ follower'.at \in {"attached", "ask", "ended"}
<1>1. follower \in Follower /\ follower.at = "attached"
  BY DEF JournalInv, TypeOK, Receive
<1>2. CASE /\ follower' = [follower EXCEPT
                !.at = IF Head(wire).over /\ Head(wire).high <= follower.last THEN "ask" ELSE @]
           /\ UNCHANGED emitted
  <2>1. PICK at \in {"attached", "ask"} :
          at = IF Head(wire).over /\ Head(wire).high <= follower.last THEN "ask" ELSE "attached"
    OBVIOUS
  <2>2. follower' = [follower EXCEPT !.at = at]
    BY <1>1, <1>2, <2>1
  <2> QED
    BY <1>1, <1>2, <2>2 DEF Follower
<1>3. CASE End("refused") /\ UNCHANGED emitted
  BY <1>1, <1>3 DEF End, Follower
<1> QED
  BY <1>2, <1>3 DEF Receive

LEMMA ReceiveKeeps == JournalInv /\ Receive => JournalInv'
<1> SUFFICES ASSUME JournalInv, Receive PROVE JournalInv'
  OBVIOUS
<1>1. TypeOK /\ HandedInv /\ WireInv /\ RevokedInv
  BY DEF JournalInv
<1>2. /\ follower.at = "attached" /\ wire # <<>> /\ wire' = Tail(wire)
      /\ UNCHANGED <<notFollowing, link, faults>>
  BY DEF Receive
<1>3. UNCHANGED <<stream, appended, before>>
  BY <1>2 DEF notFollowing, agent
<1>4. /\ emitted \in Seq(Event) /\ Len(emitted) \in Nat /\ DOMAIN emitted = 1..Len(emitted)
      /\ wire \in Seq(Frame) /\ follower.next \in Nat /\ follower.from \in Nat \ {0}
      /\ faults \in 0..MaxFaults
  BY <1>1, FollowerFacts DEF TypeOK
<1>5. CASE Head(wire).kind = "event"
  <2> DEFINE e == appended[follower.from + Len(emitted)]
  <2>1. /\ follower.from + Len(emitted) <= Len(appended)
        /\ e = Head(wire).ev
        /\ emitted' = Append(emitted, e) /\ emitted' \in Seq(Event)
        /\ follower' \in Follower /\ follower'.from = follower.from
        /\ follower'.next = follower.next + 1
        /\ follower'.last = follower.next
        /\ follower'.at = IF Final(e) THEN "ended" ELSE "attached"
    BY <1>5, TakenFacts
  <2>2. /\ WireInv' /\ wire' \in Seq(Frame)
        /\ before # None =>
             \A k \in DOMAIN wire' : wire'[k].kind = "event" => wire'[k].ev.seq <= before
    BY <1>2, <1>3, <1>4, <1>5, <2>1, TailFits
  <2>3. /\ DOMAIN emitted' = 1..Len(emitted) + 1 /\ Len(emitted') = Len(emitted) + 1
        /\ \A i \in 1..Len(emitted) : emitted'[i] = emitted[i]
        /\ emitted'[Len(emitted) + 1] = e
    BY <1>4, <2>1, AppendProperties
  <2>4. HandedInv'
    <3>1. follower'.next = follower'.from + Len(emitted')
      <4>1. follower.next = follower.from + Len(emitted)
        BY <1>1 DEF HandedInv
      <4>2. follower'.next = follower.next + 1 /\ follower'.from = follower.from
        BY <2>1
      <4>3. Len(emitted') = Len(emitted) + 1
        BY <2>3
      <4>4. Len(emitted) \in Nat /\ follower.from \in Nat
        BY <1>4
      <4>5. \A f \in Nat, n \in Nat : f + n + 1 = f + (n + 1)
        OBVIOUS
      <4>6. follower.from + Len(emitted) + 1 = follower.from + (Len(emitted) + 1)
        BY <4>4, <4>5, Zenon
      <4> QED
        BY <4>1, <4>2, <4>3, <4>6, Zenon
    <3>2. ASSUME NEW i \in DOMAIN emitted'
          PROVE  /\ follower'.from + i - 1 <= Len(appended')
                 /\ emitted'[i] = appended'[follower'.from + i - 1]
      <4>1. CASE i \in 1..Len(emitted)
        BY <1>1, <1>3, <1>4, <2>1, <2>3, <4>1 DEF HandedInv
      <4>2. CASE i = Len(emitted) + 1
        BY <1>3, <1>4, <2>1, <2>3, <4>2
      <4> QED
        BY <1>4, <2>3, <3>2, <4>1, <4>2
    <3>3. ASSUME follower'.at # "ended", NEW i \in DOMAIN emitted'
          PROVE  ~Final(emitted'[i])
      <4>1. CASE i \in 1..Len(emitted)
        BY <1>1, <1>2, <1>4, <2>3, <4>1 DEF HandedInv
      <4>2. CASE i = Len(emitted) + 1
        BY <2>1, <2>3, <3>3, <4>2
      <4> QED
        BY <1>4, <2>3, <3>3, <4>1, <4>2
    <3> QED
      BY <3>1, <3>2, <3>3 DEF HandedInv, Final
  <2>5. before # None => \A i \in DOMAIN emitted' : follower.from + i - 1 <= before
    <3>1. before # None => Head(wire).ev.seq <= before
      BY <1>1, <1>2, <1>4, <1>5 DEF RevokedInv, IsEvent
    <3>2. Head(wire).ev.seq = follower.from + Len(emitted)
      BY <1>1, <1>2, <1>5, HeadIsNext DEF HandedInv
    <3>3. before # None => \A i \in 1..Len(emitted) : follower.from + i - 1 <= before
      BY <1>1, <1>4 DEF RevokedInv
    <3> QED
      BY <1>4, <2>3, <3>1, <3>2, <3>3
  <2> QED
    BY <1>2, <1>4, <2>1, <2>2, <2>4, <2>5, FollowingKeeps
<1>6. CASE Head(wire).kind # "event"
  <2>1. /\ emitted' = emitted
        /\ follower' \in Follower /\ follower'.from = follower.from
        /\ follower'.next = follower.next /\ follower'.last = follower.last
        /\ follower'.at \in {"attached", "ask", "ended"}
    BY <1>6, OtherFacts
  <2>2. follower.last = follower.next - 1
    BY <1>1, <1>2 DEF WireInv
  <2>3. /\ WireInv' /\ wire' \in Seq(Frame)
        /\ before # None =>
             \A k \in DOMAIN wire' : wire'[k].kind = "event" => wire'[k].ev.seq <= before
    BY <1>2, <1>3, <1>6, <2>1, <2>2, TailFits
  <2>4. HandedInv'
    BY <1>1, <1>2, <1>3, <2>1 DEF HandedInv, Final
  <2>5. before # None => \A i \in DOMAIN emitted' : follower.from + i - 1 <= before
    BY <1>1, <2>1 DEF RevokedInv
  <2> QED
    BY <1>2, <1>4, <2>1, <2>3, <2>4, <2>5, FollowingKeeps
<1> QED
  BY <1>5, <1>6

-----------------------------------------------------------------------------
(* The invariant holds *)

LEMMA JournalInvInit == Init => JournalInv
<1> SUFFICES ASSUME Init PROVE JournalInv
  OBVIOUS
<1>1. PICK f \in From : follower = [at |-> "attach", from |-> f, next |-> f, last |-> 0,
                                    result |-> None]
  BY DEF Init
<1>2. f \in Nat \ {0} /\ follower \in Follower
  BY <1>1, FollowAssumption DEF Follower
<1>3. TypeOK
  BY <1>2, FollowAssumption DEF Init, TypeOK
<1>4. RecordInv /\ FileInv /\ CountInv
  BY DEF Init, RecordInv, FileInv, CountInv
<1>5. HandedInv
  BY <1>1, <1>2 DEF Init, HandedInv
<1>6. StreamInv /\ WireInv /\ RevokedInv
  BY <1>1 DEF Init, StreamInv, WireInv, RevokedInv
<1> QED
  BY <1>3, <1>4, <1>5, <1>6 DEF JournalInv

LEMMA JournalInvNext == JournalInv /\ [Next]_vars => JournalInv'
<1> SUFFICES ASSUME JournalInv, [Next]_vars PROVE JournalInv'
  OBVIOUS
<1>1. CASE Work
  BY <1>1, OpenJournalKeeps, AppendEventKeeps, SaveKeeps, RecoverKeeps DEF Work
<1>2. CASE Serve
  BY <1>2, PassKeeps, SendEventKeeps, QuietKeeps DEF Serve
<1>3. CASE Follow
  BY <1>3, AttachKeeps, ReceiveKeeps, OutageLeaves, AskLeaves, LeavingKeeps DEF Follow
<1>4. CASE Retry
  BY <1>4, OutageLeaves, LeavingKeeps
<1>5. CASE Trouble
  BY <1>5, AppendFailsKeeps, SaveKeeps, RetireKeeps, RevokeKeeps, RestartKeeps,
     OutageLeaves, LeavingKeeps, CutKeeps DEF Trouble
<1>6. CASE UNCHANGED vars
  <2>1. UNCHANGED <<disk, agent, channel, follower, life, faults, history>>
    BY <1>6 DEF vars
  <2>2. TypeOK' /\ RecordInv' /\ FileInv' /\ CountInv' /\ HandedInv'
    BY <2>1 DEF JournalInv, TypeOK, RecordInv, FileInv, CountInv, AllParse, Closed, Parses,
                Last, HandedInv, Final, disk, agent, channel, history
  <2>3. StreamInv' /\ WireInv' /\ RevokedInv'
    BY <2>1 DEF JournalInv, StreamInv, WireInv, RevokedInv, IsEvent, Journaled,
                disk, agent, channel, history
  <2> QED
    BY <2>2, <2>3 DEF JournalInv
<1> QED
  BY <1>1, <1>2, <1>3, <1>4, <1>5, <1>6 DEF Next

LEMMA JournalInvHolds == Spec => []JournalInv
  BY JournalInvInit, JournalInvNext, PTL DEF Spec

\* Whatever the file, the stream, the wire and the follower come to hold is of
\* its type: journal.rs, bench_serve.rs, follow.rs.
THEOREM JournalIsTyped == Spec => []TypeOK
<1>1. JournalInv => TypeOK
  BY DEF JournalInv
<1> QED
  BY <1>1, JournalInvHolds, PTL

\* A follower whose bench grant has been revoked is handed nothing that was
\* journaled later, although its stream was attached before (bench_serve.rs:156).
THEOREM RevokedIsCutOff == Spec => []RevokedSeesNothingNewer
<1>1. JournalInv => RevokedSeesNothingNewer
  <2> SUFFICES ASSUME JournalInv, before # None, NEW i \in 1..Len(emitted)
               PROVE  \E j \in 1..before : appended[j] = emitted[i]
    BY DEF RevokedSeesNothingNewer
  <2>1. TypeOK /\ HandedInv /\ RevokedInv
    BY DEF JournalInv
  <2>2. /\ follower.from \in Nat \ {0} /\ DOMAIN emitted = 1..Len(emitted)
        /\ Len(emitted) \in Nat
    BY <2>1, FollowerFacts
  <2>3. before \in Nat
    BY <2>1 DEF TypeOK
  <2>4. /\ emitted[i] = appended[follower.from + i - 1]
        /\ follower.from + i - 1 <= before
    BY <2>1, <2>2 DEF HandedInv, RevokedInv
  <2>5. follower.from + i - 1 \in 1..before
    BY <2>2, <2>3, <2>4
  <2> QED
    BY <2>4, <2>5
<1> QED
  BY <1>1, JournalInvHolds, PTL

-----------------------------------------------------------------------------
(* The journal implements the feed *)

feed == <<appended, follower.from, emitted, follower.at = "ended">>

LEMMA FeedStarts == Init => Feed!FeedInit
  BY FollowAssumption DEF Init, Feed!FeedInit
\* Only the worker adds to the log, its crash in the middle of a write included.
LEMMA LogStep ==
  ASSUME TypeOK, UNCHANGED <<follower, emitted>>,
         \/ appended' = appended
         \/ \E h \in Handle, done \in Outcome \cup {None} :
              Writes(h, done) /\ appended' = Append(appended, NextEvent(h, done))
  PROVE  Feed!Publish \/ UNCHANGED feed
<1>1. CASE appended' = appended
  BY <1>1 DEF feed
<1>2. CASE \E h \in Handle, done \in Outcome \cup {None} :
             Writes(h, done) /\ appended' = Append(appended, NextEvent(h, done))
  <2>1. PICK h \in Handle, done \in Outcome \cup {None} :
          Writes(h, done) /\ appended' = Append(appended, NextEvent(h, done))
    BY <1>2
  <2>2. NextEvent(h, done) \in [seq : 1..MaxEvents, life : 0..MaxRestarts,
                                done : Outcome \cup {None}]
    BY <2>1, FollowAssumption DEF NextEvent, Writes, TypeOK
  <2> QED
    BY <2>1, <2>2 DEF Feed!Publish
<1> QED
  BY <1>1, <1>2

LEMMA WriteStep ==
  ASSUME JournalInv, Next, UNCHANGED <<follower, emitted>>
  PROVE  Feed!Publish \/ UNCHANGED feed
<1>1. TypeOK
  BY DEF JournalInv
<1>2. CASE AppendEvent
  BY <1>1, <1>2, LogStep DEF AppendEvent
<1>3. CASE \E h \in Handle, done \in Outcome \cup {None} : CutShort(h, done)
  BY <1>1, <1>3, LogStep DEF CutShort
<1>4. CASE UNCHANGED appended
  BY <1>1, <1>4, LogStep
<1>5. AppendFails \/ Restart => \/ \E h \in Handle, done \in Outcome \cup {None} : CutShort(h, done)
                                \/ UNCHANGED appended
  BY DEF AppendFails, Restart
<1>6. Next => AppendEvent \/ AppendFails \/ Restart \/ UNCHANGED appended
  BY DEF Next, Work, Serve, Follow, Trouble, OpenJournal, SaveDone, Recover, SaveFails, Retire,
         Revoke, Cut, Unreachable, GiveUp, Retry, Attach, Receive, LinkLost, AskOutcome, Pass,
         SendEvent, Look, Wake, Tick, notServing, notFollowing, history
<1> QED
  BY <1>2, <1>3, <1>4, <1>5, <1>6

\* Every event a follower takes is the next one of the log.
LEMMA ReceiveStep ==
  ASSUME JournalInv, Receive
  PROVE  Feed!HandOn \/ Feed!Leave \/ UNCHANGED feed
<1>1. follower.at = "attached" /\ UNCHANGED appended
  BY DEF Receive, notFollowing
<1>2. CASE Head(wire).kind = "event"
  <2> DEFINE e == appended[follower.from + Len(emitted)]
  <2>1. /\ follower.from + Len(emitted) <= Len(appended)
        /\ emitted' = Append(emitted, e)
        /\ follower'.from = follower.from
        /\ follower'.at = IF Final(e) THEN "ended" ELSE "attached"
    BY <1>2, TakenFacts
  <2>2. \A i \in 1..Len(emitted) : ~Final(emitted[i])
    <3>1. HandedInv /\ DOMAIN emitted = 1..Len(emitted)
      BY FollowerFacts DEF JournalInv
    <3> QED
      BY <1>1, <3>1 DEF HandedInv
  <2>3. (follower'.at = "ended") \in {FALSE, Final(e)}
    BY <2>1
  <2> QED
    BY <1>1, <2>1, <2>2, <2>3 DEF Feed!HandOn
<1>3. CASE Head(wire).kind # "event"
  <2>1. emitted' = emitted /\ follower'.from = follower.from
    BY <1>3, OtherFacts
  <2> QED
    BY <1>1, <2>1 DEF Feed!Leave, feed
<1> QED
  BY <1>2, <1>3

LEMMA LeaveStep ==
  ASSUME JournalInv, Leaves
  PROVE  Feed!Leave \/ UNCHANGED feed
<1>1. PICK at \in {"attach", "lost", "ask", "ended"},
           result \in Outcome \cup {None, "refused", "stream_lost", "unreachable"} :
        follower' = Left(at, result)
  BY DEF Leaves
<1>2. follower'.from = follower.from
  BY <1>1 DEF JournalInv, TypeOK, Follower, Left
<1>3. follower.at # "ended" /\ UNCHANGED <<appended, emitted>>
  BY DEF Leaves, notFollowing
<1> QED
  BY <1>2, <1>3 DEF Feed!Leave, feed

LEMMA AttachStep ==
  ASSUME JournalInv, Attach
  PROVE  UNCHANGED feed
<1>1. /\ follower.at = "attach" /\ UNCHANGED <<appended, emitted>>
      /\ follower' = [follower EXCEPT !.at = "attached", !.last = follower.next - 1]
  BY DEF Attach, history
<1>2. follower \in Follower
  BY DEF JournalInv, TypeOK
<1>3. follower'.from = follower.from /\ follower'.at = "attached"
  BY <1>1, <1>2 DEF Follower
<1> QED
  BY <1>1, <1>3 DEF feed

LEMMA FeedSteps == JournalInv /\ [Next]_vars => [Feed!FeedNext]_feed
<1> SUFFICES ASSUME JournalInv, [Next]_vars PROVE Feed!FeedNext \/ UNCHANGED feed
  OBVIOUS
<1>1. CASE Next /\ UNCHANGED <<follower, emitted>>
  BY <1>1, WriteStep DEF Feed!FeedNext
<1>2. CASE Attach
  BY <1>2, AttachStep
<1>3. CASE Receive
  BY <1>3, ReceiveStep DEF Feed!FeedNext
<1>4. CASE Unreachable \/ LinkLost \/ Retry \/ GiveUp \/ AskOutcome
  BY <1>4, OutageLeaves, AskLeaves, LeaveStep DEF Feed!FeedNext
<1>5. CASE UNCHANGED vars
  BY <1>5 DEF vars, history, feed
<1>6. Next => \/ UNCHANGED <<follower, emitted>> \/ Attach \/ Receive
              \/ Unreachable \/ LinkLost \/ Retry \/ GiveUp \/ AskOutcome
  BY DEF Next, Work, Serve, Follow, Trouble, OpenJournal, AppendEvent, SaveDone, Recover,
         AppendFails, SaveFails, Retire, Revoke, Restart, Cut, Pass, SendEvent, Look, Wake, Tick,
         notServing, history
<1> QED
  BY <1>1, <1>2, <1>3, <1>4, <1>5, <1>6

\* A follower is handed the log, one event at a time and in order, from the
\* place it asked for, and a Done last: append and replay (journal.rs), the
\* stream (bench_serve.rs) and follow (follow.rs) together are the event feed.
THEOREM FeedServed == Spec => FeedIsServed
<1>1. Init => Feed!FeedInit
  BY FeedStarts
<1>2. JournalInv /\ [Next]_vars => [Feed!FeedNext]_feed
  BY FeedSteps
<1> QED
  BY <1>1, <1>2, JournalInvHolds, PTL DEF Spec, FeedIsServed, Feed!FeedSpec, feed
=============================================================================
