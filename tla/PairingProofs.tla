---------------------------- MODULE PairingProofs ----------------------------
(***************************************************************************)
(* What pairing guarantees for any number of machines, invitations,        *)
(* attempts and overlapping writers of the pin file.                        *)
(***************************************************************************)
EXTENDS Pairing, SequenceTheorems, TLAPS

\* What TypeOK says of the variables of the join window and the calls.
JoinTypes ==
    /\ mode \in {"agent", "offer", "over"}
    /\ slot \in Invitations \cup {NoInvite}
    /\ minted \in Seq(BOOLEAN)
    /\ joined \in Nat
    /\ begun \in Seq(Nat)
    /\ caller \in [Joiners -> Calls]
    /\ server \in [Joiners -> Tasks]
    /\ trusts \subseteq Joiners

SessionTypes ==
    /\ pending \in Exchanges \cup {NoPending}
    /\ last \in [no : Nat, node : Peers \cup {NoPin}, wanted : Peers \cup {NoPin},
                decisions : 0 .. 2]

\* The invitation in the slot is the newest, and every one has its count.
InvitationsAreNumbered ==
    /\ Len(begun) = Len(minted)
    /\ slot # NoInvite => slot.no = Len(minted) /\ slot.no \in 1 .. Len(minted)

\* `agent pair`: while it waits there is its one invitation with an attempt
\* left, and at most one connection, which nobody has decided about.
OneAtATime ==
    /\ mode = "offer" => slot # NoInvite /\ slot.attempts < MaxAttempts
    /\ mode = "offer" => \A j \in Joiners :
         server[j].step \notin {"consumed", "recording", "refused"}
    /\ mode = "offer" => \A i, j \in Joiners :
         server[i].step # "none" /\ server[j].step # "none" => i = j

\* What was handed out of the open invitation was charged, or is about to be:
\* `agent pair` charges its one connection when that ends.
AttemptsAreCharged ==
    /\ mode = "agent" /\ slot # NoInvite => begun[slot.no] <= slot.attempts
    /\ mode = "offer" =>
         \/ begun[slot.no] <= slot.attempts
         \/ /\ begun[slot.no] <= slot.attempts + 1
            /\ \E j \in Joiners : server[j].step \notin {"none", "admitted"}

\* A task that is in the ceremony holds an invitation; once it has replied to a
\* confirmation, or is done, the machine at the other end used the same code.
TasksHoldACode == \A j \in Joiners :
    LET k == server[j] IN
    /\ k.step \notin {"none", "admitted"} => k.inv \in 1 .. Len(minted)
    /\ k.step \in {"none", "admitted"} => k.replied = 0
    /\ k.step = "ceremony" /\ k.replied >= 3 => k.with = k.inv
    /\ k.step \in {"agreed", "consumed", "recording"} => k.with = k.inv

\* The caller talks to the task of its own connection, or to nobody any more.
CallersHoldACode == \A j \in Joiners :
    LET k == caller[j] IN
    /\ k.step = "ceremony" /\ server[j].step # "none" => server[j].with = k.code
    /\ k.step = "ceremony" => k.sent >= 1
    /\ k.step = "ceremony" /\ k.sent = Rounds => k.code \in 1 .. Len(minted)
    /\ k.step = "paired" => k.code \in 1 .. Len(minted)

\* What the session holds is the last exchange, undecided.
PendingIsTheLast ==
    pending # NoPending =>
      /\ last.no > 0 /\ last.decisions = 0
      /\ last.node = pending.node
      /\ last.wanted \in {NoPin, last.node}

\* What a verb is about to write has no right the file it read has not, but for
\* those the verb is there to give.
WritesAreHonest == \A w \in Writers : writing[w] # Idle =>
    LET x == writing[w] IN
    /\ x.verb = "add" => x.pin # NoPin /\ ~x.pin.bench
    /\ x.verb = "remove" => x.pin = NoPin
    /\ x.verb = "remember" => Rights(x.pin) = Rights(x.snap[x.node])
    /\ x.verb = "relocate" => raced \/ Rights(x.pin) = Rights(x.snap[x.node])

JoinInv ==
    /\ JoinTypes
    /\ InvitationsAreNumbered /\ OneAtATime /\ AttemptsAreCharged /\ BudgetHolds
    /\ TasksHoldACode /\ CallersHoldACode /\ JoinTakesAnInvitation

PinInv == PinTypeOK /\ WritesAreHonest /\ RightsWereGiven

SessionInv == SessionTypes /\ PendingIsTheLast /\ TrustFollowsTheLastExchange

PairingInv == JoinInv /\ PinInv /\ SessionInv

LEMMA InitPairingInv == Init => PairingInv
<1> SUFFICES ASSUME Init PROVE PairingInv
  OBVIOUS
<1> USE PairingAssumption, PinNoneIsFresh, PairingNoneIsFresh DEF Init, PinInit
<1>1. minted \in Seq(BOOLEAN) /\ Len(minted) \in Nat
  <2>1. <<FALSE>> \in Seq(BOOLEAN) /\ << >> \in Seq(BOOLEAN)
    OBVIOUS
  <2>2. minted = <<FALSE>> \/ minted = << >>
    OBVIOUS
  <2> QED
    BY <2>1, <2>2, LenProperties
<1>2. begun \in Seq(Nat) /\ Len(begun) = Len(minted) /\ \A n \in 1 .. Len(minted) : begun[n] = 0
  <2>1. begun = [n \in 1 .. Len(minted) |-> 0]
    OBVIOUS
  <2> QED
    BY <1>1, <2>1
<1>3. mode = "offer" =>
        /\ Len(minted) = 1
        /\ slot \in Invitations /\ slot.no = 1 /\ slot.attempts = 0
  BY DEF Invitation, Invitations
<1>4. mode # "offer" => slot = NoInvite
  OBVIOUS
<1>5. slot \in Invitations \cup {NoInvite}
  BY <1>3, <1>4
<1>6. \A j \in Joiners : caller[j] = Quiet /\ server[j] = NoTask
  OBVIOUS
<1>7. JoinTypes
  <2>1. Quiet \in Calls /\ NoTask \in Tasks
    BY DEF Quiet, NoTask, Calls, Tasks, Rounds
  <2>2. caller \in [Joiners -> Calls] /\ server \in [Joiners -> Tasks]
    BY <2>1
  <2> QED
    BY <1>1, <1>2, <1>5, <2>2 DEF JoinTypes
<1> HIDE DEF Init
<1> USE DEF NoTask, Quiet
<1>8. InvitationsAreNumbered /\ BudgetHolds
  BY <1>1, <1>2, <1>3, <1>4 DEF InvitationsAreNumbered, BudgetHolds
<1>9. OneAtATime /\ AttemptsAreCharged
  <2>1. OneAtATime
    BY <1>3, <1>6 DEF OneAtATime, NoInvite
  <2>2. mode = "offer" => begun[slot.no] = 0 /\ slot.attempts = 0
    BY <1>2, <1>3
  <2>3. mode = "agent" => slot = NoInvite
    BY <1>4
  <2> QED
    BY <2>1, <2>2, <2>3 DEF AttemptsAreCharged
<1>10. TasksHoldACode /\ CallersHoldACode
  BY <1>6 DEF TasksHoldACode, CallersHoldACode
<1>11. JoinTakesAnInvitation
  <2>1. joined = 0
    BY DEF Init
  <2>2. joined + (IF slot = NoInvite THEN 0 ELSE 1) <= Len(minted)
    <3>1. CASE mode = "offer"
      BY <1>3, <2>1, <3>1
    <3>2. CASE mode # "offer"
      BY <1>1, <1>4, <2>1, <3>2
    <3> QED
      BY <3>1, <3>2
  <2> QED
    BY <1>6, <2>2 DEF JoinTakesAnInvitation
<1>12. PinInv
  BY DEF Init, PinInv, PinTypeOK, WritesAreHonest, RightsWereGiven, Rights, Idle, NoPin
<1>13. SessionInv
  BY DEF Init, SessionInv, SessionTypes, PendingIsTheLast, TrustFollowsTheLastExchange, Idle,
         NoPin, NoPending
<1> QED
  BY <1>7, <1>8, <1>9, <1>10, <1>11, <1>12, <1>13 DEF PairingInv, JoinInv
-----------------------------------------------------------------------------
(* The calling machine's own steps *)

\* Nothing but what is said of the calls depends on the calls.
LEMMA CallsAlone ==
  ASSUME JoinInv, UNCHANGED <<mode, slot, minted, joined, begun, server>>,
         caller' \in [Joiners -> Calls], trusts' \subseteq Joiners, CallersHoldACode'
  PROVE  JoinInv'
<1>1. JoinTypes'
  BY DEF JoinInv, JoinTypes
<1>2. InvitationsAreNumbered' /\ BudgetHolds' /\ TasksHoldACode'
  BY DEF JoinInv, InvitationsAreNumbered, BudgetHolds, TasksHoldACode
<1>3. OneAtATime' /\ AttemptsAreCharged'
  BY DEF JoinInv, OneAtATime, AttemptsAreCharged
<1>4. JoinTakesAnInvitation'
  BY DEF JoinInv, JoinTakesAnInvitation, CallersHoldACode
<1> QED
  BY <1>1, <1>2, <1>3, <1>4 DEF JoinInv

LEMMA CallingKeeps ==
  ASSUME JoinInv, NEW j \in Joiners,
         \/ \E code \in 0 .. Len(minted) : Call(j, code)
         \/ AddressUnreachable(j) \/ DialTimesOut(j) \/ TurnedAway(j)
         \/ CallerLoses(j) \/ CallerDecides(j)
  PROVE  JoinInv'
<1> USE PairingAssumption
<1>1. JoinTypes /\ CallersHoldACode /\ caller[j] \in Calls /\ Len(minted) \in Nat
  BY DEF JoinInv, JoinTypes
<1>2. UNCHANGED <<mode, slot, minted, joined, begun, server>> /\ trusts' \subseteq Joiners
  BY <1>1 DEF JoinTypes, Call, AddressUnreachable, DialTimesOut, TurnedAway, CallerLoses,
              CallerDecides
<1>3. /\ caller'[j] \in Calls /\ caller'[j].step \notin {"ceremony", "paired"}
      /\ caller' \in [Joiners -> Calls] /\ \A i \in Joiners : i # j => caller'[i] = caller[i]
  <2>0. DOMAIN caller = Joiners
    BY <1>1 DEF JoinTypes
  <2>1. CASE \E code \in 0 .. Len(minted) : Call(j, code)
    <3>1. PICK code \in 0 .. Len(minted) : Call(j, code)
      BY <2>1
    <3>2. caller'[j] = [step |-> "dial", code |-> code, addrs |-> Addresses, sent |-> 0]
      BY <2>0, <3>1 DEF Call
    <3>3. caller'[j] \in Calls /\ caller'[j].step = "dial"
      BY <1>1, <3>2 DEF Calls, Rounds
    <3> QED
      BY <1>1, <2>0, <3>1, <3>3 DEF Call, JoinTypes
  <2>2. CASE AddressUnreachable(j)
    <3>1. caller[j].step = "dial"
      BY <2>2 DEF AddressUnreachable
    <3>2. CASE caller[j].addrs > 1
      <4>1. caller' = [caller EXCEPT ![j].addrs = caller[j].addrs - 1]
        BY <2>2, <3>2 DEF AddressUnreachable
      <4>2. caller[j].addrs - 1 \in 0 .. Addresses
        BY <1>1, <3>2 DEF Calls
      <4> QED
        BY <1>1, <3>1, <4>1, <4>2 DEF Calls, JoinTypes
    <3>3. CASE ~(caller[j].addrs > 1)
      <4>1. caller' = [caller EXCEPT ![j].step = "unreached"]
        BY <2>2, <3>3 DEF AddressUnreachable
      <4> QED
        BY <1>1, <4>1 DEF Calls, JoinTypes
    <3> QED
      BY <3>2, <3>3
  <2>3. CASE DialTimesOut(j)
    BY <1>1, <2>3 DEF DialTimesOut, Calls, JoinTypes
  <2>4. CASE TurnedAway(j)
    BY <1>1, <2>4 DEF TurnedAway, Calls, JoinTypes
  <2>5. CASE CallerLoses(j)
    BY <1>1, <2>5 DEF CallerLoses, Calls, JoinTypes
  <2>6. CASE CallerDecides(j)
    <3>1. Quiet \in Calls /\ Quiet.step = "idle"
      BY DEF Quiet, Calls, Rounds
    <3>2. caller' = [caller EXCEPT ![j] = Quiet]
      BY <2>6 DEF CallerDecides
    <3> QED
      BY <1>1, <2>0, <3>1, <3>2 DEF JoinTypes
  <2> QED
    BY <2>1, <2>2, <2>3, <2>4, <2>5, <2>6
<1>4. CallersHoldACode'
  BY <1>1, <1>2, <1>3 DEF CallersHoldACode
<1> QED
  BY <1>2, <1>3, <1>4, CallsAlone

\* The caller goes on only with what the task has answered, so a caller that is
\* through to the last frame has the code the task holds.
LEMMA ProceedKeeps ==
  ASSUME JoinInv, NEW j \in Joiners, Proceed(j)
  PROVE  JoinInv'
<1>1. JoinTypes /\ CallersHoldACode /\ TasksHoldACode /\ caller[j] \in Calls /\ server[j] \in Tasks
  BY DEF JoinInv, JoinTypes
<1> DEFINE sent == IF caller[j].sent = Rounds \/ (caller[j].sent = 3 /\ ~SameCode(j))
                   THEN caller[j].sent ELSE caller[j].sent + 1
           step == CASE caller[j].sent = 3 /\ ~SameCode(j) -> "failed"
                     [] caller[j].sent = Rounds -> "paired"
                     [] OTHER -> "ceremony"
           k == [caller[j] EXCEPT !.sent = sent, !.step = step]
<1>2. UNCHANGED <<mode, slot, minted, joined, begun, server, trusts>>
  BY DEF Proceed
<1>3. DOMAIN caller = Joiners
  BY <1>1 DEF JoinTypes
<1>4. caller[j].step = "ceremony" /\ server[j].replied = caller[j].sent /\ caller[j].sent \in 1 .. Rounds
  BY <1>1 DEF Proceed, CallersHoldACode, Calls, Rounds
<1>5. server[j].with = caller[j].code /\ server[j].inv \in 1 .. Len(minted)
  BY <1>1, <1>4 DEF TasksHoldACode, CallersHoldACode
<1>6. sent \in 0 .. Rounds /\ sent >= 1 /\ step \in {"failed", "paired", "ceremony"}
  BY <1>4 DEF Rounds
<1>7. step = "ceremony" /\ sent = Rounds => caller[j].code \in 1 .. Len(minted)
  BY <1>4, <1>5 DEF Rounds, SameCode
<1>8. step = "paired" => caller[j].code \in 1 .. Len(minted)
  BY <1>1, <1>4 DEF Rounds, CallersHoldACode
<1>9. caller'[j] = k
  BY <1>1, <1>3 DEF Proceed, Calls
<1> HIDE DEF sent, step
<1>10. k \in Calls /\ k.sent = sent /\ k.step = step /\ k.code = caller[j].code
  BY <1>1, <1>6 DEF Calls, Rounds
<1> HIDE DEF k
<1>11. caller' \in [Joiners -> Calls] /\ \A i \in Joiners : i # j => caller'[i] = caller[i]
  BY <1>1, <1>3, <1>9, <1>10 DEF JoinTypes, Proceed
<1>12. CallersHoldACode'
  BY <1>1, <1>2, <1>5, <1>6, <1>7, <1>8, <1>9, <1>10, <1>11 DEF CallersHoldACode
<1> QED
  BY <1>1, <1>2, <1>11, <1>12, CallsAlone DEF JoinTypes

-----------------------------------------------------------------------------
(* The steps of a task that serves a connection *)

\* What a task that goes on by itself must leave true.
LEMMA TasksAlone ==
  ASSUME JoinInv, NEW j \in Joiners, server[j].step # "none",
         UNCHANGED <<mode, slot, minted, joined, begun, caller, trusts>>,
         server' \in [Joiners -> Tasks], \A i \in Joiners : i # j => server'[i] = server[i],
         mode = "offer" => server'[j].step \notin {"consumed", "recording", "refused"},
         mode = "offer" /\ server'[j].step \in {"none", "admitted"} => server[j].step = "admitted",
         server'[j].step # "none" => server'[j].with = server[j].with,
         TasksHoldACode'
  PROVE  JoinInv'
<1>1. JoinTypes'
  BY DEF JoinInv, JoinTypes
<1>2. InvitationsAreNumbered' /\ BudgetHolds'
  BY DEF JoinInv, InvitationsAreNumbered, BudgetHolds
<1>3. OneAtATime'
  BY DEF JoinInv, OneAtATime
<1>4. AttemptsAreCharged'
  BY DEF JoinInv, AttemptsAreCharged
<1>5. CallersHoldACode'
  BY DEF JoinInv, CallersHoldACode
<1>6. JoinTakesAnInvitation'
  BY DEF JoinInv, JoinTakesAnInvitation, TasksHoldACode
<1> QED
  BY <1>1, <1>2, <1>3, <1>4, <1>5, <1>6 DEF JoinInv

\* A task that reaches the end of the ceremony has compared the confirmation.
LEMMA RespondKeeps ==
  ASSUME JoinInv, NEW j \in Joiners, Respond(j)
  PROVE  JoinInv'
<1>1. JoinTypes /\ TasksHoldACode /\ caller[j] \in Calls /\ server[j] \in Tasks
      /\ DOMAIN server = Joiners
  BY DEF JoinInv, JoinTypes
<1> DEFINE step == CASE caller[j].sent = 3 /\ ~SameCode(j) -> "failed"
                     [] caller[j].sent = Rounds -> "agreed"
                     [] OTHER -> "ceremony"
           replied == server[j].replied + 1
           k == [server[j] EXCEPT !.replied = replied, !.step = step]
<1>2. server[j].step = "ceremony" /\ caller[j].sent = replied
      /\ UNCHANGED <<mode, slot, minted, joined, begun, caller, trusts>>
  BY DEF Respond
<1>3. replied \in 1 .. Rounds /\ replied \in 0 .. Rounds /\ step \in {"failed", "agreed", "ceremony"}
  BY <1>1, <1>2 DEF Calls, Tasks, Rounds
<1>4. step = "agreed" => server[j].with = server[j].inv
  BY <1>1, <1>2 DEF Rounds, TasksHoldACode, Tasks
<1>5. step = "ceremony" /\ replied >= 3 => server[j].with = server[j].inv
  BY <1>2, <1>3 DEF Rounds, SameCode
<1>6. server'[j] = k
  BY <1>1 DEF Respond, Tasks
<1> HIDE DEF step, replied
<1>7. k \in Tasks /\ k.step = step /\ k.replied = replied /\ k.with = server[j].with
      /\ k.inv = server[j].inv
  BY <1>1, <1>3 DEF Tasks
<1> HIDE DEF k
<1>8. server' \in [Joiners -> Tasks] /\ \A i \in Joiners : i # j => server'[i] = server[i]
  BY <1>1, <1>6, <1>7 DEF JoinTypes, Respond
<1>9. TasksHoldACode'
  BY <1>1, <1>2, <1>3, <1>4, <1>5, <1>6, <1>7, <1>8 DEF TasksHoldACode
<1> QED
  BY <1>2, <1>3, <1>6, <1>7, <1>8, <1>9, TasksAlone

LEMMA EndedTaskKeeps ==
  ASSUME JoinInv, NEW j \in Joiners, RecordJoin(j) \/ JoinServed(j)
  PROVE  JoinInv'
<1>1. /\ JoinTypes /\ TasksHoldACode /\ server[j] \in Tasks /\ DOMAIN server = Joiners
      /\ NoTask \in Tasks /\ NoTask.step = "none" /\ NoTask.replied = 0
  BY DEF JoinInv, JoinTypes, NoTask, Tasks, Rounds
<1>2. UNCHANGED <<mode, slot, minted, joined, begun, caller, trusts>>
  BY DEF RecordJoin, JoinServed
<1>3. server[j].step \in {"consumed", "recording", "refused"} /\ mode # "offer"
  BY DEF RecordJoin, JoinServed, JoinInv, OneAtATime
<1>4. CASE RecordJoin(j)
  <2>1. server'[j] = [server[j] EXCEPT !.step = "recording"]
    BY <1>1, <1>4 DEF RecordJoin
  <2>2. server'[j] \in Tasks /\ server'[j].step = "recording" /\ server'[j].with = server[j].with
        /\ server'[j].inv = server[j].inv
    BY <1>1, <2>1 DEF Tasks
  <2>3. server' \in [Joiners -> Tasks] /\ \A i \in Joiners : i # j => server'[i] = server[i]
    BY <1>1, <1>4, <2>2 DEF JoinTypes, RecordJoin
  <2>4. server[j].step = "consumed"
    BY <1>4 DEF RecordJoin
  <2>5. TasksHoldACode'
    BY <1>1, <1>2, <2>2, <2>3, <2>4 DEF TasksHoldACode
  <2> QED
    BY <1>2, <1>3, <2>2, <2>3, <2>5, TasksAlone
<1>5. CASE JoinServed(j)
  <2>1. server' = [server EXCEPT ![j] = NoTask]
    BY <1>5 DEF JoinServed
  <2>2. server' \in [Joiners -> Tasks] /\ server'[j] = NoTask
        /\ \A i \in Joiners : i # j => server'[i] = server[i]
    BY <1>1, <2>1 DEF JoinTypes
  <2>3. TasksHoldACode'
    BY <1>1, <1>2, <2>2 DEF TasksHoldACode
  <2> QED
    BY <1>1, <1>2, <1>3, <2>2, <2>3, TasksAlone
<1> QED
  BY <1>4, <1>5

\* A connection is admitted: its task will hear the code of its caller.
LEMMA AnsweredKeeps ==
  ASSUME JoinInv, NEW j \in Joiners, Answered(j)
  PROVE  JoinInv'
<1>1. /\ JoinTypes /\ TasksHoldACode /\ CallersHoldACode
      /\ caller[j] \in Calls /\ server[j] \in Tasks
      /\ DOMAIN server = Joiners /\ DOMAIN caller = Joiners
  BY DEF JoinInv, JoinTypes
<1>2. caller[j].step = "dial" /\ server[j].step = "none"
      /\ (mode = "offer" => ~OfferBusy) /\ UNCHANGED <<mode, slot, minted, joined, begun, trusts>>
  BY DEF Answered
<1>3. caller'[j] = [caller[j] EXCEPT !.step = "ceremony", !.sent = 1]
  BY <1>1 DEF Answered
<1>4. server'[j] = [server[j] EXCEPT !.step = "admitted", !.with = caller[j].code]
  BY <1>1 DEF Answered
<1>5. caller'[j] \in Calls /\ caller'[j].step = "ceremony" /\ caller'[j].sent = 1
      /\ caller'[j].code = caller[j].code
  <2>1. 1 \in 0 .. Rounds
    BY DEF Rounds
  <2> QED
    BY <1>1, <1>3, <2>1 DEF Calls
<1>6. server'[j] \in Tasks /\ server'[j].step = "admitted" /\ server'[j].with = caller[j].code
      /\ server'[j].replied = server[j].replied
  BY <1>1, <1>4 DEF Calls, Tasks
<1>7. /\ caller' \in [Joiners -> Calls] /\ \A i \in Joiners : i # j => caller'[i] = caller[i]
      /\ server' \in [Joiners -> Tasks] /\ \A i \in Joiners : i # j => server'[i] = server[i]
  BY <1>1, <1>5, <1>6 DEF JoinTypes, Answered
<1>8. JoinTypes' /\ InvitationsAreNumbered' /\ BudgetHolds'
  BY <1>2, <1>7 DEF JoinInv, JoinTypes, InvitationsAreNumbered, BudgetHolds
<1>9. OneAtATime'
  BY <1>2, <1>6, <1>7 DEF JoinInv, OneAtATime, OfferBusy
<1>10. AttemptsAreCharged'
  BY <1>2, <1>6, <1>7 DEF JoinInv, AttemptsAreCharged
<1>11. TasksHoldACode'
  BY <1>1, <1>2, <1>6, <1>7 DEF TasksHoldACode
<1>12. CallersHoldACode'
  BY <1>1, <1>2, <1>5, <1>6, <1>7 DEF CallersHoldACode, Rounds
<1>13. JoinTakesAnInvitation'
  BY <1>2, <1>5, <1>6, <1>7 DEF JoinInv, JoinTakesAnInvitation
<1> QED
  BY <1>8, <1>9, <1>10, <1>11, <1>12, <1>13 DEF JoinInv

\* The code is handed out: to a ceremony that was charged for it, or, by
\* `agent pair`, to the only connection there is.
LEMMA HandingOutKeeps ==
  ASSUME JoinInv, NEW j \in Joiners, server[j].step = "admitted",
         slot # NoInvite, slot.attempts < MaxAttempts,
         begun' = [begun EXCEPT ![slot.no] = @ + 1],
         server' = [server EXCEPT ![j].step = "ceremony", ![j].inv = slot.no],
         \/ mode = "agent" /\ slot' = [slot EXCEPT !.attempts = @ + 1]
         \/ mode = "offer" /\ slot' = slot,
         UNCHANGED <<mode, minted, joined, caller, trusts>>
  PROVE  JoinInv'
<1> USE PairingAssumption, PairingNoneIsFresh DEF NoInvite
<1>1. /\ JoinTypes /\ TasksHoldACode /\ CallersHoldACode /\ server[j] \in Tasks
      /\ DOMAIN server = Joiners /\ Len(minted) \in Nat
      /\ slot \in Invitations /\ slot.no \in 1 .. Len(minted) /\ slot.no = Len(minted)
      /\ begun \in Seq(Nat) /\ Len(begun) = Len(minted) /\ slot.attempts \in Nat
  BY DEF JoinInv, JoinTypes, InvitationsAreNumbered, Invitations
<1>2. begun[slot.no] \in Nat /\ begun[slot.no] <= slot.attempts
  <2>1. mode = "offer" => begun[slot.no] <= slot.attempts
    BY DEF JoinInv, AttemptsAreCharged, OneAtATime
  <2> QED
    BY <1>1, <2>1, ElementOfSeq DEF JoinInv, AttemptsAreCharged
<1>3. /\ begun' \in Seq(Nat) /\ Len(begun') = Len(minted) /\ begun'[slot.no] = begun[slot.no] + 1
      /\ \A n \in 1 .. Len(minted) : n # slot.no => begun'[n] = begun[n]
  BY <1>1, <1>2, ExceptSeq
<1>4. slot' \in Invitations /\ slot'.no = slot.no /\ slot'.attempts <= MaxAttempts
      /\ (mode = "agent" => slot'.attempts = slot.attempts + 1) /\ (mode = "offer" => slot' = slot)
  <2>1. CASE mode = "agent"
    <3>1. slot.attempts + 1 \in 0 .. MaxAttempts
      BY <1>1
    <3>2. slot' = [slot EXCEPT !.attempts = slot.attempts + 1]
      BY <2>1
    <3>3. slot' \in Invitations /\ slot'.no = slot.no /\ slot'.attempts = slot.attempts + 1
      BY <1>1, <3>1, <3>2 DEF Invitations
    <3> QED
      BY <1>1, <2>1, <3>3
  <2>2. CASE mode = "offer"
    BY <1>1, <2>2
  <2> QED
    BY <2>1, <2>2
<1>5. server'[j] = [server[j] EXCEPT !.step = "ceremony", !.inv = slot.no]
  BY <1>1
<1>6. server'[j] \in Tasks /\ server'[j].step = "ceremony" /\ server'[j].inv = slot.no
      /\ server'[j].with = server[j].with /\ server'[j].replied = server[j].replied
  BY <1>1, <1>5 DEF Tasks
<1>7. server' \in [Joiners -> Tasks] /\ \A i \in Joiners : i # j => server'[i] = server[i]
  BY <1>1, <1>6 DEF JoinTypes
<1>8. JoinTypes'
  BY <1>1, <1>3, <1>4, <1>7 DEF JoinTypes
<1>9. InvitationsAreNumbered' /\ BudgetHolds'
  <2>1. begun[slot.no] + 1 <= MaxAttempts
    BY <1>1, <1>2
  <2> QED
    BY <1>1, <1>3, <1>4, <2>1 DEF JoinInv, InvitationsAreNumbered, BudgetHolds
<1>10. OneAtATime'
  BY <1>4, <1>6, <1>7 DEF JoinInv, OneAtATime
<1>11. AttemptsAreCharged'
  BY <1>1, <1>2, <1>3, <1>4, <1>6 DEF AttemptsAreCharged
<1>12. TasksHoldACode'
  BY <1>1, <1>6, <1>7 DEF TasksHoldACode
<1>13. CallersHoldACode'
  BY <1>1, <1>6, <1>7 DEF CallersHoldACode
<1>14. JoinTakesAnInvitation'
  BY <1>4, <1>6, <1>7 DEF JoinInv, JoinTakesAnInvitation
<1> QED
  BY <1>8, <1>9, <1>10, <1>11, <1>12, <1>13, <1>14 DEF JoinInv

LEMMA BeginKeeps ==
  ASSUME JoinInv, NEW j \in Joiners, BeginAttempt(j) \/ OfferServes(j)
  PROVE  JoinInv'
<1>1. CASE BeginAttempt(j) /\ IsOpen
  BY <1>1, HandingOutKeeps DEF BeginAttempt, IsOpen
<1>2. CASE OfferServes(j)
  BY <1>2, HandingOutKeeps DEF OfferServes, JoinInv, OneAtATime
<1>3. CASE BeginAttempt(j) /\ ~IsOpen
  <2>1. /\ JoinTypes /\ TasksHoldACode /\ CallersHoldACode /\ DOMAIN server = Joiners
        /\ NoTask \in Tasks /\ NoTask.step = "none" /\ NoTask.replied = 0 /\ Len(minted) \in Nat
    BY DEF JoinInv, JoinTypes, NoTask, Tasks, Rounds
  <2>2. /\ mode = "agent" /\ (slot' = NoInvite \/ slot' = slot)
        /\ server' = [server EXCEPT ![j] = NoTask]
        /\ UNCHANGED <<mode, minted, joined, begun, caller, trusts>>
    BY <1>3 DEF BeginAttempt
  <2>3. /\ server' \in [Joiners -> Tasks] /\ server'[j] = NoTask
        /\ \A i \in Joiners : i # j => server'[i] = server[i]
    BY <2>1, <2>2 DEF JoinTypes
  <2>4. JoinTypes' /\ InvitationsAreNumbered' /\ BudgetHolds'
    BY <2>1, <2>2, <2>3 DEF JoinInv, JoinTypes, InvitationsAreNumbered, BudgetHolds
  <2>5. OneAtATime' /\ AttemptsAreCharged'
    BY <2>2 DEF JoinInv, OneAtATime, AttemptsAreCharged
  <2>6. TasksHoldACode' /\ CallersHoldACode'
    BY <2>1, <2>2, <2>3 DEF TasksHoldACode, CallersHoldACode
  <2>7. JoinTakesAnInvitation'
    BY <2>1, <2>2, <2>3 DEF JoinInv, JoinTakesAnInvitation, JoinTypes
  <2> QED
    BY <2>4, <2>5, <2>6, <2>7 DEF JoinInv
<1> QED
  BY <1>1, <1>2, <1>3

\* Whoever is let through takes the invitation that was in the slot.
LEMMA LetThroughKeeps ==
  ASSUME JoinInv, NEW j \in Joiners, Consume(j) \/ \E yes \in BOOLEAN : OfferAnswered(j, yes)
  PROVE  JoinInv'
<1>1. /\ JoinTypes /\ TasksHoldACode /\ CallersHoldACode /\ DOMAIN server = Joiners
      /\ server[j] \in Tasks /\ Len(minted) \in Nat /\ joined \in Nat
      /\ joined + (IF slot = NoInvite THEN 0 ELSE 1) <= Len(minted)
      /\ (mode = "offer" => slot # NoInvite)
  BY DEF JoinInv, JoinTypes, JoinTakesAnInvitation, OneAtATime
<1>2. /\ server[j].step = "agreed" /\ mode' # "offer" /\ slot' = NoInvite
      /\ mode' \in {"agent", "over"}
      /\ UNCHANGED <<minted, begun, caller, trusts>>
      /\ joined' = joined \/ (slot # NoInvite /\ joined' = joined + 1)
  <2>1. CASE Consume(j) /\ slot = NoInvite
    BY <2>1 DEF Consume
  <2>2. CASE Consume(j) /\ slot # NoInvite
    BY <2>2 DEF Consume
  <2>3. ASSUME NEW yes \in BOOLEAN, OfferAnswered(j, yes)
        PROVE  /\ joined' = joined \/ joined' = joined + 1
               /\ mode' = "over" /\ mode = "offer" /\ slot' = NoInvite
               /\ server[j].step = "agreed" /\ UNCHANGED <<minted, begun, caller, trusts>>
    BY <2>3 DEF OfferAnswered
  <2>4. CASE \E yes \in BOOLEAN : OfferAnswered(j, yes)
    BY <1>1, <2>3, <2>4
  <2> QED
    BY <2>1, <2>2, <2>4
<1>3. /\ server'[j] \in Tasks /\ server'[j].step \in {"consumed", "refused"}
      /\ server'[j].with = server[j].with /\ server'[j].inv = server[j].inv
  <2>1. CASE Consume(j) /\ slot = NoInvite
    <3>1. server'[j] = [server[j] EXCEPT !.step = "refused"]
      BY <1>1, <2>1 DEF Consume
    <3> QED
      BY <1>1, <3>1 DEF Tasks
  <2>2. CASE Consume(j) /\ slot # NoInvite
    <3>1. server'[j] = [server[j] EXCEPT !.step = "consumed", !.control = slot.control]
      BY <1>1, <2>2 DEF Consume
    <3>2. slot.control \in BOOLEAN
      BY <1>1, <2>2 DEF JoinTypes, Invitations
    <3> QED
      BY <1>1, <3>1, <3>2 DEF Tasks
  <2>3. CASE \E yes \in BOOLEAN : OfferAnswered(j, yes)
    <3>1. \/ server'[j] = [server[j] EXCEPT !.step = "consumed"]
          \/ server'[j] = [server[j] EXCEPT !.step = "refused"]
      BY <1>1, <2>3 DEF OfferAnswered
    <3> QED
      BY <1>1, <3>1 DEF Tasks
  <2> QED
    BY <2>1, <2>2, <2>3
<1>4. server' \in [Joiners -> Tasks] /\ \A i \in Joiners : i # j => server'[i] = server[i]
  BY <1>1, <1>3 DEF Consume, OfferAnswered, JoinTypes
<1>5. joined' \in Nat /\ joined' <= Len(minted)
  BY <1>1, <1>2
<1>6. JoinTypes'
  BY <1>1, <1>2, <1>4, <1>5 DEF JoinTypes
<1>7. InvitationsAreNumbered' /\ BudgetHolds' /\ OneAtATime' /\ AttemptsAreCharged'
  BY <1>2 DEF JoinInv, InvitationsAreNumbered, BudgetHolds, OneAtATime, AttemptsAreCharged
<1>8. TasksHoldACode' /\ CallersHoldACode'
  BY <1>1, <1>2, <1>3, <1>4 DEF TasksHoldACode, CallersHoldACode
<1>9. JoinTakesAnInvitation'
  BY <1>2, <1>3, <1>4, <1>5, <1>1, <1>8 DEF JoinInv, JoinTakesAnInvitation, TasksHoldACode, CallersHoldACode
<1> QED
  BY <1>6, <1>7, <1>8, <1>9 DEF JoinInv

\* A task that fails gives nothing back; `agent pair` charges it.
LEMMA ServerLosesKeeps ==
  ASSUME JoinInv, NEW j \in Joiners, ServerLoses(j)
  PROVE  JoinInv'
<1> USE PairingAssumption, PairingNoneIsFresh DEF NoInvite
<1>1. /\ JoinTypes /\ TasksHoldACode /\ CallersHoldACode /\ DOMAIN server = Joiners
      /\ NoTask \in Tasks /\ NoTask.step = "none" /\ NoTask.replied = 0 /\ Len(minted) \in Nat
  BY DEF JoinInv, JoinTypes, NoTask, Tasks, Rounds
<1>2. server' = [server EXCEPT ![j] = NoTask] /\ server[j].step # "none"
      /\ UNCHANGED <<minted, joined, begun, caller, trusts>>
  BY DEF ServerLoses
<1>3. /\ server' \in [Joiners -> Tasks] /\ server'[j] = NoTask
      /\ \A i \in Joiners : i # j => server'[i] = server[i]
  BY <1>1, <1>2 DEF JoinTypes
<1>4. CASE mode # "offer"
  <2>1. UNCHANGED <<mode, slot>>
    BY <1>4 DEF ServerLoses
  <2>2. JoinTypes' /\ InvitationsAreNumbered' /\ BudgetHolds' /\ OneAtATime' /\ AttemptsAreCharged'
    BY <1>1, <1>2, <1>3, <1>4, <2>1
       DEF JoinInv, JoinTypes, InvitationsAreNumbered, BudgetHolds, OneAtATime, AttemptsAreCharged
  <2>3. TasksHoldACode' /\ CallersHoldACode' /\ JoinTakesAnInvitation'
    BY <1>1, <1>2, <1>3, <2>1
       DEF JoinInv, TasksHoldACode, CallersHoldACode, JoinTakesAnInvitation
  <2> QED
    BY <2>2, <2>3 DEF JoinInv
<1>5. CASE mode = "offer"
  <2>1. /\ slot \in Invitations /\ slot.attempts < MaxAttempts /\ slot.attempts \in Nat
        /\ slot.no \in 1 .. Len(minted) /\ slot.no = Len(minted)
        /\ begun \in Seq(Nat) /\ Len(begun) = Len(minted)
    BY <1>1, <1>5 DEF JoinInv, OneAtATime, JoinTypes, InvitationsAreNumbered, Invitations
  <2>2. slot' = [slot EXCEPT !.attempts = slot.attempts + 1] /\ slot.attempts + 1 \in 0 .. MaxAttempts
        /\ mode' = IF slot'.attempts = MaxAttempts THEN "over" ELSE mode
    BY <1>5, <2>1 DEF ServerLoses
  <2>3. slot' \in Invitations /\ slot'.no = slot.no /\ slot'.attempts = slot.attempts + 1
    BY <2>1, <2>2 DEF Invitations
  <2>4. JoinTypes' /\ InvitationsAreNumbered' /\ BudgetHolds'
    BY <1>1, <1>2, <1>3, <1>5, <2>1, <2>2, <2>3
       DEF JoinInv, JoinTypes, InvitationsAreNumbered, BudgetHolds
  <2>5. mode' = "offer" => slot'.attempts < MaxAttempts
    BY <1>5, <2>1, <2>2, <2>3
  <2>6. OneAtATime'
    BY <1>1, <1>3, <1>5, <2>3, <2>5 DEF JoinInv, OneAtATime
  <2>7. begun[slot.no] \in Nat /\ begun[slot.no] <= slot.attempts + 1
    BY <1>5, <2>1, ElementOfSeq DEF JoinInv, AttemptsAreCharged
  <2>8. AttemptsAreCharged'
    BY <1>2, <1>5, <2>2, <2>3, <2>7 DEF AttemptsAreCharged
  <2>9. TasksHoldACode' /\ CallersHoldACode'
    BY <1>1, <1>2, <1>3 DEF TasksHoldACode, CallersHoldACode
  <2>10. JoinTakesAnInvitation'
    BY <1>1, <1>2, <1>3, <2>1, <2>3 DEF JoinInv, JoinTakesAnInvitation
  <2> QED
    BY <2>4, <2>6, <2>8, <2>9, <2>10 DEF JoinInv
<1> QED
  BY <1>4, <1>5

-----------------------------------------------------------------------------
(* The window *)

LEMMA MintKeeps ==
  ASSUME JoinInv, NEW control \in BOOLEAN, Mint(control)
  PROVE  JoinInv'
<1> USE PairingAssumption, PairingNoneIsFresh DEF NoInvite
<1>1. /\ JoinTypes /\ minted \in Seq(BOOLEAN) /\ begun \in Seq(Nat) /\ Len(minted) \in Nat
      /\ Len(begun) = Len(minted) /\ joined \in Nat /\ joined <= Len(minted)
  BY DEF JoinInv, JoinTypes, InvitationsAreNumbered, JoinTakesAnInvitation
<1>2. mode = "agent" /\ UNCHANGED <<mode, joined, caller, server, trusts>>
  BY DEF Mint
<1>3. /\ minted' \in Seq(BOOLEAN) /\ Len(minted') = Len(minted) + 1
  BY <1>1, AppendProperties DEF Mint
<1>4. /\ begun' \in Seq(Nat) /\ Len(begun') = Len(minted) + 1 /\ begun'[Len(minted')] = 0
      /\ \A n \in 1 .. Len(minted) : begun'[n] = begun[n]
  BY <1>1, <1>3, AppendProperties DEF Mint
<1>5. slot' = [no |-> Len(minted'), attempts |-> 0, control |-> control, expired |-> FALSE]
  BY DEF Mint, Invitation
<1>6. slot' \in Invitations /\ slot'.no = Len(minted') /\ slot'.attempts = 0
  BY <1>1, <1>3, <1>5 DEF Invitations
<1>7. JoinTypes'
  BY <1>1, <1>2, <1>3, <1>4, <1>6 DEF JoinTypes
<1>8. InvitationsAreNumbered' /\ OneAtATime' /\ AttemptsAreCharged'
  BY <1>1, <1>2, <1>3, <1>4, <1>6 DEF InvitationsAreNumbered, OneAtATime, AttemptsAreCharged
<1>9. BudgetHolds'
  <2>1. ASSUME NEW n \in 1 .. Len(minted')
        PROVE  begun'[n] <= MaxAttempts
    <3>1. CASE n = Len(minted')
      BY <1>4, <3>1
    <3>2. CASE n \in 1 .. Len(minted)
      BY <1>4, <3>2 DEF JoinInv, BudgetHolds
    <3> QED
      BY <1>1, <1>3, <3>1, <3>2
  <2> QED
    BY <2>1 DEF BudgetHolds
<1>10. TasksHoldACode' /\ CallersHoldACode'
  BY <1>1, <1>2, <1>3 DEF JoinInv, TasksHoldACode, CallersHoldACode
<1>11. JoinTakesAnInvitation'
  BY <1>1, <1>2, <1>3 DEF JoinInv, JoinTakesAnInvitation
<1> QED
  BY <1>7, <1>8, <1>9, <1>10, <1>11 DEF JoinInv

LEMMA WindowKeeps ==
  ASSUME JoinInv, RevokeInvite \/ InviteExpires \/ OfferExpires
  PROVE  JoinInv'
<1> USE PairingNoneIsFresh DEF NoInvite
<1>1. /\ JoinTypes /\ TasksHoldACode /\ CallersHoldACode /\ Len(minted) \in Nat
      /\ NoTask \in Tasks /\ NoTask.step = "none" /\ NoTask.replied = 0
  BY DEF JoinInv, JoinTypes, NoTask, Tasks, Rounds
<1>2. CASE RevokeInvite \/ InviteExpires
  <2>1. mode = "agent" /\ slot # NoInvite
        /\ UNCHANGED <<mode, minted, joined, begun, caller, server, trusts>>
    BY <1>2 DEF RevokeInvite, InviteExpires
  <2>2. \/ slot' = NoInvite
        \/ /\ slot' \in Invitations /\ slot'.no = slot.no
           /\ slot'.attempts = slot.attempts
    BY <1>1, <1>2 DEF RevokeInvite, InviteExpires, JoinTypes, Invitations
  <2>3. JoinTypes' /\ InvitationsAreNumbered' /\ OneAtATime' /\ AttemptsAreCharged' /\ BudgetHolds'
    BY <2>1, <2>2
       DEF JoinInv, JoinTypes, InvitationsAreNumbered, OneAtATime, AttemptsAreCharged, BudgetHolds
  <2>4. TasksHoldACode' /\ CallersHoldACode'
    BY <2>1 DEF JoinInv, TasksHoldACode, CallersHoldACode
  <2>5. JoinTakesAnInvitation'
    BY <1>1, <2>1, <2>2 DEF JoinInv, JoinTakesAnInvitation, JoinTypes
  <2> QED
    BY <2>3, <2>4, <2>5 DEF JoinInv
<1>3. CASE OfferExpires
  <2>1. mode' = "over" /\ server' = [i \in Joiners |-> NoTask]
        /\ UNCHANGED <<slot, minted, joined, begun, caller, trusts>>
    BY <1>3 DEF OfferExpires
  <2>2. JoinTypes' /\ InvitationsAreNumbered' /\ OneAtATime' /\ AttemptsAreCharged' /\ BudgetHolds'
    BY <1>1, <2>1
       DEF JoinInv, JoinTypes, InvitationsAreNumbered, OneAtATime, AttemptsAreCharged, BudgetHolds
  <2>3. TasksHoldACode' /\ CallersHoldACode' /\ JoinTakesAnInvitation'
    BY <1>1, <2>1 DEF JoinInv, TasksHoldACode, CallersHoldACode, JoinTakesAnInvitation
  <2> QED
    BY <2>2, <2>3 DEF JoinInv
<1> QED
  BY <1>2, <1>3

-----------------------------------------------------------------------------
(* The pin file and its writers *)

Honest(x) ==
    /\ x.verb = "add" => x.pin # NoPin /\ ~x.pin.bench
    /\ x.verb = "remove" => x.pin = NoPin
    /\ x.verb = "remember" => Rights(x.pin) = Rights(x.snap[x.node])
    /\ x.verb = "relocate" => raced \/ Rights(x.pin) = Rights(x.snap[x.node])

\* The verb a writer begins is an honest one.
LEMMA VerbBegins ==
  ASSUME PinInv, NEW w \in Writers, NEW x \in WriteRecords, Honest(x),
         writing' = [writing EXCEPT ![w] = x], UNCHANGED <<file, given, raced>>
  PROVE  PinInv'
<1>1. PinTypeOK /\ WritesAreHonest /\ RightsWereGiven
  BY DEF PinInv
<1>2. writing'[w] = x /\ \A v \in Writers : v # w => writing'[v] = writing[v]
  BY <1>1 DEF PinTypeOK
<1>3. PinTypeOK'
  BY <1>1 DEF PinTypeOK
<1>4. WritesAreHonest'
  BY <1>1, <1>2 DEF WritesAreHonest, Honest
<1>5. RightsWereGiven'
  BY <1>1 DEF RightsWereGiven
<1> QED
  BY <1>3, <1>4, <1>5 DEF PinInv

LEMMA AddBegins ==
  ASSUME PinInv, NEW w \in Writers, NEW p \in Peers, NEW control \in BOOLEAN,
         BeginAdd(w, p, Pin(control, FALSE, "old")), UNCHANGED <<file, given, raced>>
  PROVE  /\ PinInv'
         /\ \A v \in Writers : v # w => writing'[v] = writing[v]
         /\ writing'[w].node = p
<1> DEFINE pin == [controller |-> control, bench |-> FALSE, addr |-> "old"]
           x == [verb |-> "add", node |-> p, pin |-> pin, snap |-> file]
<1>1. writing' = [writing EXCEPT ![w] = x] /\ file \in [Peers -> PinRecords \cup {NoPin}]
      /\ writing \in [Writers -> WriteRecords \cup {Idle}]
  BY DEF BeginAdd, Write, Pin, PinInv, PinTypeOK
<1>2. pin \in PinRecords /\ ~pin.bench /\ pin # NoPin
  <2>1. pin \in PinRecords /\ ~pin.bench
    BY DEF PinRecords
  <2> HIDE DEF pin
  <2> QED
    BY <2>1, PinNoneIsFresh DEF NoPin
<1>3. x \in WriteRecords /\ Honest(x)
  BY <1>1, <1>2 DEF WriteRecords, Verbs, Honest
<1> HIDE DEF pin
<1>4. x.node = p /\ writing'[w] = x /\ \A v \in Writers : v # w => writing'[v] = writing[v]
  BY <1>1
<1> HIDE DEF x
<1> QED
  BY <1>1, <1>3, <1>4, VerbBegins

LEMMA RemoveBegins ==
  ASSUME PinInv, NEW w \in Writers, NEW p \in Peers,
         BeginRemove(w, p), UNCHANGED <<file, given, raced>>
  PROVE  /\ PinInv'
         /\ \A v \in Writers : v # w => writing'[v] = writing[v]
         /\ writing'[w].verb = "remove"
<1> DEFINE x == [verb |-> "remove", node |-> p, pin |-> NoPin, snap |-> file]
<1>1. writing' = [writing EXCEPT ![w] = x] /\ file \in [Peers -> PinRecords \cup {NoPin}]
      /\ writing \in [Writers -> WriteRecords \cup {Idle}]
  BY DEF BeginRemove, Write, PinInv, PinTypeOK
<1>2. x \in WriteRecords /\ Honest(x)
  BY <1>1 DEF WriteRecords, Verbs, Honest
<1>3. x.verb = "remove" /\ writing'[w] = x /\ \A v \in Writers : v # w => writing'[v] = writing[v]
  BY <1>1
<1> HIDE DEF x
<1> QED
  BY <1>1, <1>2, <1>3, VerbBegins

LEMMA SetBegins ==
  ASSUME PinInv, NEW w \in Writers, NEW p \in Peers, NEW granted \in BOOLEAN,
         NEW verb \in {"set_controller", "set_bench"},
         BeginSet(w, verb, p, granted), UNCHANGED <<file, given, raced>>
  PROVE  /\ PinInv'
         /\ \A v \in Writers : v # w => writing'[v] = writing[v]
<1> DEFINE pin == IF verb = "set_controller" THEN [file[p] EXCEPT !.controller = granted]
                                             ELSE [file[p] EXCEPT !.bench = granted]
           x == [verb |-> verb, node |-> p, pin |-> pin, snap |-> file]
<1>1. /\ writing' = [writing EXCEPT ![w] = x] /\ file \in [Peers -> PinRecords \cup {NoPin}]
      /\ writing \in [Writers -> WriteRecords \cup {Idle}] /\ file[p] # NoPin
  BY DEF BeginSet, Write, PinInv, PinTypeOK, Pinned
<1>2. pin \in PinRecords
  <2>1. file[p] \in PinRecords
    BY <1>1
  <2>2. [file[p] EXCEPT !.controller = granted] \in PinRecords
    BY <2>1 DEF PinRecords
  <2>3. [file[p] EXCEPT !.bench = granted] \in PinRecords
    BY <2>1 DEF PinRecords
  <2> QED
    BY <2>2, <2>3
<1> HIDE DEF pin
<1>3. x \in WriteRecords /\ Honest(x)
  BY <1>1, <1>2 DEF WriteRecords, Verbs, Honest
<1>4. \A v \in Writers : v # w => writing'[v] = writing[v]
  BY <1>1
<1> HIDE DEF x
<1> QED
  BY <1>1, <1>3, <1>4, VerbBegins

LEMMA RememberBegins ==
  ASSUME PinInv, NEW w \in Writers, NEW p \in Peers,
         BeginRemember(w, p), UNCHANGED <<file, given, raced>>
  PROVE  /\ PinInv'
         /\ \A v \in Writers : v # w => writing'[v] = writing[v]
<1> DEFINE pin == [file[p] EXCEPT !.addr = "new"]
           x == [verb |-> "remember", node |-> p, pin |-> pin, snap |-> file]
<1>1. /\ writing' = [writing EXCEPT ![w] = x] /\ file \in [Peers -> PinRecords \cup {NoPin}]
      /\ writing \in [Writers -> WriteRecords \cup {Idle}] /\ file[p] # NoPin
  BY DEF BeginRemember, Write, PinInv, PinTypeOK, Pinned
<1>2. file[p] \in PinRecords
  BY <1>1
<1>3. pin \in PinRecords /\ pin.controller = file[p].controller /\ pin.bench = file[p].bench
  BY <1>2 DEF PinRecords
<1>4. pin # NoPin
  BY <1>3, PinNoneIsFresh DEF NoPin
<1> HIDE DEF pin
<1>5. Rights(pin) = Rights(file[p])
  BY <1>1, <1>3, <1>4 DEF Rights
<1>6. x \in WriteRecords /\ Honest(x)
  BY <1>1, <1>3, <1>5 DEF WriteRecords, Verbs, Honest
<1>7. \A v \in Writers : v # w => writing'[v] = writing[v]
  BY <1>1
<1> HIDE DEF x
<1> QED
  BY <1>1, <1>6, <1>7, VerbBegins

\* `add` reads the file again: what was saved in between counts as a race.
LEMMA RememberAddsKeeps ==
  ASSUME PinInv, NEW w \in Writers, RememberAdds(w)
  PROVE  /\ PinInv'
         /\ \A v \in Writers : v # w => writing'[v] = writing[v]
         /\ writing'[w].verb = "relocate"
<1>1. PinTypeOK /\ WritesAreHonest /\ RightsWereGiven /\ DOMAIN writing = Writers
  BY DEF PinInv, PinTypeOK
<1>2. writing[w] \in WriteRecords /\ writing[w].verb = "remember"
      /\ file \in [Peers -> PinRecords \cup {NoPin}]
  BY <1>1 DEF RememberAdds, PinTypeOK
<1>3. writing'[w] = [writing[w] EXCEPT !.verb = "relocate", !.snap = file]
  BY <1>1 DEF RememberAdds
<1>4. /\ writing'[w] \in WriteRecords /\ writing'[w].verb = "relocate" /\ writing'[w].snap = file
      /\ writing'[w].node = writing[w].node /\ writing'[w].pin = writing[w].pin
  BY <1>2, <1>3 DEF WriteRecords, Verbs
<1>5. /\ writing' \in [Writers -> WriteRecords \cup {Idle}]
      /\ \A v \in Writers : v # w => writing'[v] = writing[v]
  BY <1>1, <1>4 DEF RememberAdds, PinTypeOK
<1>6. /\ UNCHANGED <<file, given>>
      /\ raced' = (raced \/ file[writing[w].node] # writing[w].snap[writing[w].node])
  BY DEF RememberAdds
<1>7. PinTypeOK'
  BY <1>1, <1>5, <1>6 DEF PinTypeOK
<1>8. raced' \/ Rights(writing'[w].pin) = Rights(writing'[w].snap[writing'[w].node])
  <2>1. CASE file[writing[w].node] = writing[w].snap[writing[w].node]
    BY <1>1, <1>2, <1>4, <2>1, PinNoneIsFresh DEF WritesAreHonest, Idle
  <2>2. CASE file[writing[w].node] # writing[w].snap[writing[w].node]
    BY <1>6, <2>2
  <2> QED
    BY <2>1, <2>2
<1>9. raced => raced'
  BY <1>6
<1>10. WritesAreHonest'
  <2> SUFFICES ASSUME NEW v \in Writers, writing'[v] # Idle
               PROVE  /\ writing'[v].verb = "add" => writing'[v].pin # NoPin /\ ~writing'[v].pin.bench
                      /\ writing'[v].verb = "remove" => writing'[v].pin = NoPin
                      /\ writing'[v].verb = "remember" =>
                           Rights(writing'[v].pin) = Rights(writing'[v].snap[writing'[v].node])
                      /\ writing'[v].verb = "relocate" =>
                           raced' \/ Rights(writing'[v].pin) = Rights(writing'[v].snap[writing'[v].node])
    BY DEF WritesAreHonest
  <2>1. CASE v = w
    BY <1>4, <1>8, <2>1
  <2>2. CASE v # w
    BY <1>1, <1>5, <1>9, <2>2 DEF WritesAreHonest
  <2> QED
    BY <2>1, <2>2
<1>11. RightsWereGiven'
  BY <1>1, <1>6, <1>9 DEF RightsWereGiven
<1> QED
  BY <1>4, <1>5, <1>7, <1>10, <1>11 DEF PinInv

\* A save in which no race is recorded replaces the file it has read, so it can
\* only add the rights the verb gives.
LEMMA SaveKeeps ==
  ASSUME PinInv, NEW w \in Writers, Save(w)
  PROVE  /\ PinInv'
         /\ \A v \in Writers : v # w => writing'[v] = writing[v]
         /\ writing'[w] = Idle
<1> DEFINE x == writing[w]
<1>1. /\ PinTypeOK /\ WritesAreHonest /\ RightsWereGiven /\ DOMAIN writing = Writers
      /\ file \in [Peers -> PinRecords \cup {NoPin}]
      /\ given \subseteq Peers \X {"controller", "bench"} /\ raced \in BOOLEAN
  BY DEF PinInv, PinTypeOK
<1>2. /\ x \in WriteRecords /\ x.verb \in Verbs /\ x.node \in Peers
      /\ x.pin \in PinRecords \cup {NoPin} /\ x.snap \in [Peers -> PinRecords \cup {NoPin}]
      /\ x # Idle
  BY <1>1 DEF Save, Saving, PinTypeOK, WriteRecords
<1>3. /\ x.verb = "add" => x.pin # NoPin /\ ~x.pin.bench
      /\ x.verb = "remove" => x.pin = NoPin
      /\ x.verb = "relocate" => raced \/ Rights(x.pin) = Rights(x.snap[x.node])
  BY <1>1, <1>2 DEF WritesAreHonest
<1>4. /\ writing' = [writing EXCEPT ![w] = Idle]
      /\ file' = [x.snap EXCEPT ![x.node] = x.pin]
      /\ raced' = (raced \/ file # x.snap)
      /\ given' = GivenAfter(x)
  BY DEF Save, Written
<1>5. /\ writing' \in [Writers -> WriteRecords \cup {Idle}] /\ writing'[w] = Idle
      /\ \A v \in Writers : v # w => writing'[v] = writing[v]
  BY <1>1, <1>4 DEF PinTypeOK
<1>6. file' \in [Peers -> PinRecords \cup {NoPin}]
  BY <1>2, <1>4
<1>7. given' \subseteq Peers \X {"controller", "bench"}
  BY <1>1, <1>2, <1>4 DEF GivenAfter, Rights
<1>8. PinTypeOK'
  BY <1>1, <1>4, <1>5, <1>6, <1>7 DEF PinTypeOK
<1>9. WritesAreHonest'
  BY <1>1, <1>4, <1>5 DEF WritesAreHonest
<1>10. RightsWereGiven'
  <2> SUFFICES ASSUME ~raced', NEW p \in Peers, NEW r \in Rights(file'[p])
               PROVE  <<p, r>> \in given'
    BY DEF RightsWereGiven
  <2>1. ~raced /\ file = x.snap
    BY <1>4
  <2>2. r \in {"controller", "bench"}
    BY DEF Rights
  <2>3. \A q \in Peers : \A s \in Rights(file[q]) : <<q, s>> \in given
    BY <1>1, <2>1 DEF RightsWereGiven
  <2>4. CASE p # x.node
    <3>1. file'[p] = file[p]
      BY <1>2, <1>4, <2>1, <2>4
    <3>2. <<p, r>> \in given
      BY <2>3, <3>1
    <3> QED
      BY <1>4, <2>4, <3>2 DEF GivenAfter
  <2>5. CASE p = x.node
    <3>1. r \in Rights(x.pin)
      BY <1>2, <1>4, <2>5
    <3>2. x.pin # NoPin /\ (r = "bench" => x.pin.bench) /\ (r = "controller" => x.pin.controller)
      BY <3>1 DEF Rights
    <3>3. r \in Rights(x.snap[x.node]) => <<p, r>> \in given
      BY <2>1, <2>3, <2>5
    <3>4. CASE x.verb = "add"
      BY <1>3, <1>4, <2>2, <2>5, <3>2, <3>4 DEF GivenAfter
    <3>5. CASE x.verb = "remove"
      BY <1>3, <3>2, <3>5
    <3>6. CASE x.verb = "relocate"
      BY <1>3, <1>4, <2>1, <2>5, <3>1, <3>3, <3>6 DEF GivenAfter
    <3>7. CASE x.verb \in {"set_controller", "set_bench"}
      BY <1>4, <2>5, <3>1, <3>3, <3>7 DEF GivenAfter
    <3> QED
      BY <1>2, <3>4, <3>5, <3>6, <3>7 DEF Verbs
  <2> QED
    BY <2>4, <2>5
<1> QED
  BY <1>5, <1>8, <1>9, <1>10 DEF PinInv

LEMMA SaveFailsKeeps ==
  ASSUME PinInv, NEW w \in Writers, SaveFails(w)
  PROVE  /\ PinInv'
         /\ \A v \in Writers : v # w => writing'[v] = writing[v]
         /\ writing'[w] = Idle
<1>1. /\ writing' = [writing EXCEPT ![w] = Idle] /\ UNCHANGED <<file, given, raced>>
      /\ writing \in [Writers -> WriteRecords \cup {Idle}]
  BY DEF SaveFails, PinInv, PinTypeOK
<1>2. /\ writing' \in [Writers -> WriteRecords \cup {Idle}] /\ writing'[w] = Idle
      /\ \A v \in Writers : v # w => writing'[v] = writing[v]
  BY <1>1
<1> QED
  BY <1>1, <1>2 DEF PinInv, PinTypeOK, WritesAreHonest, RightsWereGiven

-----------------------------------------------------------------------------
(* The browser session *)

\* Whoever else writes, the session's own verb stands, ends or is no pairing.
LEMMA SessionStands ==
  ASSUME SessionInv, UNCHANGED sessionVars,
         \/ writing'["session"] = writing["session"]
         \/ writing'["session"] = Idle
         \/ writing'["session"].verb # "add"
  PROVE  SessionInv'
<1>1. SessionTypes' /\ PendingIsTheLast'
  BY DEF SessionInv, SessionTypes, PendingIsTheLast, sessionVars
<1>2. TrustFollowsTheLastExchange'
  BY DEF SessionInv, TrustFollowsTheLastExchange, sessionVars
<1> QED
  BY <1>1, <1>2 DEF SessionInv

\* An exchange is reported, and held if it completed.
LEMMA ReportKeeps ==
  ASSUME SessionInv, writing["session"] = Idle, UNCHANGED writing,
         NEW p \in Peers \cup {NoPin}, NEW wanted \in Peers \cup {NoPin},
         p # NoPin => wanted \in {NoPin, p}, SetPending(p, wanted)
  PROVE  SessionInv'
<1> USE PairingNoneIsFresh DEF NoPending, NoPin, Idle
<1>1. last.no \in Nat
  BY DEF SessionInv, SessionTypes
<1>2. last' = [no |-> last.no + 1, node |-> p, wanted |-> wanted, decisions |-> 0]
  BY DEF SetPending
<1>3. /\ last'.no = last.no + 1 /\ last'.node = p /\ last'.wanted = wanted /\ last'.decisions = 0
      /\ last.no + 1 \in Nat /\ last.no + 1 > 0
  BY <1>1, <1>2
<1>4. last' \in [no : Nat, node : Peers \cup {NoPin}, wanted : Peers \cup {NoPin}, decisions : 0 .. 2]
  BY <1>2, <1>3
<1>5. \/ p = NoPin /\ pending' = NoPending
      \/ /\ p # NoPin
         /\ pending' = [node |-> p, no |-> last.no + 1, expired |-> FALSE]
  BY DEF SetPending
<1>6. pending' = NoPending \/ (pending' \in Exchanges /\ pending'.node = p /\ p # NoPin)
  <2>1. CASE p # NoPin
    <3>1. p \in Peers /\ pending' = [node |-> p, no |-> last'.no, expired |-> FALSE]
      BY <1>3, <1>5, <2>1
    <3>2. last'.no \in Nat
      BY <1>3
    <3>3. pending' \in Exchanges
      BY <3>1, <3>2 DEF Exchanges
    <3> QED
      BY <2>1, <3>1, <3>3
  <2>2. CASE p = NoPin
    BY <1>5, <2>2
  <2> QED
    BY <2>1, <2>2
<1>7. SessionTypes' /\ PendingIsTheLast'
  BY <1>3, <1>4, <1>6 DEF SessionTypes, PendingIsTheLast
<1>8. TrustFollowsTheLastExchange'
  BY DEF TrustFollowsTheLastExchange
<1> QED
  BY <1>7, <1>8 DEF SessionInv

\* The decision takes what is held, so the same exchange is never confirmed twice.
LEMMA ConfirmKeeps ==
  ASSUME SessionInv, PinInv, NEW p \in Peers, NEW allow \in BOOLEAN, Confirm(p, allow)
  PROVE  SessionInv' /\ PinInv'
<1> USE DEF NoPending
<1>1. /\ pending' = NoPending /\ last' = [last EXCEPT !.decisions = IF last.no > 0 /\ @ < 2 THEN @ + 1 ELSE @]
      /\ writing["session"] = Idle /\ "session" \in Writers /\ UNCHANGED <<file, given, raced>>
      /\ SessionTypes
  BY PairingAssumption DEF Confirm, Decide, SessionInv
<1> DEFINE d == IF last.no > 0 /\ last.decisions < 2 THEN last.decisions + 1 ELSE last.decisions
<1>2. d \in 0 .. 2 /\ last' = [last EXCEPT !.decisions = d]
  BY <1>1 DEF SessionTypes
<1>3. (last.no > 0 /\ last.decisions = 0) => d = 1
  OBVIOUS
<1> HIDE DEF d
<1>4. last' \in [no : Nat, node : Peers \cup {NoPin}, wanted : Peers \cup {NoPin}, decisions : 0 .. 2]
      /\ last'.node = last.node /\ last'.wanted = last.wanted /\ last'.decisions = d
  BY <1>1, <1>2 DEF SessionTypes
<1>5. SessionTypes' /\ PendingIsTheLast'
  BY <1>1, <1>4 DEF SessionTypes, PendingIsTheLast
<1>6. CASE pending # NoPending /\ pending.node = p /\ ~pending.expired
  <2>1. BeginAdd("session", p, Pin(allow, FALSE, "old"))
    BY <1>6 DEF Confirm
  <2>2. PinInv' /\ writing'["session"].node = p
    BY <1>1, <2>1, AddBegins
  <2>3. last.no > 0 /\ last.decisions = 0 /\ last.node = p /\ last.wanted \in {NoPin, last.node}
    BY <1>6 DEF SessionInv, PendingIsTheLast
  <2>4. TrustFollowsTheLastExchange'
    BY <1>3, <1>4, <2>2, <2>3 DEF TrustFollowsTheLastExchange
  <2> QED
    BY <1>5, <2>2, <2>4 DEF SessionInv
<1>7. CASE ~(pending # NoPending /\ pending.node = p /\ ~pending.expired)
  <2>1. UNCHANGED pinVars
    BY <1>7 DEF Confirm, pinVars
  <2>2. PinInv'
    BY <2>1 DEF PinInv, PinTypeOK, WritesAreHonest, RightsWereGiven, pinVars
  <2>3. TrustFollowsTheLastExchange'
    BY <1>1, <2>1 DEF TrustFollowsTheLastExchange, pinVars
  <2> QED
    BY <1>5, <2>2, <2>3 DEF SessionInv
<1> QED
  BY <1>6, <1>7

LEMMA LettingGoKeeps ==
  ASSUME SessionInv, PendingExpires \/ Reject \/ Reconnect
  PROVE  SessionInv'
<1> USE PairingNoneIsFresh DEF NoPending
<1>1. SessionTypes /\ PendingIsTheLast /\ TrustFollowsTheLastExchange /\ UNCHANGED writing
  BY DEF SessionInv, PendingExpires, Reject, Reconnect, pinVars
<1>2. CASE PendingExpires
  <2>1. pending \in Exchanges /\ pending' = [pending EXCEPT !.expired = TRUE] /\ UNCHANGED last
    BY <1>1, <1>2 DEF PendingExpires, SessionTypes
  <2>2. pending' \in Exchanges /\ pending'.node = pending.node /\ pending # NoPending
    BY <2>1 DEF Exchanges
  <2> QED
    BY <1>1, <2>1, <2>2
       DEF SessionInv, SessionTypes, PendingIsTheLast, TrustFollowsTheLastExchange
<1>3. CASE Reject
  <2>1. pending' = NoPending /\ writing["session"] = Idle
    BY <1>3 DEF Reject
  <2>2. last' \in [no : Nat, node : Peers \cup {NoPin}, wanted : Peers \cup {NoPin}, decisions : 0 .. 2]
    <3> DEFINE d == IF last.no > 0 /\ last.decisions < 2 THEN last.decisions + 1 ELSE last.decisions
    <3>1. d \in 0 .. 2 /\ last' = [last EXCEPT !.decisions = d]
      BY <1>1, <1>3 DEF Reject, Decide, SessionTypes
    <3> HIDE DEF d
    <3> QED
      BY <1>1, <3>1 DEF SessionTypes
  <2> QED
    BY <1>1, <2>1, <2>2
       DEF SessionInv, SessionTypes, PendingIsTheLast, TrustFollowsTheLastExchange
<1>4. CASE Reconnect
  <2>1. pending' = NoPending /\ writing["session"] = Idle /\ last' = [last EXCEPT !.node = NoPin]
    BY <1>4 DEF Reconnect
  <2>2. last' \in [no : Nat, node : Peers \cup {NoPin}, wanted : Peers \cup {NoPin}, decisions : 0 .. 2]
    BY <1>1, <2>1 DEF SessionTypes
  <2> QED
    BY <1>1, <2>1, <2>2
       DEF SessionInv, SessionTypes, PendingIsTheLast, TrustFollowsTheLastExchange
<1> QED
  BY <1>2, <1>3, <1>4

-----------------------------------------------------------------------------
(* One step, whoever takes it *)

LEMMA OwnStepsStand ==
  ASSUME UNCHANGED pinVars
  PROVE  (PinInv => PinInv') /\ writing' = writing
BY DEF pinVars, PinInv, PinTypeOK, WritesAreHonest, RightsWereGiven

LEMMA JoinStands ==
  ASSUME JoinInv, UNCHANGED joinVars
  PROVE  JoinInv'
<1>1. JoinTypes' /\ InvitationsAreNumbered' /\ OneAtATime' /\ AttemptsAreCharged' /\ BudgetHolds'
  BY DEF joinVars, JoinInv, JoinTypes, InvitationsAreNumbered, OneAtATime, AttemptsAreCharged,
         BudgetHolds
<1>2. TasksHoldACode' /\ CallersHoldACode' /\ JoinTakesAnInvitation'
  BY DEF joinVars, JoinInv, TasksHoldACode, CallersHoldACode, JoinTakesAnInvitation
<1> QED
  BY <1>1, <1>2 DEF JoinInv

LEMMA CeremonyKeeps ==
  ASSUME PairingInv, NEW j \in Joiners, Ceremony(j)
  PROVE  PairingInv'
<1>1. JoinInv /\ PinInv /\ SessionInv
  BY DEF PairingInv
<1>2. UNCHANGED sessionVars
  BY DEF Ceremony, Call, AddressUnreachable, DialTimesOut, Answered, TurnedAway, BeginAttempt,
         OfferServes, Respond, Proceed, CallerLoses, ServerLoses, Consume, RecordJoin, JoinServed,
         CallerDecides, OfferAnswered, sessionVars
<1>3. JoinInv'
  <2>1. CASE \/ \E code \in 0 .. Len(minted) : Call(j, code)
             \/ AddressUnreachable(j) \/ DialTimesOut(j) \/ TurnedAway(j)
             \/ CallerLoses(j) \/ CallerDecides(j)
    BY <1>1, <2>1, CallingKeeps
  <2>2. CASE Answered(j)
    BY <1>1, <2>2, AnsweredKeeps
  <2>3. CASE BeginAttempt(j) \/ OfferServes(j)
    BY <1>1, <2>3, BeginKeeps
  <2>4. CASE Respond(j)
    BY <1>1, <2>4, RespondKeeps
  <2>5. CASE Proceed(j)
    BY <1>1, <2>5, ProceedKeeps
  <2>6. CASE ServerLoses(j)
    BY <1>1, <2>6, ServerLosesKeeps
  <2>7. CASE Consume(j) \/ \E yes \in BOOLEAN : OfferAnswered(j, yes)
    BY <1>1, <2>7, LetThroughKeeps
  <2>8. CASE RecordJoin(j) \/ JoinServed(j)
    BY <1>1, <2>8, EndedTaskKeeps
  <2> QED
    BY <2>1, <2>2, <2>3, <2>4, <2>5, <2>6, <2>7, <2>8 DEF Ceremony
<1>4. CASE RecordJoin(j)
  <2>1. BeginAdd(j, j, Pin(server[j].control, FALSE, "old")) /\ UNCHANGED <<file, given, raced>>
    BY <1>4 DEF RecordJoin
  <2>2. server[j].control \in BOOLEAN /\ j \in Peers /\ j \in Writers /\ "session" \in Writers
        /\ j # "session"
    BY <1>1, PairingAssumption DEF JoinInv, JoinTypes, Tasks
  <2>3. PinInv' /\ writing'["session"] = writing["session"]
    BY <1>1, <2>1, <2>2, AddBegins
  <2>4. SessionInv'
    BY <1>1, <1>2, <2>3, SessionStands
  <2> QED
    BY <1>3, <2>3, <2>4 DEF PairingInv
<1>5. CASE ~RecordJoin(j)
  <2>1. UNCHANGED pinVars
    BY <1>5 DEF Ceremony, Call, AddressUnreachable, DialTimesOut, Answered, TurnedAway,
         BeginAttempt, OfferServes, Respond, Proceed, CallerLoses, ServerLoses, Consume,
         JoinServed, CallerDecides, OfferAnswered
  <2>2. PinInv' /\ writing' = writing
    BY <1>1, <2>1, OwnStepsStand
  <2>3. SessionInv'
    BY <1>1, <1>2, <2>2, SessionStands
  <2> QED
    BY <1>3, <2>2, <2>3 DEF PairingInv
<1> QED
  BY <1>4, <1>5

LEMMA WindowStepKeeps ==
  ASSUME PairingInv, Window
  PROVE  PairingInv'
<1>1. JoinInv /\ PinInv /\ SessionInv
  BY DEF PairingInv
<1>2. UNCHANGED pinVars /\ UNCHANGED sessionVars
  BY DEF Window, Mint, RevokeInvite, InviteExpires, OfferExpires
<1>3. JoinInv'
  BY <1>1, MintKeeps, WindowKeeps DEF Window
<1> QED
  BY <1>1, <1>2, <1>3, OwnStepsStand, SessionStands DEF PairingInv

LEMMA SessionStepKeeps ==
  ASSUME PairingInv,
         \/ \E p \in Peers : Session(p)
         \/ \E met \in Peers \cup {NoPin} : SessionPairsAt(met)
         \/ PendingExpires \/ Reject \/ Reconnect
  PROVE  PairingInv'
<1>1. JoinInv /\ PinInv /\ SessionInv
  BY DEF PairingInv
<1>2. JoinInv'
  <2>1. UNCHANGED joinVars
    BY DEF Session, SessionPairs, Confirm, SessionUnpairs, SessionPairsAt, PendingExpires, Reject,
           Reconnect
  <2> QED
    BY <1>1, <2>1, JoinStands
<1>3. ASSUME NEW p \in Peers, NEW met \in Peers \cup {NoPin}, SessionPairs(p, met)
      PROVE  PinInv' /\ SessionInv'
  <2>1. PairInner(p, met) \in {p, NoPin} /\ SetPending(PairInner(p, met), p)
        /\ writing["session"] = Idle /\ UNCHANGED pinVars
    BY <1>3 DEF PairInner, SessionPairs
  <2> QED
    BY <1>1, <2>1, OwnStepsStand, ReportKeeps
<1>4. ASSUME NEW met \in Peers \cup {NoPin}, SessionPairsAt(met)
      PROVE  PinInv' /\ SessionInv'
  <2>1. SetPending(met, NoPin) /\ writing["session"] = Idle /\ UNCHANGED pinVars
    BY <1>4 DEF PairAtInner, SessionPairsAt
  <2> QED
    BY <1>1, <2>1, OwnStepsStand, ReportKeeps
<1>5. ASSUME NEW p \in Peers, NEW allow \in BOOLEAN, Confirm(p, allow)
      PROVE  PinInv' /\ SessionInv'
  BY <1>1, <1>5, ConfirmKeeps
<1>6. ASSUME NEW p \in Peers, SessionUnpairs(p)
      PROVE  PinInv' /\ SessionInv'
  <2>1. BeginRemove("session", p) /\ UNCHANGED <<file, given, raced>> /\ UNCHANGED sessionVars
        /\ "session" \in Writers
    BY <1>6, PairingAssumption DEF SessionUnpairs
  <2>2. PinInv' /\ writing'["session"].verb = "remove"
    BY <1>1, <2>1, RemoveBegins
  <2> QED
    BY <1>1, <2>1, <2>2, SessionStands
<1>7. ASSUME PendingExpires \/ Reject \/ Reconnect
      PROVE  PinInv' /\ SessionInv'
  <2>1. UNCHANGED pinVars
    BY <1>7 DEF PendingExpires, Reject, Reconnect
  <2> QED
    BY <1>1, <1>7, <2>1, OwnStepsStand, LettingGoKeeps
<1> QED
  BY <1>2, <1>3, <1>4, <1>5, <1>6, <1>7 DEF PairingInv, Session

LEMMA CommandStepKeeps ==
  ASSUME PairingInv, NEW p \in Peers, Commands(p)
  PROVE  PairingInv'
<1>1. JoinInv /\ PinInv /\ SessionInv
  BY DEF PairingInv
<1>2. UNCHANGED joinVars /\ UNCHANGED sessionVars /\ UNCHANGED <<file, given, raced>>
  BY DEF Commands, CommandRemoves, CommandSets, PollRemembers
<1>3. /\ "session" \in Writers /\ "poll" \in Writers /\ "cli" \in Writers
      /\ "session" # "poll" /\ "session" # "cli"
  BY PairingAssumption
<1>4. PinInv' /\ writing'["session"] = writing["session"]
  <2>1. CASE CommandRemoves(p)
    BY <1>1, <1>2, <1>3, <2>1, RemoveBegins DEF CommandRemoves
  <2>2. CASE PollRemembers(p)
    BY <1>1, <1>2, <1>3, <2>2, RememberBegins DEF PollRemembers
  <2>3. ASSUME NEW right \in {"controller", "bench"}, NEW granted \in BOOLEAN,
               CommandSets(p, right, granted)
        PROVE  PinInv' /\ writing'["session"] = writing["session"]
    <3> DEFINE verb == IF right = "controller" THEN "set_controller" ELSE "set_bench"
    <3>1. verb \in {"set_controller", "set_bench"} /\ BeginSet("cli", verb, p, granted)
      BY <2>3 DEF CommandSets
    <3> HIDE DEF verb
    <3> QED
      BY <1>1, <1>2, <1>3, <3>1, SetBegins
  <2> QED
    BY <2>1, <2>2, <2>3 DEF Commands
<1> QED
  BY <1>1, <1>2, <1>4, JoinStands, SessionStands DEF PairingInv

LEMMA WriterStepKeeps ==
  ASSUME PairingInv, NEW w \in Writers, WriterSteps(w)
  PROVE  PairingInv'
<1>1. JoinInv /\ PinInv /\ SessionInv /\ "session" \in Writers
  BY PairingAssumption DEF PairingInv
<1>2. UNCHANGED joinVars /\ UNCHANGED sessionVars
  BY DEF WriterSteps
<1>3. /\ PinInv'
      /\ \/ writing'["session"] = writing["session"]
         \/ writing'["session"] = Idle
         \/ writing'["session"].verb # "add"
  <2>1. CASE RememberAdds(w)
    BY <1>1, <2>1, RememberAddsKeeps
  <2>2. CASE Save(w)
    BY <1>1, <2>2, SaveKeeps
  <2>3. CASE SaveFails(w)
    BY <1>1, <2>3, SaveFailsKeeps
  <2> QED
    BY <2>1, <2>2, <2>3 DEF WriterSteps
<1> QED
  BY <1>1, <1>2, <1>3, JoinStands, SessionStands DEF PairingInv

LEMMA PairingStepKeeps == PairingInv /\ [Next]_vars => PairingInv'
<1> SUFFICES ASSUME PairingInv, [Next]_vars PROVE PairingInv'
  OBVIOUS
<1>1. CASE Window
  BY <1>1, WindowStepKeeps
<1>2. CASE \E j \in Joiners : Ceremony(j)
  BY <1>2, CeremonyKeeps
<1>3. CASE \/ \E p \in Peers : Session(p)
           \/ \E met \in Peers \cup {NoPin} : SessionPairsAt(met)
           \/ PendingExpires \/ Reject \/ Reconnect
  BY <1>3, SessionStepKeeps
<1>4. CASE \E p \in Peers : Commands(p)
  BY <1>4, CommandStepKeeps
<1>5. CASE \E w \in Writers : WriterSteps(w)
  BY <1>5, WriterStepKeeps
<1>6. CASE UNCHANGED vars
  <2>1. UNCHANGED joinVars /\ UNCHANGED pinVars /\ UNCHANGED sessionVars
    BY <1>6 DEF vars
  <2> QED
    BY <2>1, JoinStands, OwnStepsStand, SessionStands DEF PairingInv
<1> QED
  BY <1>1, <1>2, <1>3, <1>4, <1>5, <1>6 DEF Next

LEMMA PairingInvariant == Spec => []PairingInv
<1>1. Init => PairingInv
  BY InitPairingInv
<1>2. PairingInv /\ [Next]_vars => PairingInv'
  BY PairingStepKeeps
<1> QED
  BY <1>1, <1>2, PTL DEF Spec

\* Type correctness of the pin file, the join window, the calls and the session.
THEOREM PairingIsTyped == Spec => []TypeOK
<1>1. PairingInv => TypeOK
  BY DEF PairingInv, JoinInv, PinInv, SessionInv, JoinTypes, SessionTypes, TypeOK
<1> QED
  BY <1>1, PairingInvariant, PTL

\* Three attempts a window (joining.rs:117-130): whatever the number of machines
\* that call at once and however they fail, no invitation's code is handed to
\* more ceremonies than MaxAttempts.
THEOREM NoInvitationIsOverspent == Spec => []BudgetHolds
<1>1. PairingInv => BudgetHolds
  BY DEF PairingInv, JoinInv
<1> QED
  BY <1>1, PairingInvariant, PTL

\* Single use and key confirmation (joining.rs:176-184, peer/pair.rs:12-24): no
\* more machines are let through than invitations were minted, and none without
\* the code.
THEOREM JoiningTakesAnInvitation == Spec => []JoinTakesAnInvitation
<1>1. PairingInv => JoinTakesAnInvitation
  BY DEF PairingInv, JoinInv
<1> QED
  BY <1>1, PairingInvariant, PTL

\* The pin a browser session writes is of the last exchange it reported, with
\* the machine selected, decided once (session/fleet.rs:213-237).
THEOREM SessionsTrustTheLastExchange == Spec => []TrustFollowsTheLastExchange
<1>1. PairingInv => TrustFollowsTheLastExchange
  BY DEF PairingInv, SessionInv
<1> QED
  BY <1>1, PairingInvariant, PTL

\* Until two writers of the pin file overlap, every right in it was given by a
\* human since that machine was last paired (identity.rs:150-172, pinning.rs).
THEOREM EveryRightWasGiven == Spec => []RightsWereGiven
<1>1. PairingInv => RightsWereGiven
  BY DEF PairingInv, PinInv
<1> QED
  BY <1>1, PairingInvariant, PTL
=============================================================================
