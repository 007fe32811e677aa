------------------------------ MODULE Pairing -------------------------------
(***************************************************************************)
(* How a machine comes to be trusted by this one.                           *)
(*                                                                         *)
(*   - the join window (joining.rs): an invitation with an expiry, a single  *)
(*     use and three attempts, minted and revoked by the browser session;   *)
(*   - `atlasctl agent pair`, the same conversation without an agent;       *)
(*   - the ceremony itself (peer/pair.rs): four frames each way, the caller  *)
(*     first, on a connection that may fail anywhere;                        *)
(*   - the calling machine's walk over the addresses it was offered          *)
(*     (peer/reach.rs, peer/join.rs), and its own decision to trust;         *)
(*   - the browser session that pairs from here and holds the exchange until *)
(*     a human has compared the words (session/fleet.rs);                    *)
(*   - the pin file all of them write (PinStore).                            *)
(*                                                                         *)
(* A code is the number of the invitation it was minted for, 0 a mistyped    *)
(* one.  Expiry is a step that may be taken at any time.                     *)
(***************************************************************************)
EXTENDS PinStore, Sequences

CONSTANTS Joiners,      \* the machines that call this one
          MaxAttempts,  \* pairing.rs MAX_ATTEMPTS
          Addresses,    \* how many addresses an invitation offers
          Budgets       \* bounds: how often humans and the poll act in one behaviour

ASSUME PairingAssumption ==
    /\ Joiners \subseteq Peers
    /\ Joiners \cup {"session", "poll", "cli"} \subseteq Writers
    /\ \A j \in Joiners : j \notin {"session", "poll", "cli"}
    /\ MaxAttempts \in Nat \ {0}
    /\ Addresses \in Nat \ {0}

NoInvite == None
NoPending == None
Rounds == 4   \* hello, SPAKE2 message, confirmation, key

\* joining.rs Pending.
Invitation(no, control) ==
    [no |-> no, attempts |-> 0, control |-> control, expired |-> FALSE]

Invitations == [no : Nat, attempts : 0 .. MaxAttempts, control : BOOLEAN, expired : BOOLEAN]
Calls == [step : {"idle", "dial", "ceremony", "paired", "failed", "unreached"},
          code : Nat, addrs : 0 .. Addresses, sent : 0 .. Rounds]
Tasks == [step : {"none", "admitted", "ceremony", "failed", "agreed", "consumed",
                  "recording", "refused"},
          inv : Nat, with : Nat, replied : 0 .. Rounds, control : BOOLEAN]
\* session.rs PendingPairing.
Exchanges == [node : Peers, no : Nat, expired : BOOLEAN]

ASSUME PairingNoneIsFresh == None \notin Peers \cup Invitations \cup Exchanges

VARIABLES
    mode,     \* "agent", or "offer" while `agent pair` waits, then "over"
    slot,     \* JoinWindow.inner: NoInvite or the one outstanding invitation
    minted,   \* history: the allow_control flag of each invitation so far
    joined,   \* history: how many ceremonies have been let through to a pin
    begun,    \* history: how many ceremonies were handed the code of each invitation
    caller,   \* Joiners -> the calling machine's command
    server,   \* Joiners -> the task that serves that machine's connection
    trusts,   \* the joiners that have pinned this machine
    pending,  \* Session.pending_pairing
    last,     \* history: the last exchange this session reported, and the
              \* decisions it has taken since
    left      \* what is left of the bounds

joinVars == <<mode, slot, minted, joined, begun, caller, server, trusts>>
sessionVars == <<pending, last>>
vars == <<pinVars, joinVars, sessionVars, left>>

Quiet == [step |-> "idle", code |-> 0, addrs |-> 0, sent |-> 0]
\* `with` is the code the machine at the other end types: history, the task
\* itself learns of it only through the confirmation.
NoTask == [step |-> "none", inv |-> 0, with |-> 0, replied |-> 0, control |-> FALSE]

Init ==
    /\ PinInit
    /\ mode \in {"agent", "offer"}
    /\ slot = IF mode = "offer" THEN Invitation(1, FALSE) ELSE NoInvite
    /\ minted = IF mode = "offer" THEN <<FALSE>> ELSE << >>
    /\ joined = 0
    /\ begun = [n \in 1 .. Len(minted) |-> 0]
    /\ caller = [j \in Joiners |-> Quiet]
    /\ server = [j \in Joiners |-> NoTask]
    /\ trusts = {}
    /\ pending = NoPending
    /\ last = [no |-> 0, node |-> NoPin, wanted |-> NoPin, decisions |-> 0]
    /\ left \in Budgets

Spend(what) == left[what] > 0 /\ left' = [left EXCEPT ![what] = @ - 1]

-----------------------------------------------------------------------------
(* The join window. *)

\* JoinWindow::mint replaces whatever invitation was outstanding.
Mint(control) ==
    /\ mode = "agent"
    /\ Spend("mints")
    /\ minted' = Append(minted, control)
    /\ begun' = Append(begun, 0)
    /\ slot' = Invitation(Len(minted'), control)
    /\ UNCHANGED <<pinVars, sessionVars, mode, joined, caller, server, trusts>>

\* JoinWindow::revoke.
RevokeInvite ==
    /\ mode = "agent"
    /\ slot # NoInvite
    /\ slot' = NoInvite
    /\ UNCHANGED <<pinVars, sessionVars, left, mode, minted, joined, begun, caller, server, trusts>>

\* JOIN_TTL passes.
InviteExpires ==
    /\ mode = "agent"
    /\ slot # NoInvite
    /\ ~slot.expired
    /\ slot' = [slot EXCEPT !.expired = TRUE]
    /\ UNCHANGED <<pinVars, sessionVars, left, mode, minted, joined, begun, caller, server, trusts>>

\* Mutant of IsOpen: an exhausted invitation still counts as open.
IsOpenUntilExpiry == slot # NoInvite /\ ~slot.expired

\* JoinWindow::is_open, what the TLS verifier asks: exhausted counts as closed.
IsOpen == slot # NoInvite /\ ~slot.expired /\ slot.attempts < MaxAttempts

\* JoinWindow::begin_attempt for the task of j: one attempt is charged before
\* the ceremony runs.  An expired invitation is cleared, an exhausted one is
\* left for the ceremony that holds the last attempt.
BeginAttempt(j) ==
    /\ mode = "agent"
    /\ server[j].step = "admitted"
    /\ IF IsOpen
       THEN /\ slot' = [slot EXCEPT !.attempts = @ + 1]
            /\ server' = [server EXCEPT ![j].step = "ceremony", ![j].inv = slot.no]
            /\ begun' = [begun EXCEPT ![slot.no] = @ + 1]
       ELSE /\ slot' = IF slot # NoInvite /\ slot.expired THEN NoInvite ELSE slot
            /\ server' = [server EXCEPT ![j] = NoTask]
            /\ UNCHANGED begun
    /\ UNCHANGED <<pinVars, sessionVars, left, mode, minted, joined, caller, trusts>>

\* Mutant of Consume: the invitation is read and left in the slot.
ConsumeByReading(j) ==
    /\ mode = "agent"
    /\ server[j].step = "agreed"
    /\ slot # NoInvite
    /\ joined' = joined + 1
    /\ server' = [server EXCEPT ![j].step = "consumed", ![j].control = slot.control]
    /\ UNCHANGED <<pinVars, sessionVars, left, mode, slot, minted, begun, caller, trusts>>

\* JoinWindow::consume once the ceremony of j has succeeded: the slot is taken,
\* whichever invitation is in it and however old.
Consume(j) ==
    /\ mode = "agent"
    /\ server[j].step = "agreed"
    /\ IF slot = NoInvite
       THEN /\ server' = [server EXCEPT ![j].step = "refused"]
            /\ UNCHANGED <<slot, joined>>
       ELSE /\ slot' = NoInvite
            /\ joined' = joined + 1
            /\ server' = [server EXCEPT ![j].step = "consumed", ![j].control = slot.control]
    /\ UNCHANGED <<pinVars, sessionVars, left, mode, minted, begun, caller, trusts>>

\* serve_join writes the pin with the grant of the invitation it consumed ...
RecordJoin(j) ==
    /\ server[j].step = "consumed"
    /\ BeginAdd(j, j, Pin(server[j].control, FALSE, "old"))
    /\ server' = [server EXCEPT ![j].step = "recording"]
    /\ UNCHANGED <<file, given, raced, sessionVars, left, mode, slot, minted, joined, begun, caller, trusts>>

\* ... and is done, recorded or not.
JoinServed(j) ==
    /\ \/ server[j].step = "recording" /\ writing[j] = Idle
       \/ server[j].step = "refused"
    /\ server' = [server EXCEPT ![j] = NoTask]
    /\ UNCHANGED <<pinVars, sessionVars, left, mode, slot, minted, joined, begun, caller, trusts>>

-----------------------------------------------------------------------------
(* `atlasctl agent pair`: one connection at a time, MaxAttempts of them may   *)
(* fail, and a human compares the words before the pin is written.            *)

OfferBusy == \E j \in Joiners : server[j].step # "none"

OfferServes(j) ==
    /\ mode = "offer"
    /\ server[j].step = "admitted"
    /\ server' = [server EXCEPT ![j].step = "ceremony", ![j].inv = slot.no]
    /\ begun' = [begun EXCEPT ![slot.no] = @ + 1]
    /\ UNCHANGED <<pinVars, sessionVars, left, mode, slot, minted, joined, caller, trusts>>

OfferAnswered(j, yes) ==
    /\ mode = "offer"
    /\ server[j].step = "agreed"
    /\ mode' = "over"
    /\ slot' = NoInvite
    /\ server' = [server EXCEPT ![j].step = IF yes THEN "consumed" ELSE "refused"]
    /\ joined' = IF yes THEN joined + 1 ELSE joined
    /\ UNCHANGED <<pinVars, sessionVars, left, minted, begun, caller, trusts>>

\* CODE_TTL_SECS bounds the wait for a ceremony, not the human's answer.
OfferExpires ==
    /\ mode = "offer"
    /\ \A j \in Joiners : server[j].step \notin {"agreed", "consumed", "recording"}
    /\ mode' = "over"
    /\ server' = [j \in Joiners |-> NoTask]
    /\ UNCHANGED <<pinVars, sessionVars, left, slot, minted, joined, begun, caller, trusts>>

-----------------------------------------------------------------------------
(* The calling machine: `agent install --join`, `peer add`. *)

\* A command starts with the code a human carried over, right or mistyped.
Call(j, code) ==
    /\ caller[j].step \in {"idle", "failed", "unreached"}
    /\ j \notin trusts
    /\ Spend("calls")
    /\ caller' = [caller EXCEPT ![j] =
                    [step |-> "dial", code |-> code, addrs |-> Addresses, sent |-> 0]]
    /\ UNCHANGED <<pinVars, sessionVars, mode, slot, minted, joined, begun, server, trusts>>

\* reach::walk: an address nobody answers on costs nothing, so the next one is
\* tried; after the last the walk has failed.
AddressUnreachable(j) ==
    /\ caller[j].step = "dial"
    /\ caller' = IF caller[j].addrs > 1 THEN [caller EXCEPT ![j].addrs = @ - 1]
                                        ELSE [caller EXCEPT ![j].step = "unreached"]
    /\ UNCHANGED <<pinVars, sessionVars, left, mode, slot, minted, joined, begun, server, trusts>>

\* dial_and_pair turns its own five-second bound into an error that
\* never_reached does not know, and the walk stops there.
DialTimesOut(j) ==
    /\ caller[j].step = "dial"
    /\ caller' = [caller EXCEPT ![j].step = "unreached"]
    /\ UNCHANGED <<pinVars, sessionVars, left, mode, slot, minted, joined, begun, server, trusts>>

\* The machine answers.  PinnedPeerVerifier lets a pinned caller in, a stranger
\* only inside an open window; `agent pair` lets anybody in.  A pinned caller
\* is served as a peer and gets no ceremony, whatever code it holds.
Answered(j) ==
    /\ caller[j].step = "dial"
    /\ server[j].step = "none"
    /\ \/ mode = "agent" /\ IsOpen /\ ~Pinned(j)
       \/ mode = "offer" /\ ~OfferBusy
    /\ caller' = [caller EXCEPT ![j].step = "ceremony", ![j].sent = 1]
    /\ server' = [server EXCEPT ![j].step = "admitted", ![j].with = caller[j].code]
    /\ UNCHANGED <<pinVars, sessionVars, left, mode, slot, minted, joined, begun, trusts>>

TurnedAway(j) ==
    /\ caller[j].step = "dial"
    /\ \/ mode = "agent" /\ (Pinned(j) \/ ~IsOpen)
       \/ mode = "over"
    /\ caller' = [caller EXCEPT ![j].step = "failed"]
    /\ UNCHANGED <<pinVars, sessionVars, left, mode, slot, minted, joined, begun, server, trusts>>

-----------------------------------------------------------------------------
(* The ceremony.  The caller writes a frame and waits; the responder reads it, *)
(* writes its own of that round and goes on.  Round 3 carries the confirmation  *)
(* MACs: both sides check what they read, and only equal codes agree.           *)

\* Mutant of SameCode: the confirmation is read and not compared.
AnyCode(j) == TRUE

SameCode(j) == server[j].with = server[j].inv

Respond(j) ==
    /\ server[j].step = "ceremony"
    /\ caller[j].sent = server[j].replied + 1
    /\ server' = [server EXCEPT
         ![j].replied = @ + 1,
         ![j].step = CASE caller[j].sent = 3 /\ ~SameCode(j) -> "failed"
                       [] caller[j].sent = Rounds -> "agreed"
                       [] OTHER -> "ceremony"]
    /\ UNCHANGED <<pinVars, sessionVars, left, mode, slot, minted, joined, begun, caller, trusts>>

Proceed(j) ==
    /\ caller[j].step = "ceremony"
    /\ server[j].replied = caller[j].sent
    /\ caller' = [caller EXCEPT
         ![j].sent = IF @ = Rounds \/ (@ = 3 /\ ~SameCode(j)) THEN @ ELSE @ + 1,
         ![j].step = CASE caller[j].sent = 3 /\ ~SameCode(j) -> "failed"
                       [] caller[j].sent = Rounds -> "paired"
                       [] OTHER -> "ceremony"]
    /\ UNCHANGED <<pinVars, sessionVars, left, mode, slot, minted, joined, begun, server, trusts>>

\* The connection is lost under the caller, or the responder has hung up.
CallerLoses(j) ==
    /\ caller[j].step = "ceremony"
    /\ caller' = [caller EXCEPT ![j].step = "failed"]
    /\ UNCHANGED <<pinVars, sessionVars, left, mode, slot, minted, joined, begun, server, trusts>>

\* The responder's read fails, its MAC check has failed, or JOIN_TIMEOUT ends
\* the task.  `agent pair` counts the connection.
ServerLoses(j) ==
    /\ server[j].step \in {"admitted", "ceremony", "failed"}
    /\ server' = [server EXCEPT ![j] = NoTask]
    /\ slot' = IF mode = "offer" THEN [slot EXCEPT !.attempts = @ + 1] ELSE slot
    /\ mode' = IF mode = "offer" /\ slot'.attempts = MaxAttempts THEN "over" ELSE mode
    /\ UNCHANGED <<pinVars, sessionVars, left, minted, joined, begun, caller, trusts>>

\* The caller's own pin: `--join` writes it at once, `peer add` asks first, and
\* the write may fail.
CallerDecides(j) ==
    /\ caller[j].step = "paired"
    /\ caller' = [caller EXCEPT ![j] = Quiet]
    /\ \/ trusts' = trusts \cup {j}
       \/ UNCHANGED trusts
    /\ UNCHANGED <<pinVars, sessionVars, left, mode, slot, minted, joined, begun, server>>

-----------------------------------------------------------------------------
(* The browser session that pairs from here. *)

\* pair_inner: the machine the ceremony was completed with has to be the one
\* that was selected; NoPin stands for a ceremony that failed.
PairInner(p, met) == IF met = p THEN met ELSE NoPin

\* pair_at_inner: an address was selected, and nobody is expected at it.
PairAtInner(met) == met

\* Mutant of SetPending: an exchange that failed leaves the one before standing.
SetPendingOnSuccess(p, wanted) ==
    /\ pending' = IF p # NoPin THEN [node |-> p, no |-> last.no + 1, expired |-> FALSE]
                               ELSE pending
    /\ last' = [no |-> last.no + 1, node |-> p, wanted |-> wanted, decisions |-> 0]

\* The exchange that completed is held and replaces the one before; one that
\* failed clears it.
SetPending(p, wanted) ==
    /\ pending' = IF p # NoPin THEN [node |-> p, no |-> last.no + 1, expired |-> FALSE]
                               ELSE NoPending
    /\ last' = [no |-> last.no + 1, node |-> p, wanted |-> wanted, decisions |-> 0]

\* Session::pair: a machine of the list; whichever answers there.
SessionPairs(p, met) ==
    /\ mode = "agent"
    /\ writing["session"] = Idle
    /\ Spend("pairs")
    /\ SetPending(PairInner(p, met), p)
    /\ UNCHANGED <<pinVars, joinVars>>

\* Session::pair_at: an address that was typed.
SessionPairsAt(met) ==
    /\ mode = "agent"
    /\ writing["session"] = Idle
    /\ Spend("pairs")
    /\ SetPending(PairAtInner(met), NoPin)
    /\ UNCHANGED <<pinVars, joinVars>>

\* PENDING_PAIRING_TTL passes.
PendingExpires ==
    /\ pending # NoPending
    /\ ~pending.expired
    /\ pending' = [pending EXCEPT !.expired = TRUE]
    /\ UNCHANGED <<pinVars, joinVars, last, left>>

Decide == last' = [last EXCEPT !.decisions = IF last.no > 0 /\ @ < 2 THEN @ + 1 ELSE @]

\* Session::confirm_pairing: taken first; then the node and the age are checked;
\* then the pin is written with the grant of the same decision.
Confirm(p, allow) ==
    /\ mode = "agent"
    /\ writing["session"] = Idle
    /\ pending' = NoPending
    /\ Decide
    /\ IF pending # NoPending /\ pending.node = p /\ ~pending.expired
       THEN BeginAdd("session", p, Pin(allow, FALSE, "old"))
       ELSE UNCHANGED writing
    /\ UNCHANGED <<file, given, raced, joinVars, left>>

\* Session::reject_pairing.
Reject ==
    /\ mode = "agent"
    /\ writing["session"] = Idle
    /\ pending' = NoPending
    /\ Decide
    /\ UNCHANGED <<pinVars, joinVars, left>>

\* The socket closes and the browser opens another: the slot dies with it.
Reconnect ==
    /\ mode = "agent"
    /\ writing["session"] = Idle
    /\ pending' = NoPending
    /\ last' = [last EXCEPT !.node = NoPin]
    /\ UNCHANGED <<pinVars, joinVars, left>>

\* Session::unpair.
SessionUnpairs(p) ==
    /\ mode = "agent"
    /\ Spend("verbs")
    /\ BeginRemove("session", p)
    /\ UNCHANGED <<file, given, raced, joinVars, sessionVars>>

-----------------------------------------------------------------------------
(* `atlasctl peer remove | grant-* | revoke-*`, and the peer poll.            *)

CommandRemoves(p) ==
    /\ Spend("verbs")
    /\ BeginRemove("cli", p)
    /\ UNCHANGED <<file, given, raced, joinVars, sessionVars>>

CommandSets(p, right, granted) ==
    /\ Spend("verbs")
    /\ BeginSet("cli", IF right = "controller" THEN "set_controller" ELSE "set_bench",
                p, granted)
    /\ UNCHANGED <<file, given, raced, joinVars, sessionVars>>

PollRemembers(p) ==
    /\ mode = "agent"
    /\ Spend("verbs")
    /\ BeginRemember("poll", p)
    /\ UNCHANGED <<file, given, raced, joinVars, sessionVars>>

WriterSteps(w) == (RememberAdds(w) \/ Save(w) \/ SaveFails(w))
                    /\ UNCHANGED <<joinVars, sessionVars, left>>

-----------------------------------------------------------------------------
Ceremony(j) ==
    \/ \E code \in 0 .. Len(minted) : Call(j, code)
    \/ AddressUnreachable(j) \/ DialTimesOut(j) \/ Answered(j) \/ TurnedAway(j)
    \/ BeginAttempt(j) \/ OfferServes(j)
    \/ Respond(j) \/ Proceed(j) \/ CallerLoses(j) \/ ServerLoses(j)
    \/ Consume(j) \/ RecordJoin(j) \/ JoinServed(j) \/ CallerDecides(j)
    \/ \E yes \in BOOLEAN : OfferAnswered(j, yes)

Window ==
    \/ \E control \in BOOLEAN : Mint(control)
    \/ RevokeInvite \/ InviteExpires \/ OfferExpires

Session(p) ==
    \/ \E met \in Peers \cup {NoPin} : SessionPairs(p, met)
    \/ \E allow \in BOOLEAN : Confirm(p, allow)
    \/ SessionUnpairs(p)

Commands(p) ==
    \/ CommandRemoves(p) \/ PollRemembers(p)
    \/ \E right \in {"controller", "bench"}, granted \in BOOLEAN :
         CommandSets(p, right, granted)

Next ==
    \/ Window
    \/ \E j \in Joiners : Ceremony(j)
    \/ \E p \in Peers : Session(p) \/ Commands(p)
    \/ \E met \in Peers \cup {NoPin} : SessionPairsAt(met)
    \/ PendingExpires \/ Reject \/ Reconnect
    \/ \E w \in Writers : WriterSteps(w)

Spec == Init /\ [][Next]_vars

-----------------------------------------------------------------------------
\* Types.
TypeOK ==
    /\ PinTypeOK
    /\ mode \in {"agent", "offer", "over"}
    /\ slot \in Invitations \cup {NoInvite}
    /\ minted \in Seq(BOOLEAN)
    /\ joined \in Nat
    /\ begun \in Seq(Nat)
    /\ caller \in [Joiners -> Calls]
    /\ server \in [Joiners -> Tasks]
    /\ trusts \subseteq Joiners
    /\ pending \in Exchanges \cup {NoPending}
    /\ last \in [no : Nat, node : Peers \cup {NoPin}, wanted : Peers \cup {NoPin},
                decisions : 0 .. 2]

\* "Three attempts per window" (joining.rs:26, :117-130): however the
\* connections overlap, fail or time out, no more than MaxAttempts ceremonies
\* are ever handed the code of one invitation.
BudgetHolds == \A n \in 1 .. Len(minted) : begun[n] <= MaxAttempts

\* A join costs an invitation and takes its code.  Single use (joining.rs:20,
\* :176-184): however the ceremonies race, the window lets no more machines
\* through to a pin than invitations were minted, and an invitation that is still
\* open has let nobody through.  Key confirmation (peer/pair.rs:12-24): a machine
\* is trusted by this one, or trusts it, only after a conversation in which both
\* used the same code.
JoinTakesAnInvitation ==
    /\ joined + (IF slot = NoInvite THEN 0 ELSE 1) <= Len(minted)
    /\ \A j \in Joiners :
         /\ server[j].step \in {"agreed", "consumed", "recording"} =>
              server[j].inv # 0 /\ server[j].with = server[j].inv
         /\ caller[j].step = "paired" => caller[j].code \in 1 .. Len(minted)

\* session/fleet.rs:213-237, session.rs:69-82, listing.rs:424-432: the pin a
\* session writes is the one of the last exchange it reported, which completed,
\* with the machine the operator selected if one was selected, and nothing was
\* decided about that exchange before.
TrustFollowsTheLastExchange ==
    writing["session"] # Idle /\ writing["session"].verb = "add" =>
      /\ last.node = writing["session"].node
      /\ last.wanted \in {NoPin, last.node}
      /\ last.decisions = 1

\* identity.rs:150-172, pinning.rs: as long as no two writers have overlapped,
\* every right in the file was given by a human since that peer was last paired:
\* unpairing and pairing anew leave nothing behind.
RightsWereGiven ==
    ~raced => \A p \in Peers : \A r \in Rights(file[p]) : <<p, r>> \in given
=============================================================================
