---------------------------- MODULE ControlRelay ----------------------------
(***************************************************************************)
(* A browser asks its agent to have something done on another machine: on  *)
(* one it has paired with, by dialling it (rules O2 and T1 to T4), or on   *)
(* one that a paired machine vouches for, through that machine (O3, R1 to  *)
(* R6).  Sources: session/remote.rs, peer/control.rs, fleet/routing.rs and *)
(* daemon/peer_serve.rs.                                                   *)
(*                                                                         *)
(* Each leg is a connection of its own: the one that waits for an answer   *)
(* may give up, and the one that was asked goes on and does what it was    *)
(* asked to.                                                               *)
(***************************************************************************)
EXTENDS FleetView

CONSTANTS Ask,     \* requests, each made once
          Askers,  \* agents whose browser makes them
          Targets  \* machines they are aimed at

ASSUME RelayAssumption == Askers \subseteq Node /\ Targets \subseteq Node

VARIABLES
  ask,    \* [Ask -> the request, or None before it is made]
  ran,    \* history: [Ask -> how often its target has carried it out]
  during  \* history: [Ask -> rights <<who gave it, to whom>> in force since it was made]

vars == <<fleetVars, ask, ran, during>>

\* What an agent can say of a request: the target's own answer, a refusal of a
\* machine on the way or of this one, or that no route was found.
Answer == {"done", "failed_there", "control_refused", "relay_refused", "not_routable"}

\* The origin waits for the machine it dialled, a relay for the target; each
\* that was asked holds what it has to say until it is heard.
Request ==
  [origin : Node, target : Node, via : Node \cup {None},
   at : {"plan", "dial", "wait", "answered"}, answer : Answer \cup {None},
   relay : {"idle", "check", "dial", "wait", "said"}, relayed : Answer \cup {None},
   there : {"idle", "check", "run", "said"}, said : Answer \cup {None}]

ASSUME RequestNoneIsFresh == None \notin Request \cup Answer

TypeOK ==
  /\ FleetTypeOK
  /\ ask \in [Ask -> Request \cup {None}]
  /\ ran \in [Ask -> Nat]
  /\ during \in [Ask -> SUBSET (Node \X Node)]

Init ==
  /\ FleetInit
  /\ ask = [q \in Ask |-> None]
  /\ ran = [q \in Ask |-> 0]
  /\ during = [q \in Ask |-> {}]

-----------------------------------------------------------------------------
(* The origin *)

\* What the operator asks of this machine itself never gets here (rule O1).
Asks(q, a, t) ==
  /\ ask[q] = None /\ a # t
  /\ ask' = [ask EXCEPT ![q] =
       [origin |-> a, target |-> t, via |-> None, at |-> "plan", answer |-> None,
        relay |-> "idle", relayed |-> None, there |-> "idle", said |-> None]]
  /\ during' = [during EXCEPT ![q] = Granted]
  /\ UNCHANGED <<fleetVars, ran>>

Stands(q, field, stage) == ask[q] # None /\ ask[q][field] = stage

Says(q, answer) == ask' = [ask EXCEPT ![q].at = "answered", ![q].answer = answer]
Keep == UNCHANGED <<fleetVars, ran, during>>

\* Which hop to dial is decided once, from what this agent knows now.
PlanRoute(q) ==
  /\ Stands(q, "at", "plan")
  /\ LET hop == Hop(ask[q].origin, ask[q].target) IN
       IF hop = None THEN Says(q, "not_routable")
       ELSE ask' = [ask EXCEPT ![q].at = "dial",
                      ![q].via = IF hop = ask[q].target THEN None ELSE hop]
  /\ Keep

\* What an error on the first leg is reported as.
FirstLegFails(q) == Says(q, IF ask[q].via = None THEN "not_routable" ELSE "relay_refused")

\* send_control, send_control_to: the pins and the version are checked on the
\* connection itself, then the frame is written.
DialHop(q) ==
  /\ Stands(q, "at", "dial")
  /\ LET k == ask[q] hop == IF k.via = None THEN k.target ELSE k.via IN
       IF Reaches(k.origin, hop) /\ speaks[hop] >= 2
       THEN ask' = IF k.via = None THEN [ask EXCEPT ![q].at = "wait", ![q].there = "check"]
                   ELSE [ask EXCEPT ![q].at = "wait", ![q].relay = "check"]
       ELSE FirstLegFails(q)
  /\ Keep

HopUnreachable(q) == Stands(q, "at", "dial") /\ FirstLegFails(q) /\ Keep

\* The answer is passed to the browser as it came.
Hears(q) ==
  /\ Stands(q, "at", "wait")
  /\ \/ ask[q].via = None /\ ask[q].there = "said" /\ Says(q, ask[q].said)
     \/ ask[q].via # None /\ ask[q].relay = "said" /\ Says(q, ask[q].relayed)
  /\ Keep

\* The budget is used up, or the connection breaks.
GivesUp(q) == Stands(q, "at", "wait") /\ FirstLegFails(q) /\ Keep

-----------------------------------------------------------------------------
(* The relay *)

Relays(q, answer) == ask' = [ask EXCEPT ![q].relay = "said", ![q].relayed = answer]

\* Seeded fault: whoever has been paired with may have a request forwarded.
RelayChecksPinned(q) ==
  /\ Stands(q, "relay", "check")
  /\ LET k == ask[q] IN
       IF /\ pins[k.via][k.origin] # None
          /\ pins[k.via][k.target] # None
          /\ HasAddress(k.via, k.target)
       THEN ask' = [ask EXCEPT ![q].relay = "dial"]
       ELSE Relays(q, "relay_refused")
  /\ Keep

\* R2 to R4: the right of the one that asks, the target among this agent's own
\* pins, an address of its own for it.
RelayChecks(q) ==
  /\ Stands(q, "relay", "check")
  /\ LET k == ask[q] IN
       IF /\ <<k.via, k.origin>> \in Granted
          /\ pins[k.via][k.target] # None
          /\ HasAddress(k.via, k.target)
       THEN ask' = [ask EXCEPT ![q].relay = "dial"]
       ELSE Relays(q, "relay_refused")
  /\ Keep

\* R5: in a frame that names no further hop, as this agent itself.
RelayDials(q) ==
  /\ Stands(q, "relay", "dial")
  /\ IF Reaches(ask[q].via, ask[q].target) /\ speaks[ask[q].target] >= 2
     THEN ask' = [ask EXCEPT ![q].relay = "wait", ![q].there = "check"]
     ELSE Relays(q, "relay_refused")
  /\ Keep

RelayHears(q) ==
  /\ Stands(q, "relay", "wait") /\ ask[q].there = "said"
  /\ Relays(q, ask[q].said)
  /\ Keep

\* Seeded fault: an answer that does not come is asked for again.
RelayAsksAgain(q) ==
  /\ ask[q] # None /\ ask[q].relay = "wait"
  /\ ask' = [ask EXCEPT ![q].relay = "dial"]
  /\ Keep

\* The target is not reached, or does not answer in time.
RelayGivesUp(q) ==
  /\ ask[q] # None /\ ask[q].relay \in {"dial", "wait"}
  /\ Relays(q, "relay_refused")
  /\ Keep

-----------------------------------------------------------------------------
(* The target *)

\* T2: the right of whoever dialled, read now.
TargetChecks(q) ==
  /\ Stands(q, "there", "check")
  /\ LET k == ask[q] sender == IF k.via = None THEN k.origin ELSE k.via IN
       ask' = IF <<k.target, sender>> \in Granted
              THEN [ask EXCEPT ![q].there = "run"]
              ELSE [ask EXCEPT ![q].there = "said", ![q].said = "control_refused"]
  /\ Keep

\* T3: through the same core as a request of its own browser.
TargetRuns(q) ==
  /\ Stands(q, "there", "run")
  /\ \/ /\ ask' = [ask EXCEPT ![q].there = "said", ![q].said = "done"]
        /\ ran' = [ran EXCEPT ![q] = @ + 1]
     \/ /\ ask' = [ask EXCEPT ![q].there = "said", ![q].said = "failed_there"]
        /\ UNCHANGED ran
  /\ UNCHANGED <<fleetVars, during>>

-----------------------------------------------------------------------------

\* A right given while a request is under way is one it may use.
FleetStep ==
  /\ FleetNext
  /\ during' = [q \in Ask |-> IF ask[q] = None THEN {} ELSE during[q] \cup Granted']
  /\ UNCHANGED <<ask, ran>>

Next ==
  \/ FleetStep
  \/ \E q \in Ask :
       \/ \E a \in Askers, t \in Targets : Asks(q, a, t)
       \/ PlanRoute(q) \/ DialHop(q) \/ HopUnreachable(q) \/ Hears(q) \/ GivesUp(q)
       \/ RelayChecks(q) \/ RelayDials(q) \/ RelayHears(q) \/ RelayGivesUp(q)
       \/ TargetChecks(q) \/ TargetRuns(q)

Spec == Init /\ [][Next]_vars

-----------------------------------------------------------------------------
(* Properties *)

\* What is carried out on a machine, every machine on the way has given the one
\* before it the right to ask for, at some moment since the browser asked: a
\* right revoked before that is of no use, nor is a relay's own right at the
\* target of any use to one that the relay has not given it.  (peer_serve.rs:
\* "a relay that forwarded for any pinned peer would let an ungranted machine
\* spend the RELAY's grant at the target".)
RightsHeldWhileAsked ==
  \A q \in Ask : ran[q] > 0 =>
    LET k == ask[q] IN
      IF k.via = None THEN <<k.target, k.origin>> \in during[q]
      ELSE {<<k.via, k.origin>>, <<k.target, k.via>>} \subseteq during[q]

\* Nothing is done twice, and an answer is about what was done: a request
\* reported done was, and one that was refused for want of the right, or that
\* failed on the target, was not.  Of a request that went unanswered nothing is
\* known.  (control.rs: "a longer launch fails VISIBLY and is recovered with
\* Status/Stop on the target".)
AnswerTellsTheTruth ==
  \A q \in Ask :
    /\ ran[q] <= 1
    /\ Stands(q, "answer", "done") => ran[q] = 1
    /\ ask[q] # None /\ ask[q].answer \in {"control_refused", "failed_there"} => ran[q] = 0

=============================================================================
