------------------------------ MODULE FleetView ------------------------------
(***************************************************************************)
(* What each agent knows of its fleet (fleet.rs, fleet/listing.rs,         *)
(* fleet/routing.rs, fleet/vouched.rs) and the loop that keeps it up to    *)
(* date by asking every paired machine how it is (daemon.rs).              *)
(*                                                                         *)
(* An agent knows a machine from its own pin, from a beacon, from the      *)
(* report of its last poll, and from the digests of the machines it polls, *)
(* each a voucher.  A digest carries what its speaker has pinned, never    *)
(* what others told it.  The pin file is written whole here: the races of  *)
(* its writers are the subject of Pairing.                                 *)
(***************************************************************************)
EXTENDS Naturals, FiniteSets

CONSTANTS None,        \* no value
          Node,        \* machines, each running one agent
          Rank,        \* [Node -> Nat]: a machine's place in the order of ids
          Pollers,     \* the agents whose poll loop is followed
          Versions,    \* peer protocol versions the agents may speak
          MaxSightings,\* MAX_SIGHTINGS: machines remembered from beacons
          Fleets,      \* fleets to begin with: who has paired, given control,
                       \* and speaks which version, and how many changes it sees
          MaxChanges   \* BOUND: pins written, restarts, beacons, lost polls

ASSUME FleetAssumption ==
  /\ Rank \in [Node -> Nat]
  /\ \A a, b \in Node : Rank[a] = Rank[b] => a = b
  /\ Pollers \subseteq Node
  /\ Versions \subseteq {1, 2}
  /\ MaxSightings \in Nat
  /\ MaxChanges \in Nat
  /\ \A f \in Fleets : f.speaks \in [Node -> Versions] /\ f.changes \in 0..MaxChanges

VARIABLES
  pins,     \* [Node -> [Node -> a pin or None]]: each agent's pin file
  seen,     \* [Node -> machines heard beaconing]
  reports,  \* [Node -> [Node -> the version of a peer that answered, or None]]
  claims,   \* [Node -> what vouchers have said]
  poll,     \* [Node -> the exchange whose result is not recorded yet, or None]
  speaks,   \* [Node -> the version it speaks]
  pinned,   \* history: pairs <<a, b>> such that a has pinned b
  changes   \* steps counted against MaxChanges, those a fleet does without among them

fleetVars == <<pins, seen, reports, claims, poll, speaks, pinned, changes>>

Pin   == [controller : BOOLEAN, address : BOOLEAN]
Claim == [via : Node, node : Node, reachable : BOOLEAN]
\* What a machine introduces itself with, as far as others act on it; None is a
\* field its build does not have.
Hello == [version_max : Versions \cup {None},
          vouched : (SUBSET [node : Node, reachable : BOOLEAN]) \cup {None}]
\* The outcome of a poll: a failure, or the peer's version and its digest.
Poll  == [peer : Node, version : Versions \cup {None},
          digest : (SUBSET [node : Node, reachable : BOOLEAN]) \cup {None}]
\* A row of the listing a browser gets.
NodeDescriptor ==
  [pairing : {"paired", "unreachable", "discovered", "vouched"},
   vouched_by : Node \cup {None}, reached_via : Node \cup {None}]

ASSUME FleetNoneIsFresh == None \notin Node \cup Versions \cup Pin \cup Poll \cup NodeDescriptor

Pinned(a) == {b \in Node : pins[a][b] # None}
Granted   == {p \in Node \X Node : pins[p[1]][p[2]] # None /\ pins[p[1]][p[2]].controller}

\* Machines that paired before, with or without the right to control, and
\* agents that have just started.
FleetInit ==
  /\ \E f \in Fleets :
       /\ pins = [a \in Node |-> [b \in Node |->
                    IF <<a, b>> \in f.paired
                    THEN [controller |-> <<a, b>> \in f.control, address |-> <<a, b>> \in f.placed]
                    ELSE None]]
       /\ speaks = f.speaks
       /\ changes = MaxChanges - f.changes
  /\ seen = [a \in Node |-> {}]
  /\ reports = [a \in Node |-> [b \in Node |-> None]]
  /\ claims = [a \in Node |-> {}]
  /\ poll = [a \in Node |-> None]
  /\ pinned = {p \in Node \X Node : pins[p[1]][p[2]] # None}

-----------------------------------------------------------------------------
(* What an agent says of its fleet, and the routes it would take *)

\* Seeded fault: what others have told an agent leaves in its digest too.
DigestOfEverything(b) ==
  IF speaks[b] < 2 THEN None
  ELSE {[node |-> n, reachable |-> reports[b][n] # None] : n \in Pinned(b)}
       \cup {[node |-> c.node, reachable |-> c.reachable] : c \in claims[b]}

\* fleet_digest: one entry for each pin, reachable if its last poll succeeded.
\* An agent of the first version has no such thing.
Digest(b) ==
  IF speaks[b] < 2 THEN None
  ELSE {[node |-> n, reachable |-> reports[b][n] # None] : n \in Pinned(b)}

\* serve_query: what b answers a caller it has pinned.
Introduction(b) ==
  [version_max |-> IF speaks[b] < 2 THEN None ELSE speaks[b], vouched |-> Digest(b)]

\* exchange_hello, query: the report kept of it; a build that names no maximum
\* speaks the first version.
Report(b, hello) ==
  [peer |-> b, version |-> IF hello.version_max = None THEN 1 ELSE hello.version_max,
   digest |-> hello.vouched]

First(nodes) == CHOOSE v \in nodes : \A w \in nodes : Rank[v] <= Rank[w]

\* choose_voucher: of those that claim the target reachable and have answered
\* this agent's last poll, the first in the order of ids.  Links are alike here.
Voucher(a, t) ==
  LET fit == {c.via : c \in {d \in claims[a] : /\ d.node = t /\ d.reachable
                                               /\ reports[a][d.via] # None}}
  IN IF fit = {} THEN None ELSE First(fit)

\* vouch_of: whose word a row shows, the routed voucher's if there is a route.
VouchOf(a, t) ==
  LET tellers == {c.via : c \in {d \in claims[a] : d.node = t}}
  IN IF Voucher(a, t) # None THEN Voucher(a, t)
     ELSE IF tellers = {} THEN None ELSE First(tellers)

\* A paired machine: there if it answered the last poll or is heard beaconing;
\* it is dialled directly, whatever others say of it.
PairedRow(a, t) ==
  [pairing |-> IF reports[a][t] # None \/ t \in seen[a] THEN "paired" ELSE "unreachable",
   vouched_by |-> VouchOf(a, t), reached_via |-> None]

\* Heard on the wire: "nothing routes through anyone".
SightedRow(a, t) ==
  [pairing |-> "discovered", vouched_by |-> VouchOf(a, t), reached_via |-> None]

\* Known by a claim alone.
VouchedRow(a, t) ==
  [pairing |-> "vouched", vouched_by |-> VouchOf(a, t), reached_via |-> Voucher(a, t)]

\* Seeded fault: a machine heard on the wire is shown as such, paired or not.
RowBySight(a, t) ==
  CASE t \in seen[a]        -> SightedRow(a, t)
    [] t \notin seen[a] /\ pins[a][t] # None -> PairedRow(a, t)
    [] OTHER -> IF VouchOf(a, t) = None THEN None ELSE VouchedRow(a, t)

\* LocalFleet::nodes: the row of another machine, or None.  A pin outranks a
\* sighting and both outrank a vouch.
Row(a, t) ==
  CASE pins[a][t] # None                      -> PairedRow(a, t)
    [] pins[a][t] = None /\ t \in seen[a]     -> SightedRow(a, t)
    [] OTHER -> IF VouchOf(a, t) = None THEN None ELSE VouchedRow(a, t)

\* control_address: from the report, else from the pin.
HasAddress(a, b) == reports[a][b] # None \/ (pins[a][b] # None /\ pins[a][b].address)

\* peer_version_max: refused only when the last report says it is too old.
Capable(a, hop) == reports[a][hop] # 1

\* plan_control_route: whom to dial for a request aimed at t, or None.
Hop(a, t) ==
  LET hop == IF pins[a][t] # None THEN t ELSE Voucher(a, t)
  IN IF hop # None /\ Capable(a, hop) /\ HasAddress(a, hop) THEN hop ELSE None

\* A dial goes through when both ends have the other pinned.
Reaches(a, b) == pins[a][b] # None /\ pins[b][a] # None

-----------------------------------------------------------------------------
(* Beacons and housekeeping *)

Change == changes < MaxChanges /\ changes' = changes + 1

\* A stranger is dropped when the table is full; nothing is evicted for it.
Observe(a, b) ==
  /\ Change /\ a # b /\ b \notin seen[a]
  /\ Cardinality(seen[a]) < MaxSightings \/ pins[a][b] # None
  /\ seen' = [seen EXCEPT ![a] = @ \cup {b}]
  /\ UNCHANGED <<pins, reports, claims, poll, speaks, pinned>>

\* Old sightings of machines that are not pinned go, and old claims; which are
\* old is left open.
Prune(a) ==
  /\ Change
  /\ \E gone \in SUBSET (seen[a] \ Pinned(a)), old \in SUBSET claims[a] :
       /\ gone # {} \/ old # {}
       /\ seen' = [seen EXCEPT ![a] = @ \ gone]
       /\ claims' = [claims EXCEPT ![a] = @ \ old]
  /\ UNCHANGED <<pins, reports, poll, speaks, pinned>>

-----------------------------------------------------------------------------
(* Pins *)

AddPin(a, b) ==
  /\ Change /\ a # b /\ pins[a][b] = None
  /\ \E control \in BOOLEAN :
       pins' = [pins EXCEPT ![a][b] = [controller |-> control, address |-> TRUE]]
  /\ pinned' = pinned \cup {<<a, b>>}
  /\ UNCHANGED <<seen, reports, claims, poll, speaks>>

\* LocalFleet::unpair: the claims of the machine first, then its pin.
Unpair(a, b) ==
  /\ Change /\ pins[a][b] # None
  /\ claims' = [claims EXCEPT ![a] = {c \in @ : c.via # b}]
  /\ pins' = [pins EXCEPT ![a][b] = None]
  /\ UNCHANGED <<seen, reports, poll, speaks, pinned>>

\* `peer remove` writes the pin file alone, under a running agent.
RemovePin(a, b) ==
  /\ Change /\ pins[a][b] # None
  /\ pins' = [pins EXCEPT ![a][b] = None]
  /\ UNCHANGED <<seen, reports, claims, poll, speaks, pinned>>

SetControl(a, b) ==
  /\ Change /\ pins[a][b] # None
  /\ pins' = [pins EXCEPT ![a][b].controller = ~@]
  /\ UNCHANGED <<seen, reports, claims, poll, speaks, pinned>>

\* What an agent knows of others is in memory alone; it may come back upgraded.
Restart(a) ==
  /\ Change
  /\ seen' = [seen EXCEPT ![a] = {}]
  /\ reports' = [reports EXCEPT ![a] = [b \in Node |-> None]]
  /\ claims' = [claims EXCEPT ![a] = {}]
  /\ poll' = [poll EXCEPT ![a] = None]
  /\ \E v \in Versions : v >= speaks[a] /\ speaks' = [speaks EXCEPT ![a] = v]
  /\ UNCHANGED <<pins, pinned>>

-----------------------------------------------------------------------------
(* The poll *)

\* dialable_peers: paired, and heard on the wire or met before.
Dialable(a) == {b \in Pinned(a) : b \in seen[a] \/ pins[a][b].address}

\* query: the peer says what it has to say while the pin, or
\* the agent's view of it, may change.
PollAnswered(a, b) ==
  /\ a \in Pollers /\ poll[a] = None /\ b \in Dialable(a)
  /\ Reaches(a, b)
  /\ poll' = [poll EXCEPT ![a] = Report(b, Introduction(b))]
  /\ UNCHANGED <<pins, seen, reports, claims, speaks, pinned, changes>>

\* It does not answer, or does not have this machine pinned.
PollFailed(a, b) ==
  /\ a \in Pollers /\ poll[a] = None /\ b \in Dialable(a)
  /\ IF Reaches(a, b) THEN Change ELSE UNCHANGED changes
  /\ poll' = [poll EXCEPT ![a] = [peer |-> b, version |-> None, digest |-> None]]
  /\ UNCHANGED <<pins, seen, reports, claims, speaks, pinned>>

\* record_vouches: everything a voucher said before is replaced, and entries
\* that name the voucher or this agent are dropped.
Recorded(a, b, digest) ==
  {c \in claims[a] : c.via # b}
  \cup {[via |-> b, node |-> e.node, reachable |-> e.reachable] :
          e \in {d \in digest : d.node \notin {a, b}}}

\* Claims, then the address if there is a pin to keep it, then the report; a
\* failure takes the report back and leaves the claims.
PollRecord(a) ==
  /\ poll[a] # None
  /\ LET p == poll[a] b == poll[a].peer IN
       /\ reports' = [reports EXCEPT ![a][b] = p.version]
       /\ claims' = IF p.digest = None THEN claims
                    ELSE [claims EXCEPT ![a] = Recorded(a, b, p.digest)]
       /\ pins' = IF p.version # None /\ pins[a][b] # None
                  THEN [pins EXCEPT ![a][b].address = TRUE] ELSE pins
  /\ poll' = [poll EXCEPT ![a] = None]
  /\ UNCHANGED <<seen, speaks, pinned, changes>>

FleetNext ==
  \E a \in Node :
    \/ Prune(a) \/ Restart(a) \/ PollRecord(a)
    \/ \E b \in Node : \/ Observe(a, b) \/ AddPin(a, b) \/ Unpair(a, b) \/ RemovePin(a, b)
                       \/ SetControl(a, b) \/ PollAnswered(a, b) \/ PollFailed(a, b)

-----------------------------------------------------------------------------
(* Properties *)

FleetTypeOK ==
  /\ pins \in [Node -> [Node -> Pin \cup {None}]]
  /\ seen \in [Node -> SUBSET Node]
  /\ reports \in [Node -> [Node -> Versions \cup {None}]]
  /\ speaks \in [Node -> Versions]
  /\ changes \in 0..MaxChanges
  /\ claims \in [Node -> SUBSET Claim]
  /\ poll \in [Node -> Poll \cup {None}]
  /\ pinned \subseteq Node \X Node
  /\ \A a \in Node : /\ Introduction(a) \in Hello
                     /\ \A t \in Node : Row(a, t) \in NodeDescriptor \cup {None}

\* Knowledge travels one hop: whatever an agent was told of a machine, the one
\* that told it had that machine in its own pin store, and it was told by a
\* machine it had pinned itself.  (link.rs: "an entry that arrived in someone
\* else's digest must not leave in ours, because one-hop knowledge is the
\* structural rule that stops gossip flooding".)
OneHopOnly ==
  \A a \in Node : \A c \in claims[a] :
    <<c.via, c.node>> \in pinned /\ <<a, c.via>> \in pinned

\* What an operator is shown of a machine is what would happen to a request for
\* it: the router never dials for a machine the listing leaves out, goes to a
\* paired one directly, to a vouched one through the machine its row says it is
\* reached via, whose word the row shows, and to one heard on the wire, whose
\* row names no route, through the one that vouches for it there.  (vouched.rs:
\* "the attributes shown are the ones behind the route that would be taken";
\* listing.rs: "claiming a relay here would show a route never taken".)
ListingTellsTheRoute ==
  \A a, t \in Node : a # t /\ Hop(a, t) # None =>
    LET row == Row(a, t) IN
      /\ row # None
      /\ Hop(a, t) = IF row.pairing \in {"paired", "unreachable"} THEN t ELSE row.vouched_by
      /\ row.pairing = "vouched" => row.reached_via = row.vouched_by

=============================================================================
