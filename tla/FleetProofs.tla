----------------------------- MODULE FleetProofs -----------------------------
(***************************************************************************)
(* What holds of any fleet: how far knowledge travels, that the listing    *)
(* and the router agree, and whose right a relayed request was run with.   *)
(***************************************************************************)
EXTENDS ControlRelay, WellFoundedInduction, TLAPS

FleetTypes ==
  /\ pins \in [Node -> [Node -> Pin \cup {None}]]
  /\ seen \in [Node -> SUBSET Node]
  /\ reports \in [Node -> [Node -> Versions \cup {None}]]
  /\ speaks \in [Node -> Versions]
  /\ changes \in 0..MaxChanges
  /\ claims \in [Node -> SUBSET Claim]
  /\ poll \in [Node -> Poll \cup {None}]
  /\ pinned \subseteq Node \X Node

\* A pin that is there is remembered, and so are the pins a poll in hand was
\* made with and speaks of.
PinsAreRemembered ==
  /\ \A a, b \in Node : pins[a][b] # None => <<a, b>> \in pinned
  /\ \A a \in Node : poll[a] # None =>
       /\ <<a, poll[a].peer>> \in pinned
       /\ poll[a].digest # None =>
            \A e \in poll[a].digest : <<poll[a].peer, e.node>> \in pinned

FleetInv == FleetTypes /\ PinsAreRemembered /\ OneHopOnly

-----------------------------------------------------------------------------
(* The listing and the router, in any state of the right type *)

\* The order of ids has a first among any machines there are.
LEMMA FirstIsOne ==
  ASSUME NEW S \in SUBSET Node, S # {}
  PROVE  First(S) \in S
<1> DEFINE R == {Rank[v] : v \in S}
<1>1. Rank \in [Node -> Nat]
  BY FleetAssumption
<1>2. R \subseteq Nat /\ R # {}
  BY <1>1
<1>3. PICK m \in R : \A i \in R : ~ (<<i, m>> \in OpToRel(<, Nat))
  BY <1>2, NatLessThanWellFounded, WFMin
<1>4. PICK v \in S : m = Rank[v]
  OBVIOUS
<1>5. ASSUME NEW w \in S PROVE Rank[v] <= Rank[w]
  <2>1. Rank[w] \in R /\ Rank[w] \in Nat /\ Rank[v] \in Nat
    BY <1>1
  <2>2. ~ (Rank[w] < Rank[v])
    <3> SUFFICES ASSUME Rank[w] < Rank[v] PROVE <<Rank[w], m>> \in OpToRel(<, Nat)
      BY <1>3, <2>1
    <3>1. <<Rank[w], m>> \in Nat \X Nat
      BY <1>4, <2>1
    <3> QED
      BY <1>4, <3>1 DEF OpToRel
  <2> QED
    BY <2>1, <2>2
<1> QED
  BY <1>5 DEF First

LEMMA VouchersAreNodes ==
  ASSUME FleetTypes, NEW a \in Node, NEW t \in Node
  PROVE  /\ Voucher(a, t) \in Node \cup {None}
         /\ VouchOf(a, t) \in Node \cup {None}
         /\ Voucher(a, t) # None => VouchOf(a, t) = Voucher(a, t)
<1> DEFINE fit == {c.via : c \in {d \in claims[a] : /\ d.node = t /\ d.reachable
                                                   /\ reports[a][d.via] # None}}
           tellers == {c.via : c \in {d \in claims[a] : d.node = t}}
<1>1. claims[a] \subseteq Claim
  BY DEF FleetTypes
<1>2. fit \subseteq Node /\ tellers \subseteq Node
  BY <1>1 DEF Claim
<1>3. Voucher(a, t) = IF fit = {} THEN None ELSE First(fit)
  BY DEF Voucher
<1>4. VouchOf(a, t) = IF Voucher(a, t) # None THEN Voucher(a, t)
                      ELSE IF tellers = {} THEN None ELSE First(tellers)
  BY DEF VouchOf
<1> HIDE DEF fit, tellers
<1>5. fit # {} => First(fit) \in Node
  BY <1>2, FirstIsOne
<1>6. tellers # {} => First(tellers) \in Node
  BY <1>2, FirstIsOne
<1> QED
  BY <1>3, <1>4, <1>5, <1>6

LEMMA RowsAreDescriptors ==
  ASSUME FleetTypes, NEW a \in Node, NEW t \in Node
  PROVE  /\ PairedRow(a, t) \in NodeDescriptor
         /\ SightedRow(a, t) \in NodeDescriptor
         /\ VouchedRow(a, t) \in NodeDescriptor
         /\ Row(a, t) \in NodeDescriptor \cup {None}
<1>1. Voucher(a, t) \in Node \cup {None} /\ VouchOf(a, t) \in Node \cup {None}
  BY VouchersAreNodes
<1>2. PairedRow(a, t) \in NodeDescriptor
  BY <1>1 DEF PairedRow, NodeDescriptor
<1>3. SightedRow(a, t) \in NodeDescriptor /\ VouchedRow(a, t) \in NodeDescriptor
  BY <1>1 DEF SightedRow, VouchedRow, NodeDescriptor
<1>4. Row(a, t) \in {PairedRow(a, t), SightedRow(a, t), VouchedRow(a, t), None}
  BY DEF Row
<1> QED
  BY <1>2, <1>3, <1>4

LEMMA IntroductionsAreHellos ==
  ASSUME FleetTypes, NEW a \in Node
  PROVE  Introduction(a) \in Hello
<1>1. speaks[a] \in Versions
  BY DEF FleetTypes
<1>2. Digest(a) \in (SUBSET [node : Node, reachable : BOOLEAN]) \cup {None}
  <2> DEFINE D == {[node |-> n, reachable |-> reports[a][n] # None] : n \in Pinned(a)}
  <2>1. ASSUME NEW n \in Node
        PROVE  [node |-> n, reachable |-> reports[a][n] # None] \in [node : Node, reachable : BOOLEAN]
    OBVIOUS
  <2>2. Pinned(a) \subseteq Node
    BY DEF Pinned
  <2>3. D \in SUBSET [node : Node, reachable : BOOLEAN]
    BY <2>1, <2>2
  <2>4. Digest(a) = None \/ Digest(a) = D
    BY DEF Digest
  <2> HIDE DEF D
  <2> QED
    BY <2>3, <2>4
<1> QED
  BY <1>1, <1>2 DEF Introduction, Hello

\* The listing shows the route that would be taken, whatever is known of whom.
LEMMA RoutesAreListed ==
  ASSUME FleetTypes
  PROVE  ListingTellsTheRoute
<1> SUFFICES ASSUME NEW a \in Node, NEW t \in Node, Hop(a, t) # None
             PROVE  /\ Row(a, t) # None
                    /\ Hop(a, t) = IF Row(a, t).pairing \in {"paired", "unreachable"}
                                   THEN t ELSE Row(a, t).vouched_by
                    /\ Row(a, t).pairing = "vouched" => Row(a, t).reached_via = Row(a, t).vouched_by
  BY DEF ListingTellsTheRoute
<1>1. /\ PairedRow(a, t) # None /\ SightedRow(a, t) # None /\ VouchedRow(a, t) # None
      /\ Voucher(a, t) # None => VouchOf(a, t) = Voucher(a, t)
  BY RowsAreDescriptors, VouchersAreNodes, FleetNoneIsFresh
<1>2. CASE pins[a][t] # None
  <2>1. Hop(a, t) = t /\ Row(a, t) = PairedRow(a, t)
    BY <1>2 DEF Hop, Row
  <2> QED
    BY <1>1, <2>1 DEF PairedRow
<1>3. CASE pins[a][t] = None /\ t \in seen[a]
  <2>1. Hop(a, t) = Voucher(a, t) /\ Row(a, t) = SightedRow(a, t)
    BY <1>3 DEF Hop, Row
  <2> QED
    BY <1>1, <2>1 DEF SightedRow
<1>4. CASE pins[a][t] = None /\ t \notin seen[a]
  <2>1. Hop(a, t) = Voucher(a, t) /\ Voucher(a, t) # None
    BY <1>4 DEF Hop
  <2>2. Row(a, t) = VouchedRow(a, t)
    BY <1>1, <1>4, <2>1 DEF Row
  <2> QED
    BY <1>1, <2>1, <2>2 DEF VouchedRow
<1> QED
  BY <1>2, <1>3, <1>4

-----------------------------------------------------------------------------
(* How far knowledge travels *)

LEMMA InitFleetInv == FleetInit => FleetInv
<1> SUFFICES ASSUME FleetInit PROVE FleetInv
  OBVIOUS
<1>1. PICK f \in Fleets :
        /\ pins = [a \in Node |-> [b \in Node |->
                    IF <<a, b>> \in f.paired
                    THEN [controller |-> <<a, b>> \in f.control, address |-> <<a, b>> \in f.placed]
                    ELSE None]]
        /\ speaks = f.speaks
        /\ changes = MaxChanges - f.changes
  BY DEF FleetInit
<1>2. pins \in [Node -> [Node -> Pin \cup {None}]]
  <2>1. ASSUME NEW a \in Node, NEW b \in Node
        PROVE  [controller |-> <<a, b>> \in f.control, address |-> <<a, b>> \in f.placed] \in Pin
    BY DEF Pin
  <2>2. ASSUME NEW a \in Node
        PROVE  pins[a] \in [Node -> Pin \cup {None}]
    BY <1>1, <2>1
  <2> QED
    BY <1>1, <2>2
<1>3. changes \in 0..MaxChanges /\ speaks \in [Node -> Versions]
  BY <1>1, FleetAssumption
<1>4. /\ seen = [a \in Node |-> {}] /\ reports = [a \in Node |-> [b \in Node |-> None]]
      /\ claims = [a \in Node |-> {}] /\ poll = [a \in Node |-> None]
      /\ pinned = {p \in Node \X Node : pins[p[1]][p[2]] # None}
  BY DEF FleetInit
<1>5. FleetTypes
  BY <1>2, <1>3, <1>4 DEF FleetTypes
<1>6. PinsAreRemembered /\ OneHopOnly
  BY <1>4 DEF PinsAreRemembered, OneHopOnly
<1> QED
  BY <1>5, <1>6 DEF FleetInv

\* A change of the pin file that keeps memory of every pin made.
LEMMA PinningKeeps ==
  ASSUME FleetInv, FleetTypes', pinned \subseteq pinned', UNCHANGED poll,
         \A c, d \in Node : pins'[c][d] # None => pins[c][d] # None \/ <<c, d>> \in pinned',
         \A c \in Node : claims'[c] \subseteq claims[c]
  PROVE  FleetInv'
<1>1. PinsAreRemembered'
  <2>1. \A c, d \in Node : pins'[c][d] # None => <<c, d>> \in pinned'
    BY DEF FleetInv, PinsAreRemembered
  <2>2. ASSUME NEW c \in Node, poll[c] # None
        PROVE  /\ <<c, poll[c].peer>> \in pinned'
               /\ poll[c].digest # None =>
                    \A e \in poll[c].digest : <<poll[c].peer, e.node>> \in pinned'
    BY <2>2 DEF FleetInv, PinsAreRemembered
  <2> QED
    BY <2>1, <2>2 DEF PinsAreRemembered
<1>2. OneHopOnly'
  BY DEF FleetInv, OneHopOnly
<1> QED
  BY <1>1, <1>2 DEF FleetInv

LEMMA ChangeCounts ==
  ASSUME FleetTypes, Change
  PROVE  changes' \in 0..MaxChanges
BY FleetAssumption DEF FleetTypes, Change

LEMMA PinStepKeeps ==
  ASSUME FleetInv, NEW a \in Node, NEW b \in Node,
         AddPin(a, b) \/ Unpair(a, b) \/ RemovePin(a, b) \/ SetControl(a, b)
  PROVE  FleetInv'
<1>1. FleetTypes /\ changes' \in 0..MaxChanges /\ pins[a][b] \in Pin \cup {None}
  BY ChangeCounts DEF FleetInv, AddPin, Unpair, RemovePin, SetControl, FleetTypes
<1>2. PICK x \in Pin \cup {None} : pins' = [pins EXCEPT ![a][b] = x]
  <2>1. CASE AddPin(a, b)
    <3>1. PICK control \in BOOLEAN : pins' = [pins EXCEPT ![a][b] = [controller |-> control, address |-> TRUE]]
      BY <2>1 DEF AddPin
    <3>2. [controller |-> control, address |-> TRUE] \in Pin
      BY DEF Pin
    <3> QED
      BY <3>1, <3>2
  <2>2. CASE Unpair(a, b) \/ RemovePin(a, b)
    BY <2>2 DEF Unpair, RemovePin
  <2>3. CASE SetControl(a, b)
    <3>1. pins[a][b] \in Pin /\ pins \in [Node -> [Node -> Pin \cup {None}]]
      BY <1>1, <2>3 DEF SetControl, FleetTypes
    <3>2. [pins[a][b] EXCEPT !.controller = ~pins[a][b].controller] \in Pin
      BY <3>1 DEF Pin
    <3>3. pins' = [pins EXCEPT ![a][b] = [pins[a][b] EXCEPT !.controller = ~pins[a][b].controller]]
      BY <2>3, <3>1 DEF SetControl
    <3> QED
      BY <3>2, <3>3
  <2> QED
    BY <2>1, <2>2, <2>3
<1>3. /\ pins' \in [Node -> [Node -> Pin \cup {None}]] /\ pins'[a][b] = x
      /\ \A c, d \in Node : c # a \/ d # b => pins'[c][d] = pins[c][d]
  <2>1. pins \in [Node -> [Node -> Pin \cup {None}]]
    BY <1>1 DEF FleetTypes
  <2>2. pins'[a] = [pins[a] EXCEPT ![b] = x] /\ \A c \in Node : c # a => pins'[c] = pins[c]
    BY <1>2, <2>1
  <2>3. pins'[a] \in [Node -> Pin \cup {None}] /\ pins[a] \in [Node -> Pin \cup {None}]
    BY <1>2, <2>1, <2>2
  <2>4. pins' \in [Node -> [Node -> Pin \cup {None}]]
    BY <1>2, <2>1, <2>3
  <2>5. pins'[a][b] = x /\ \A d \in Node : d # b => pins'[a][d] = pins[a][d]
    BY <2>2, <2>3
  <2> QED
    BY <2>2, <2>4, <2>5
<1>4. /\ pinned' = pinned \cup {<<a, b>>} \/ (pinned' = pinned /\ pins[a][b] # None)
      /\ UNCHANGED <<seen, reports, poll, speaks>>
  BY DEF AddPin, Unpair, RemovePin, SetControl
<1>5. claims' \in [Node -> SUBSET Claim] /\ \A c \in Node : claims'[c] \subseteq claims[c]
  <2>1. UNCHANGED claims \/ claims' = [claims EXCEPT ![a] = {c \in claims[a] : c.via # b}]
    BY DEF AddPin, Unpair, RemovePin, SetControl
  <2> QED
    BY <1>1, <2>1 DEF FleetTypes
<1>6. FleetTypes'
  BY <1>1, <1>3, <1>4, <1>5 DEF FleetTypes
<1> QED
  BY <1>3, <1>4, <1>5, <1>6, PinningKeeps

\* Beacons, housekeeping and restarts learn nothing of anybody's pins.
LEMMA HouseStepKeeps ==
  ASSUME FleetInv, NEW a \in Node,
         Prune(a) \/ Restart(a) \/ \E b \in Node : Observe(a, b)
  PROVE  FleetInv'
<1>1. FleetTypes /\ changes' \in 0..MaxChanges
  BY ChangeCounts DEF FleetInv, Prune, Restart, Observe
<1>2. CASE Prune(a)
  <2>1. PICK gone \in SUBSET (seen[a] \ Pinned(a)), old \in SUBSET claims[a] :
          /\ seen' = [seen EXCEPT ![a] = seen[a] \ gone]
          /\ claims' = [claims EXCEPT ![a] = claims[a] \ old]
    BY <1>2 DEF Prune
  <2>2. UNCHANGED <<pins, reports, poll, speaks, pinned>>
    BY <1>2 DEF Prune
  <2>3. FleetTypes' /\ \A c \in Node : claims'[c] \subseteq claims[c]
    BY <1>1, <2>1, <2>2 DEF FleetTypes
  <2> QED
    BY <2>2, <2>3, PinningKeeps
<1>3. CASE \E b \in Node : Observe(a, b)
  <2>1. UNCHANGED <<pins, reports, claims, poll, speaks, pinned>>
    BY <1>3 DEF Observe
  <2>2. seen' \in [Node -> SUBSET Node]
    BY <1>1, <1>3 DEF Observe, FleetTypes
  <2>3. FleetTypes'
    BY <1>1, <2>1, <2>2 DEF FleetTypes
  <2> QED
    BY <2>1, <2>3, PinningKeeps
<1>4. CASE Restart(a)
  <2>1. /\ seen' = [seen EXCEPT ![a] = {}]
        /\ reports' = [reports EXCEPT ![a] = [b \in Node |-> None]]
        /\ claims' = [claims EXCEPT ![a] = {}]
        /\ poll' = [poll EXCEPT ![a] = None]
        /\ UNCHANGED <<pins, pinned>>
    BY <1>4 DEF Restart
  <2>2. speaks' \in [Node -> Versions]
    BY <1>1, <1>4 DEF Restart, FleetTypes
  <2>3. [b \in Node |-> None] \in [Node -> Versions \cup {None}]
    OBVIOUS
  <2>4. FleetTypes'
    BY <1>1, <2>1, <2>2, <2>3 DEF FleetTypes
  <2>5. /\ \A c \in Node : claims'[c] \subseteq claims[c]
        /\ \A c \in Node : poll'[c] = None \/ poll'[c] = poll[c]
    BY <1>1, <2>1 DEF FleetTypes
  <2>6. PinsAreRemembered'
    BY <2>1, <2>5 DEF FleetInv, PinsAreRemembered
  <2>7. OneHopOnly'
    BY <2>1, <2>5 DEF FleetInv, OneHopOnly
  <2> QED
    BY <2>4, <2>6, <2>7 DEF FleetInv
<1> QED
  BY <1>2, <1>3, <1>4

\* A peer speaks of its own pins, and only those.
LEMMA DigestsAreOfPins ==
  ASSUME FleetInv, NEW b \in Node, Digest(b) # None, NEW e \in Digest(b)
  PROVE  <<b, e.node>> \in pinned
<1>1. Digest(b) = {[node |-> n, reachable |-> reports[b][n] # None] : n \in Pinned(b)}
  BY DEF Digest
<1>2. PICK n \in Pinned(b) : e = [node |-> n, reachable |-> reports[b][n] # None]
  BY <1>1
<1>3. e.node = n /\ n \in Node /\ pins[b][n] # None
  BY <1>2 DEF Pinned
<1> QED
  BY <1>3 DEF FleetInv, PinsAreRemembered

LEMMA AskingKeeps ==
  ASSUME FleetInv, NEW a \in Node, NEW b \in Node, PollAnswered(a, b) \/ PollFailed(a, b)
  PROVE  FleetInv'
<1>1. /\ FleetTypes /\ changes' \in 0..MaxChanges
      /\ UNCHANGED <<pins, seen, reports, claims, speaks, pinned>>
      /\ <<a, b>> \in pinned
  BY ChangeCounts
     DEF FleetInv, PinsAreRemembered, PollAnswered, PollFailed, FleetTypes, Dialable, Pinned
<1>2. PICK p \in Poll :
        /\ poll' = [poll EXCEPT ![a] = p]
        /\ p.peer = b
        /\ p.digest # None => \A e \in p.digest : <<b, e.node>> \in pinned
  <2>1. CASE PollAnswered(a, b)
    <3> DEFINE p == Report(b, Introduction(b))
    <3>1. /\ Introduction(b) \in Hello /\ Introduction(b).vouched = Digest(b)
          /\ Introduction(b).version_max \in {None, speaks[b]}
          /\ (Introduction(b).version_max = None => speaks[b] < 2)
          /\ speaks[b] \in Versions
      <4>1. speaks[b] \in Versions /\ speaks[b] # None
        BY <1>1, FleetNoneIsFresh DEF FleetTypes
      <4>2. Introduction(b) \in Hello
        BY <1>1, IntroductionsAreHellos
      <4>3. Introduction(b).vouched = Digest(b)
        BY DEF Introduction
      <4>4. Introduction(b).version_max = IF speaks[b] < 2 THEN None ELSE speaks[b]
        BY DEF Introduction
      <4> QED
        BY <4>1, <4>2, <4>3, <4>4
    <3> DEFINE version == IF Introduction(b).version_max = None THEN 1 ELSE Introduction(b).version_max
    <3>2. version \in Versions
      <4>1. speaks[b] < 2 => speaks[b] = 1
        <5>1. Versions \subseteq {1, 2}
          BY FleetAssumption
        <5>2. speaks[b] = 1 \/ speaks[b] = 2
          BY <3>1, <5>1
        <5> QED
          BY <5>2
      <4> QED
        BY <3>1, <4>1
    <3>3. p = [peer |-> b, version |-> version, digest |-> Digest(b)]
      BY <3>1 DEF Report
    <3>4. Digest(b) \in (SUBSET [node : Node, reachable : BOOLEAN]) \cup {None}
      BY <3>1 DEF Hello
    <3> HIDE DEF version, p
    <3>5. p \in Poll /\ p.peer = b /\ p.digest = Digest(b)
      BY <3>2, <3>3, <3>4 DEF Poll
    <3>6. poll' = [poll EXCEPT ![a] = p]
      BY <2>1 DEF PollAnswered, p
    <3> QED
      BY <3>5, <3>6, DigestsAreOfPins
  <2>2. CASE PollFailed(a, b)
    <3>1. poll' = [poll EXCEPT ![a] = [peer |-> b, version |-> None, digest |-> None]]
      BY <2>2 DEF PollFailed
    <3>2. [peer |-> b, version |-> None, digest |-> None] \in Poll
      BY DEF Poll
    <3> QED
      BY <3>1, <3>2
  <2> QED
    BY <2>1, <2>2
<1>3. /\ poll' \in [Node -> Poll \cup {None}] /\ poll'[a] = p
      /\ \A c \in Node : c # a => poll'[c] = poll[c]
  BY <1>1, <1>2 DEF FleetTypes
<1>4. FleetTypes'
  BY <1>1, <1>3 DEF FleetTypes
<1>5. PinsAreRemembered'
  BY <1>1, <1>2, <1>3 DEF FleetInv, PinsAreRemembered
<1>6. OneHopOnly'
  BY <1>1 DEF FleetInv, OneHopOnly
<1> QED
  BY <1>4, <1>5, <1>6 DEF FleetInv

\* What is recorded of a peer is what it said: its pins, by the word of a machine
\* this one has pinned.
LEMMA RecordKeeps ==
  ASSUME FleetInv, NEW a \in Node, PollRecord(a)
  PROVE  FleetInv'
<1> DEFINE p == poll[a]
           b == poll[a].peer
<1>1. /\ FleetTypes /\ p \in Poll /\ b \in Node /\ p # None
      /\ p.version \in Versions \cup {None}
      /\ p.digest \in (SUBSET [node : Node, reachable : BOOLEAN]) \cup {None}
      /\ <<a, b>> \in pinned
      /\ p.digest # None => \A e \in p.digest : <<b, e.node>> \in pinned
  BY DEF FleetInv, PinsAreRemembered, PollRecord, FleetTypes, Poll
<1>2. /\ reports' = [reports EXCEPT ![a][b] = p.version]
      /\ claims' = IF p.digest = None THEN claims
                   ELSE [claims EXCEPT ![a] = Recorded(a, b, p.digest)]
      /\ pins' = IF p.version # None /\ pins[a][b] # None
                 THEN [pins EXCEPT ![a][b].address = TRUE] ELSE pins
      /\ poll' = [poll EXCEPT ![a] = None]
      /\ UNCHANGED <<seen, speaks, pinned, changes>>
  BY DEF PollRecord
<1> HIDE DEF p, b
<1>3. reports' \in [Node -> [Node -> Versions \cup {None}]]
  <2>1. reports[a] \in [Node -> Versions \cup {None}]
    BY <1>1 DEF FleetTypes
  <2>2. [reports[a] EXCEPT ![b] = p.version] \in [Node -> Versions \cup {None}]
    BY <1>1, <2>1
  <2> QED
    BY <1>1, <1>2, <2>2 DEF FleetTypes
<1>4. /\ pins' \in [Node -> [Node -> Pin \cup {None}]]
      /\ \A c, d \in Node : pins'[c][d] # None => pins[c][d] # None
  <2>1. CASE p.version # None /\ pins[a][b] # None
    <3>1. pins[a] \in [Node -> Pin \cup {None}] /\ pins[a][b] \in Pin
      BY <1>1, <2>1 DEF FleetTypes
    <3>2. [pins[a][b] EXCEPT !.address = TRUE] \in Pin
      BY <3>1 DEF Pin
    <3>3. /\ pins'[a] = [pins[a] EXCEPT ![b] = [pins[a][b] EXCEPT !.address = TRUE]]
          /\ \A c \in Node : c # a => pins'[c] = pins[c]
          /\ DOMAIN pins' = Node
      BY <1>1, <1>2, <2>1, <3>1 DEF FleetTypes
    <3>4. pins'[a] \in [Node -> Pin \cup {None}]
      BY <3>1, <3>2, <3>3
    <3>5. pins' \in [Node -> [Node -> Pin \cup {None}]]
      BY <1>1, <1>2, <2>1, <3>3, <3>4 DEF FleetTypes
    <3>6. \A d \in Node : d # b => pins'[a][d] = pins[a][d]
      BY <3>1, <3>3
    <3> QED
      BY <2>1, <3>3, <3>5, <3>6
  <2>2. CASE ~(p.version # None /\ pins[a][b] # None)
    BY <1>1, <1>2, <2>2 DEF FleetTypes
  <2> QED
    BY <2>1, <2>2
<1>5. /\ claims' \in [Node -> SUBSET Claim]
      /\ \A c \in Node : c # a => claims'[c] = claims[c]
      /\ \A k \in claims'[a] : k \in claims[a] \/ (k.via = b /\ <<b, k.node>> \in pinned)
  <2>1. CASE p.digest = None
    BY <1>1, <1>2, <2>1 DEF FleetTypes
  <2>2. CASE p.digest # None
    <3>1. ASSUME NEW k \in Recorded(a, b, p.digest)
          PROVE  k \in Claim /\ (k \in claims[a] \/ (k.via = b /\ <<b, k.node>> \in pinned))
      <4>1. CASE k \in claims[a]
        BY <1>1, <4>1 DEF FleetTypes
      <4>2. CASE k \notin claims[a]
        <5>1. PICK e \in p.digest : k = [via |-> b, node |-> e.node, reachable |-> e.reachable]
          BY <3>1, <4>2 DEF Recorded
        <5>2. e \in [node : Node, reachable : BOOLEAN]
          BY <1>1, <2>2, <5>1
        <5>3. k \in Claim /\ k.via = b /\ k.node = e.node
          BY <1>1, <5>1, <5>2 DEF Claim
        <5> QED
          BY <1>1, <2>2, <5>1, <5>3
      <4> QED
        BY <4>1, <4>2
    <3>2. claims' = [claims EXCEPT ![a] = Recorded(a, b, p.digest)]
      BY <1>2, <2>2
    <3>3. claims'[a] = Recorded(a, b, p.digest) /\ \A c \in Node : c # a => claims'[c] = claims[c]
      BY <1>1, <3>2 DEF FleetTypes
    <3>4. Recorded(a, b, p.digest) \in SUBSET Claim
      BY <3>1
    <3>5. claims' \in [Node -> SUBSET Claim]
      BY <1>1, <3>2, <3>4 DEF FleetTypes
    <3> QED
      BY <3>1, <3>3, <3>5
  <2> QED
    BY <2>1, <2>2
<1>6. /\ poll' \in [Node -> Poll \cup {None}] /\ poll'[a] = None
      /\ \A c \in Node : c # a => poll'[c] = poll[c]
  BY <1>1, <1>2 DEF FleetTypes
<1>7. FleetTypes'
  BY <1>1, <1>2, <1>3, <1>4, <1>5, <1>6 DEF FleetTypes
<1>8. PinsAreRemembered'
  BY <1>2, <1>4, <1>6 DEF FleetInv, PinsAreRemembered
<1>9. OneHopOnly'
  <2> SUFFICES ASSUME NEW c \in Node, NEW k \in claims'[c]
               PROVE  <<k.via, k.node>> \in pinned /\ <<c, k.via>> \in pinned
    BY <1>2 DEF OneHopOnly
  <2>1. CASE k \in claims[c]
    BY <2>1 DEF FleetInv, OneHopOnly
  <2>2. CASE k \notin claims[c]
    BY <1>1, <1>5, <2>2
  <2> QED
    BY <2>1, <2>2
<1> QED
  BY <1>7, <1>8, <1>9 DEF FleetInv

LEMMA FleetStepKeeps ==
  ASSUME FleetInv, FleetNext
  PROVE  FleetInv'
<1>1. PICK a \in Node :
        \/ Prune(a) \/ Restart(a) \/ PollRecord(a)
        \/ \E b \in Node : \/ Observe(a, b) \/ AddPin(a, b) \/ Unpair(a, b) \/ RemovePin(a, b)
                           \/ SetControl(a, b) \/ PollAnswered(a, b) \/ PollFailed(a, b)
  BY DEF FleetNext
<1>2. CASE Prune(a) \/ Restart(a) \/ \E b \in Node : Observe(a, b)
  BY <1>2, HouseStepKeeps
<1>3. CASE PollRecord(a)
  BY <1>3, RecordKeeps
<1>4. CASE \E b \in Node : AddPin(a, b) \/ Unpair(a, b) \/ RemovePin(a, b) \/ SetControl(a, b)
  BY <1>4, PinStepKeeps
<1>5. CASE \E b \in Node : PollAnswered(a, b) \/ PollFailed(a, b)
  BY <1>5, AskingKeeps
<1> QED
  BY <1>1, <1>2, <1>3, <1>4, <1>5

-----------------------------------------------------------------------------
(* A request on its way *)

RelayTypes ==
  /\ ask \in [Ask -> Request \cup {None}]
  /\ ran \in [Ask -> Nat]
  /\ during \in [Ask -> SUBSET (Node \X Node)]

\* The legs are taken one after the other; a relay is only asked when it is the
\* hop, and the target only by whoever dials it.
LegsInOrder(k) ==
  /\ k.at \in {"plan", "dial"} => k.relay = "idle" /\ k.there = "idle"
  /\ k.at = "plan" => k.via = None
  /\ k.via = None => k.relay = "idle"
  /\ k.via # None /\ k.there # "idle" => k.relay \in {"wait", "said"}

\* The target has carried it out once or not at all, and what anybody says of it
\* is what the target said, or that it was not heard.
SaysWhatWasDone(k, n) ==
  /\ k.there # "said" => n = 0
  /\ k.there = "said" => /\ k.said \in {"done", "failed_there", "control_refused"}
                         /\ n = IF k.said = "done" THEN 1 ELSE 0
  /\ k.relay = "said" => k.relayed = "relay_refused" \/ (k.there = "said" /\ k.relayed = k.said)
  /\ k.at = "answered" => \/ k.answer \in {"not_routable", "relay_refused"}
                          \/ k.there = "said" /\ k.answer = k.said
  /\ k.at # "answered" => k.answer = None

Sender(k) == IF k.via = None THEN k.origin ELSE k.via

\* Whoever passed it on had the sender's right when it looked.
RightsWereRead(k, n, rights) ==
  /\ k.via # None /\ (k.relay \in {"dial", "wait"} \/ k.there # "idle")
       => <<k.via, k.origin>> \in rights
  /\ k.there = "run" \/ n > 0 => <<k.target, Sender(k)>> \in rights

Sound(k, n, rights) ==
  LegsInOrder(k) /\ SaysWhatWasDone(k, n) /\ RightsWereRead(k, n, rights)

RequestsAreSound == \A q \in Ask :
  IF ask[q] = None THEN ran[q] = 0
  ELSE Sound(ask[q], ran[q], during[q]) /\ Granted \subseteq during[q]

RelayInv == FleetInv /\ RelayTypes /\ RequestsAreSound

\* A request moves alone; nothing else does.
LEMMA RequestMoves ==
  ASSUME RelayInv, NEW q \in Ask, ask[q] # None, Keep,
         ask' \in [Ask -> Request \cup {None}],
         \A p \in Ask : p # q => ask'[p] = ask[p],
         ask'[q] \in Request, Sound(ask'[q], ran[q], during[q])
  PROVE  RelayInv'
<1>1. UNCHANGED <<pins, seen, reports, claims, poll, speaks, pinned, changes, ran, during>>
  BY DEF Keep, fleetVars
<1>2. FleetInv'
  BY <1>1 DEF RelayInv, FleetInv, FleetTypes, PinsAreRemembered, OneHopOnly
<1>3. RelayTypes'
  BY <1>1 DEF RelayInv, RelayTypes
<1>4. Granted' = Granted
  BY <1>1 DEF Granted
<1>5. RequestsAreSound'
  <2> SUFFICES ASSUME NEW p \in Ask
               PROVE  IF ask'[p] = None THEN ran'[p] = 0
                      ELSE Sound(ask'[p], ran'[p], during'[p]) /\ Granted' \subseteq during'[p]
    BY DEF RequestsAreSound, Sound, LegsInOrder, SaysWhatWasDone, RightsWereRead, Sender
  <2>1. CASE p = q
    BY <1>1, <1>4, <2>1, RequestNoneIsFresh DEF RelayInv, RequestsAreSound
  <2>2. CASE p # q
    BY <1>1, <1>4, <2>2 DEF RelayInv, RequestsAreSound
  <2> QED
    BY <2>1, <2>2
<1> QED
  BY <1>2, <1>3, <1>5 DEF RelayInv

LEMMA SaysKeeps ==
  ASSUME RelayInv, NEW q \in Ask, ask[q] # None, NEW answer \in Answer, Says(q, answer), Keep,
         ask[q].at # "answered",
         \/ answer \in {"not_routable", "relay_refused"}
         \/ ask[q].there = "said" /\ answer = ask[q].said
  PROVE  RelayInv'
<1>1. /\ ask[q] \in Request /\ Sound(ask[q], ran[q], during[q]) /\ DOMAIN ask = Ask
      /\ ask \in [Ask -> Request \cup {None}]
  BY DEF RelayInv, RelayTypes, RequestsAreSound
<1>2. ask'[q] = [ask[q] EXCEPT !.at = "answered", !.answer = answer]
  BY <1>1 DEF Says
<1>3. /\ ask'[q] \in Request /\ ask'[q].at = "answered" /\ ask'[q].answer = answer
      /\ ask'[q].via = ask[q].via /\ ask'[q].relay = ask[q].relay
      /\ ask'[q].relayed = ask[q].relayed /\ ask'[q].there = ask[q].there
      /\ ask'[q].said = ask[q].said /\ ask'[q].origin = ask[q].origin
      /\ ask'[q].target = ask[q].target
  BY <1>1, <1>2 DEF Request
<1>4. /\ ask' \in [Ask -> Request \cup {None}]
      /\ \A p \in Ask : p # q => ask'[p] = ask[p]
  BY <1>1, <1>3 DEF Says
<1>5. Sound(ask'[q], ran[q], during[q])
  BY <1>1, <1>3 DEF Sound, LegsInOrder, SaysWhatWasDone, RightsWereRead, Sender
<1> QED
  BY <1>3, <1>4, <1>5, RequestMoves

LEMMA RelaysKeeps ==
  ASSUME RelayInv, NEW q \in Ask, ask[q] # None, NEW answer \in Answer, Relays(q, answer), Keep,
         ask[q].relay # "idle",
         answer = "relay_refused" \/ (ask[q].there = "said" /\ answer = ask[q].said)
  PROVE  RelayInv'
<1>1. /\ ask[q] \in Request /\ Sound(ask[q], ran[q], during[q]) /\ DOMAIN ask = Ask
      /\ ask \in [Ask -> Request \cup {None}]
  BY DEF RelayInv, RelayTypes, RequestsAreSound
<1>2. ask'[q] = [ask[q] EXCEPT !.relay = "said", !.relayed = answer]
  BY <1>1 DEF Relays
<1>3. /\ ask'[q] \in Request /\ ask'[q].relay = "said" /\ ask'[q].relayed = answer
      /\ ask'[q].via = ask[q].via /\ ask'[q].at = ask[q].at
      /\ ask'[q].answer = ask[q].answer /\ ask'[q].there = ask[q].there
      /\ ask'[q].said = ask[q].said /\ ask'[q].origin = ask[q].origin
      /\ ask'[q].target = ask[q].target
  BY <1>1, <1>2 DEF Request
<1>4. /\ ask' \in [Ask -> Request \cup {None}]
      /\ \A p \in Ask : p # q => ask'[p] = ask[p]
  BY <1>1, <1>3 DEF Relays
<1>5. Sound(ask'[q], ran[q], during[q])
  BY <1>1, <1>3 DEF Sound, LegsInOrder, SaysWhatWasDone, RightsWereRead, Sender
<1> QED
  BY <1>3, <1>4, <1>5, RequestMoves

\* The request stands where the step found it, and its record is sound.
LEMMA StandingIsSound ==
  ASSUME RelayInv, NEW q \in Ask, ask[q] # None
  PROVE  /\ ask[q] \in Request /\ Sound(ask[q], ran[q], during[q]) /\ DOMAIN ask = Ask
         /\ ask \in [Ask -> Request \cup {None}] /\ Granted \subseteq during[q]
         /\ ask[q].origin \in Node /\ ask[q].target \in Node
         /\ FleetTypes
BY DEF RelayInv, RelayTypes, RequestsAreSound, FleetInv, Request

LEMMA OriginKeeps ==
  ASSUME RelayInv, NEW q \in Ask,
         PlanRoute(q) \/ DialHop(q) \/ HopUnreachable(q) \/ Hears(q) \/ GivesUp(q)
  PROVE  RelayInv'
<1> DEFINE k == ask[q]
<1>1. k # None /\ Keep
  BY DEF PlanRoute, DialHop, HopUnreachable, Hears, GivesUp, Stands
<1>2. /\ k \in Request /\ Sound(k, ran[q], during[q]) /\ DOMAIN ask = Ask
      /\ ask \in [Ask -> Request \cup {None}] /\ Granted \subseteq during[q]
      /\ k.origin \in Node /\ k.target \in Node /\ FleetTypes
  BY <1>1, StandingIsSound
<1>3. "not_routable" \in Answer /\ "relay_refused" \in Answer
  BY DEF Answer
<1>4. ASSUME k.at # "answered", FirstLegFails(q)
      PROVE  RelayInv'
  BY <1>1, <1>3, <1>4, SaysKeeps DEF FirstLegFails
<1>5. CASE PlanRoute(q)
  <2> DEFINE hop == Hop(k.origin, k.target)
  <2>1. k.at = "plan"
    BY <1>5 DEF PlanRoute, Stands
  <2>2. CASE hop = None
    <3>1. Says(q, "not_routable")
      BY <1>5, <2>2 DEF PlanRoute
    <3> QED
      BY <1>1, <1>3, <2>1, <3>1, SaysKeeps
  <2>3. CASE hop # None
    <3> DEFINE via == IF hop = k.target THEN None ELSE hop
    <3>1. hop \in Node
      BY <1>2, <2>3, VouchersAreNodes DEF Hop
    <3>2. via \in Node \cup {None}
      BY <3>1
    <3>3. ask'[q] = [ask[q] EXCEPT !.at = "dial", !.via = via]
      BY <1>2, <1>5, <2>3 DEF PlanRoute
    <3>4. \A p \in Ask : p # q => ask'[p] = ask[p]
      BY <1>2, <1>5, <2>3 DEF PlanRoute
    <3> HIDE DEF via, hop
    <3>5. /\ ask'[q] \in Request /\ ask'[q].at = "dial"
          /\ ask'[q].relay = k.relay /\ ask'[q].there = k.there /\ ask'[q].said = k.said
          /\ ask'[q].relayed = k.relayed /\ ask'[q].answer = k.answer
      BY <1>2, <3>2, <3>3 DEF Request
    <3>6. ask' \in [Ask -> Request \cup {None}]
      BY <1>2, <1>5, <2>3, <3>5 DEF PlanRoute, hop
    <3>7. Sound(ask'[q], ran[q], during[q])
      BY <1>2, <2>1, <3>5 DEF Sound, LegsInOrder, SaysWhatWasDone, RightsWereRead
    <3> QED
      BY <1>1, <3>4, <3>5, <3>6, <3>7, RequestMoves
  <2> QED
    BY <2>2, <2>3
<1>6. CASE DialHop(q)
  <2> DEFINE hop == IF k.via = None THEN k.target ELSE k.via
  <2>1. k.at = "dial"
    BY <1>6 DEF DialHop, Stands
  <2>2. CASE ~(Reaches(k.origin, hop) /\ speaks[hop] >= 2)
    BY <1>4, <1>6, <2>1, <2>2 DEF DialHop
  <2>3. CASE Reaches(k.origin, hop) /\ speaks[hop] >= 2
    <3>1. ask' = IF k.via = None THEN [ask EXCEPT ![q].at = "wait", ![q].there = "check"]
                 ELSE [ask EXCEPT ![q].at = "wait", ![q].relay = "check"]
      BY <1>6, <2>3 DEF DialHop
    <3> HIDE DEF hop
    <3>2. CASE k.via = None
      <4>1. ask' = [ask EXCEPT ![q].at = "wait", ![q].there = "check"]
        BY <3>1, <3>2
      <4>2. ask'[q] = [ask[q] EXCEPT !.at = "wait", !.there = "check"]
        BY <1>2, <4>1
      <4>3. /\ ask'[q] \in Request /\ ask'[q].at = "wait" /\ ask'[q].there = "check"
            /\ ask'[q].relay = k.relay /\ ask'[q].via = k.via /\ ask'[q].relayed = k.relayed
            /\ ask'[q].answer = k.answer
        BY <1>2, <4>2 DEF Request
      <4>4. Sound(ask'[q], ran[q], during[q])
        BY <1>2, <2>1, <3>2, <4>3
           DEF Sound, LegsInOrder, SaysWhatWasDone, RightsWereRead
      <4>5. ask' \in [Ask -> Request \cup {None}] /\ \A p \in Ask : p # q => ask'[p] = ask[p]
        BY <1>2, <4>1, <4>3
      <4> QED
        BY <1>1, <4>3, <4>4, <4>5, RequestMoves
    <3>3. CASE k.via # None
      <4>1. ask' = [ask EXCEPT ![q].at = "wait", ![q].relay = "check"]
        BY <3>1, <3>3
      <4>2. ask'[q] = [ask[q] EXCEPT !.at = "wait", !.relay = "check"]
        BY <1>2, <4>1
      <4>3. /\ ask'[q] \in Request /\ ask'[q].at = "wait" /\ ask'[q].relay = "check"
            /\ ask'[q].there = k.there /\ ask'[q].via = k.via /\ ask'[q].relayed = k.relayed
            /\ ask'[q].answer = k.answer
        BY <1>2, <4>2 DEF Request
      <4>4. Sound(ask'[q], ran[q], during[q])
        BY <1>2, <2>1, <3>3, <4>3
           DEF Sound, LegsInOrder, SaysWhatWasDone, RightsWereRead
      <4>5. ask' \in [Ask -> Request \cup {None}] /\ \A p \in Ask : p # q => ask'[p] = ask[p]
        BY <1>2, <4>1, <4>3
      <4> QED
        BY <1>1, <4>3, <4>4, <4>5, RequestMoves
    <3> QED
      BY <3>2, <3>3
  <2> QED
    BY <2>2, <2>3
<1>7. CASE HopUnreachable(q)
  BY <1>4, <1>7 DEF HopUnreachable, Stands
<1>8. CASE GivesUp(q)
  BY <1>4, <1>8 DEF GivesUp, Stands
<1>9. CASE Hears(q)
  <2>1. k.at = "wait"
    BY <1>9 DEF Hears, Stands
  <2>2. CASE k.via = None /\ k.there = "said" /\ Says(q, k.said)
    <3>1. k.said \in Answer
      BY <1>2, <2>2 DEF Sound, SaysWhatWasDone, Answer
    <3> QED
      BY <1>1, <2>1, <2>2, <3>1, SaysKeeps
  <2>3. CASE k.via # None /\ k.relay = "said" /\ Says(q, k.relayed)
    <3>1. k.relayed = "relay_refused" \/ (k.there = "said" /\ k.relayed = k.said)
      BY <1>2, <2>3 DEF Sound, SaysWhatWasDone
    <3>2. k.relayed \in Answer
      BY <1>2, <3>1 DEF Sound, SaysWhatWasDone, Answer
    <3> QED
      BY <1>1, <2>1, <2>3, <3>1, <3>2, SaysKeeps
  <2> QED
    BY <1>9, <2>2, <2>3 DEF Hears
<1> QED
  BY <1>5, <1>6, <1>7, <1>8, <1>9

LEMMA RelayKeeps ==
  ASSUME RelayInv, NEW q \in Ask,
         RelayChecks(q) \/ RelayDials(q) \/ RelayHears(q) \/ RelayGivesUp(q)
  PROVE  RelayInv'
<1> DEFINE k == ask[q]
<1>1. k # None /\ Keep
  BY DEF RelayChecks, RelayDials, RelayHears, RelayGivesUp, Stands
<1>2. /\ k \in Request /\ Sound(k, ran[q], during[q]) /\ DOMAIN ask = Ask
      /\ ask \in [Ask -> Request \cup {None}] /\ Granted \subseteq during[q]
  BY <1>1, StandingIsSound
<1>3. k.relay # "idle" /\ k.via # None
  BY <1>2 DEF RelayChecks, RelayDials, RelayHears, RelayGivesUp, Stands, Sound, LegsInOrder
<1>4. ASSUME Relays(q, "relay_refused")
      PROVE  RelayInv'
  <2>1. "relay_refused" \in Answer
    BY DEF Answer
  <2> QED
    BY <1>1, <1>3, <1>4, <2>1, RelaysKeeps
<1>5. CASE RelayChecks(q)
  <2>1. CASE /\ <<k.via, k.origin>> \in Granted
             /\ pins[k.via][k.target] # None
             /\ HasAddress(k.via, k.target)
    <3>1. ask' = [ask EXCEPT ![q].relay = "dial"] /\ k.relay = "check"
      BY <1>5, <2>1 DEF RelayChecks, Stands
    <3>2. ask'[q] = [ask[q] EXCEPT !.relay = "dial"]
      BY <1>2, <3>1
    <3>3. /\ ask'[q] \in Request /\ ask'[q].relay = "dial" /\ ask'[q].at = k.at
          /\ ask'[q].there = k.there /\ ask'[q].via = k.via /\ ask'[q].said = k.said
          /\ ask'[q].answer = k.answer /\ ask'[q].origin = k.origin /\ ask'[q].target = k.target
      BY <1>2, <3>2 DEF Request
    <3>4. Sound(ask'[q], ran[q], during[q])
      BY <1>2, <1>3, <2>1, <3>1, <3>3
         DEF Sound, LegsInOrder, SaysWhatWasDone, RightsWereRead, Sender
    <3>5. ask' \in [Ask -> Request \cup {None}] /\ \A p \in Ask : p # q => ask'[p] = ask[p]
      BY <1>2, <3>1, <3>3
    <3> QED
      BY <1>1, <3>3, <3>4, <3>5, RequestMoves
  <2>2. CASE ~ /\ <<k.via, k.origin>> \in Granted
               /\ pins[k.via][k.target] # None
               /\ HasAddress(k.via, k.target)
    BY <1>4, <1>5, <2>2 DEF RelayChecks
  <2> QED
    BY <2>1, <2>2
<1>6. CASE RelayDials(q)
  <2>1. CASE Reaches(k.via, k.target) /\ speaks[k.target] >= 2
    <3>1. ask' = [ask EXCEPT ![q].relay = "wait", ![q].there = "check"] /\ k.relay = "dial"
      BY <1>6, <2>1 DEF RelayDials, Stands
    <3>2. ask'[q] = [ask[q] EXCEPT !.relay = "wait", !.there = "check"]
      BY <1>2, <3>1
    <3>3. /\ ask'[q] \in Request /\ ask'[q].relay = "wait" /\ ask'[q].there = "check"
          /\ ask'[q].at = k.at /\ ask'[q].via = k.via /\ ask'[q].answer = k.answer
          /\ ask'[q].origin = k.origin /\ ask'[q].target = k.target
      BY <1>2, <3>2 DEF Request
    <3>4. Sound(ask'[q], ran[q], during[q])
      BY <1>2, <1>3, <3>1, <3>3
         DEF Sound, LegsInOrder, SaysWhatWasDone, RightsWereRead, Sender
    <3>5. ask' \in [Ask -> Request \cup {None}] /\ \A p \in Ask : p # q => ask'[p] = ask[p]
      BY <1>2, <3>1, <3>3
    <3> QED
      BY <1>1, <3>3, <3>4, <3>5, RequestMoves
  <2>2. CASE ~(Reaches(k.via, k.target) /\ speaks[k.target] >= 2)
    BY <1>4, <1>6, <2>2 DEF RelayDials
  <2> QED
    BY <2>1, <2>2
<1>7. CASE RelayHears(q)
  <2>1. k.there = "said" /\ Relays(q, k.said)
    BY <1>7 DEF RelayHears
  <2>2. k.said \in Answer
    BY <1>2, <2>1 DEF Sound, SaysWhatWasDone, Answer
  <2> QED
    BY <1>1, <1>3, <2>1, <2>2, RelaysKeeps
<1>8. CASE RelayGivesUp(q)
  BY <1>4, <1>8 DEF RelayGivesUp
<1> QED
  BY <1>5, <1>6, <1>7, <1>8

LEMMA TargetChecksKeeps ==
  ASSUME RelayInv, NEW q \in Ask, TargetChecks(q)
  PROVE  RelayInv'
<1> DEFINE k == ask[q]
<1>1. k # None /\ Keep /\ k.there = "check"
  BY DEF TargetChecks, Stands
<1>2. /\ k \in Request /\ Sound(k, ran[q], during[q]) /\ DOMAIN ask = Ask
      /\ ask \in [Ask -> Request \cup {None}] /\ Granted \subseteq during[q]
  BY <1>1, StandingIsSound
<1>3. CASE <<k.target, Sender(k)>> \in Granted
  <2>1. ask' = [ask EXCEPT ![q].there = "run"]
    BY <1>3 DEF TargetChecks, Sender
  <2>2. ask'[q] = [ask[q] EXCEPT !.there = "run"]
    BY <1>2, <2>1
  <2>3. /\ ask'[q] \in Request /\ ask'[q].there = "run" /\ ask'[q].at = k.at
        /\ ask'[q].via = k.via /\ ask'[q].relay = k.relay /\ ask'[q].relayed = k.relayed
        /\ ask'[q].answer = k.answer /\ ask'[q].origin = k.origin /\ ask'[q].target = k.target
    BY <1>2, <2>2 DEF Request
  <2>4. Sound(ask'[q], ran[q], during[q])
    BY <1>1, <1>2, <1>3, <2>3
       DEF Sound, LegsInOrder, SaysWhatWasDone, RightsWereRead, Sender
  <2>5. ask' \in [Ask -> Request \cup {None}] /\ \A p \in Ask : p # q => ask'[p] = ask[p]
    BY <1>2, <2>1, <2>3
  <2> QED
    BY <1>1, <2>3, <2>4, <2>5, RequestMoves
<1>4. CASE <<k.target, Sender(k)>> \notin Granted
  <2>1. ask' = [ask EXCEPT ![q].there = "said", ![q].said = "control_refused"]
    BY <1>4 DEF TargetChecks, Sender
  <2>2. ask'[q] = [ask[q] EXCEPT !.there = "said", !.said = "control_refused"]
    BY <1>2, <2>1
  <2>3. /\ ask'[q] \in Request /\ ask'[q].there = "said" /\ ask'[q].said = "control_refused"
        /\ ask'[q].at = k.at /\ ask'[q].via = k.via /\ ask'[q].relay = k.relay
        /\ ask'[q].relayed = k.relayed /\ ask'[q].answer = k.answer
        /\ ask'[q].origin = k.origin /\ ask'[q].target = k.target
    BY <1>2, <2>2 DEF Request, Answer
  <2>4. Sound(ask'[q], ran[q], during[q])
    BY <1>1, <1>2, <2>3
       DEF Sound, LegsInOrder, SaysWhatWasDone, RightsWereRead, Sender
  <2>5. ask' \in [Ask -> Request \cup {None}] /\ \A p \in Ask : p # q => ask'[p] = ask[p]
    BY <1>2, <2>1, <2>3
  <2> QED
    BY <1>1, <2>3, <2>4, <2>5, RequestMoves
<1> QED
  BY <1>3, <1>4

LEMMA TargetRunsKeeps ==
  ASSUME RelayInv, NEW q \in Ask, TargetRuns(q)
  PROVE  RelayInv'
<1> DEFINE k == ask[q]
<1>1. k # None /\ k.there = "run" /\ UNCHANGED <<fleetVars, during>>
  BY DEF TargetRuns, Stands
<1>2. /\ k \in Request /\ Sound(k, ran[q], during[q]) /\ DOMAIN ask = Ask
      /\ ask \in [Ask -> Request \cup {None}] /\ Granted \subseteq during[q]
      /\ ran \in [Ask -> Nat] /\ ran[q] = 0
  BY <1>1, StandingIsSound DEF RelayInv, RelayTypes, Sound, SaysWhatWasDone
<1>3. PICK said \in {"done", "failed_there"} :
        /\ ask' = [ask EXCEPT ![q].there = "said", ![q].said = said]
        /\ \/ said = "done" /\ ran' = [ran EXCEPT ![q] = @ + 1]
           \/ said = "failed_there" /\ UNCHANGED ran
  BY DEF TargetRuns
<1>4. /\ ran' \in [Ask -> Nat] /\ ran'[q] = IF said = "done" THEN 1 ELSE 0
      /\ \A p \in Ask : p # q => ran'[p] = ran[p]
  BY <1>2, <1>3
<1>5. ask'[q] = [ask[q] EXCEPT !.there = "said", !.said = said]
  BY <1>2, <1>3
<1>6. /\ ask'[q] \in Request /\ ask'[q].there = "said" /\ ask'[q].said = said
      /\ ask'[q].at = k.at /\ ask'[q].via = k.via /\ ask'[q].relay = k.relay
      /\ ask'[q].relayed = k.relayed /\ ask'[q].answer = k.answer
      /\ ask'[q].origin = k.origin /\ ask'[q].target = k.target
  BY <1>2, <1>5 DEF Request, Answer
<1>7. ask' \in [Ask -> Request \cup {None}] /\ \A p \in Ask : p # q => ask'[p] = ask[p]
  BY <1>2, <1>3, <1>6
<1>8. Sound(ask'[q], ran'[q], during[q])
  BY <1>1, <1>2, <1>4, <1>6
     DEF Sound, LegsInOrder, SaysWhatWasDone, RightsWereRead, Sender
<1>9. UNCHANGED <<pins, seen, reports, claims, poll, speaks, pinned, changes, during>>
  BY <1>1 DEF fleetVars
<1>10. FleetInv' /\ Granted' = Granted
  BY <1>9 DEF RelayInv, FleetInv, FleetTypes, PinsAreRemembered, OneHopOnly, Granted
<1>11. RelayTypes'
  BY <1>4, <1>7, <1>9 DEF RelayInv, RelayTypes
<1>12. RequestsAreSound'
  <2> SUFFICES ASSUME NEW p \in Ask
               PROVE  IF ask'[p] = None THEN ran'[p] = 0
                      ELSE Sound(ask'[p], ran'[p], during'[p]) /\ Granted' \subseteq during'[p]
    BY DEF RequestsAreSound, Sound, LegsInOrder, SaysWhatWasDone, RightsWereRead, Sender
  <2>1. CASE p = q
    BY <1>2, <1>6, <1>8, <1>9, <1>10, <2>1, RequestNoneIsFresh
  <2>2. CASE p # q
    BY <1>4, <1>7, <1>9, <1>10, <2>2 DEF RelayInv, RequestsAreSound
  <2> QED
    BY <2>1, <2>2
<1> QED
  BY <1>10, <1>11, <1>12 DEF RelayInv

LEMMA AsksKeeps ==
  ASSUME RelayInv, NEW q \in Ask, NEW a \in Askers, NEW t \in Targets, Asks(q, a, t)
  PROVE  RelayInv'
<1> DEFINE k == [origin |-> a, target |-> t, via |-> None, at |-> "plan", answer |-> None,
                 relay |-> "idle", relayed |-> None, there |-> "idle", said |-> None]
<1>1. /\ ask[q] = None /\ ask' = [ask EXCEPT ![q] = k]
      /\ during' = [during EXCEPT ![q] = Granted] /\ UNCHANGED <<fleetVars, ran>>
      /\ ask \in [Ask -> Request \cup {None}] /\ during \in [Ask -> SUBSET (Node \X Node)]
  BY DEF Asks, RelayInv, RelayTypes
<1>2. k \in Request /\ a \in Node /\ t \in Node
  BY RelayAssumption DEF Request
<1>3. ran[q] = 0
  BY <1>1 DEF RelayInv, RequestsAreSound
<1>4. Sound(k, ran[q], Granted)
  BY <1>3 DEF Sound, LegsInOrder, SaysWhatWasDone, RightsWereRead
<1> HIDE DEF k
<1>5. /\ ask' \in [Ask -> Request \cup {None}] /\ ask'[q] = k
      /\ \A p \in Ask : p # q => ask'[p] = ask[p]
  BY <1>1, <1>2
<1>6. Granted \in SUBSET (Node \X Node)
  BY DEF Granted
<1>7. /\ during' \in [Ask -> SUBSET (Node \X Node)] /\ during'[q] = Granted
      /\ \A p \in Ask : p # q => during'[p] = during[p]
  BY <1>1, <1>6
<1>8. UNCHANGED <<pins, seen, reports, claims, poll, speaks, pinned, changes, ran>>
  BY <1>1 DEF fleetVars
<1>9. FleetInv' /\ Granted' = Granted
  BY <1>8 DEF RelayInv, FleetInv, FleetTypes, PinsAreRemembered, OneHopOnly, Granted
<1>10. RelayTypes'
  BY <1>5, <1>7, <1>8 DEF RelayInv, RelayTypes
<1>11. RequestsAreSound'
  <2> SUFFICES ASSUME NEW p \in Ask
               PROVE  IF ask'[p] = None THEN ran'[p] = 0
                      ELSE Sound(ask'[p], ran'[p], during'[p]) /\ Granted' \subseteq during'[p]
    BY DEF RequestsAreSound, Sound, LegsInOrder, SaysWhatWasDone, RightsWereRead, Sender
  <2>1. CASE p = q
    BY <1>2, <1>4, <1>5, <1>7, <1>8, <1>9, <2>1, RequestNoneIsFresh
  <2>2. CASE p # q
    BY <1>5, <1>7, <1>8, <1>9, <2>2 DEF RelayInv, RequestsAreSound
  <2> QED
    BY <2>1, <2>2
<1> QED
  BY <1>9, <1>10, <1>11 DEF RelayInv

\* Rights come and go under a request; those given meanwhile are remembered.
LEMMA FleetMovesKeep ==
  ASSUME RelayInv, FleetStep
  PROVE  RelayInv'
<1>1. FleetInv' /\ UNCHANGED <<ask, ran>>
  BY FleetStepKeeps DEF RelayInv, FleetStep
<1>2. during' = [q \in Ask |-> IF ask[q] = None THEN {} ELSE during[q] \cup Granted']
  BY DEF FleetStep
<1>3. Granted' \in SUBSET (Node \X Node) /\ during \in [Ask -> SUBSET (Node \X Node)]
  BY DEF Granted, RelayInv, RelayTypes
<1>4. ASSUME NEW q \in Ask
      PROVE  /\ during'[q] \in SUBSET (Node \X Node)
             /\ ask[q] # None => during[q] \subseteq during'[q] /\ Granted' \subseteq during'[q]
  BY <1>2, <1>3
<1>5. RelayTypes'
  BY <1>1, <1>2, <1>4 DEF RelayInv, RelayTypes
<1>6. RequestsAreSound'
  <2> SUFFICES ASSUME NEW p \in Ask
               PROVE  IF ask'[p] = None THEN ran'[p] = 0
                      ELSE Sound(ask'[p], ran'[p], during'[p]) /\ Granted' \subseteq during'[p]
    BY DEF RequestsAreSound, Sound, LegsInOrder, SaysWhatWasDone, RightsWereRead, Sender
  <2>1. CASE ask[p] = None
    BY <1>1, <2>1 DEF RelayInv, RequestsAreSound
  <2>2. CASE ask[p] # None
    <3>1. Sound(ask[p], ran[p], during[p])
      BY <2>2 DEF RelayInv, RequestsAreSound
    <3>2. Sound(ask[p], ran[p], during'[p])
      BY <1>4, <2>2, <3>1 DEF Sound, RightsWereRead
    <3> QED
      BY <1>1, <1>4, <2>2, <3>2
  <2> QED
    BY <2>1, <2>2
<1> QED
  BY <1>1, <1>5, <1>6 DEF RelayInv

LEMMA RelayInvariant == Spec => []RelayInv
<1>1. Init => RelayInv
  <2> SUFFICES ASSUME Init PROVE RelayInv
    OBVIOUS
  <2>1. FleetInv
    BY InitFleetInv DEF Init
  <2>2. RelayTypes /\ RequestsAreSound
    BY DEF Init, RelayTypes, RequestsAreSound
  <2> QED
    BY <2>1, <2>2 DEF RelayInv
<1>2. RelayInv /\ [Next]_vars => RelayInv'
  <2> SUFFICES ASSUME RelayInv, [Next]_vars PROVE RelayInv'
    OBVIOUS
  <2>1. CASE FleetStep
    BY <2>1, FleetMovesKeep
  <2>2. ASSUME NEW q \in Ask, NEW a \in Askers, NEW t \in Targets, Asks(q, a, t)
        PROVE  RelayInv'
    BY <2>2, AsksKeeps
  <2>3. ASSUME NEW q \in Ask,
               PlanRoute(q) \/ DialHop(q) \/ HopUnreachable(q) \/ Hears(q) \/ GivesUp(q)
        PROVE  RelayInv'
    BY <2>3, OriginKeeps
  <2>4. ASSUME NEW q \in Ask, RelayChecks(q) \/ RelayDials(q) \/ RelayHears(q) \/ RelayGivesUp(q)
        PROVE  RelayInv'
    BY <2>4, RelayKeeps
  <2>5. ASSUME NEW q \in Ask, TargetChecks(q) \/ TargetRuns(q)
        PROVE  RelayInv'
    BY <2>5, TargetChecksKeeps, TargetRunsKeeps
  <2>6. CASE UNCHANGED vars
    <3>1. UNCHANGED <<pins, seen, reports, claims, poll, speaks, pinned, changes, ask, ran, during>>
      BY <2>6 DEF vars, fleetVars
    <3>2. FleetInv' /\ RelayTypes' /\ Granted' = Granted
      BY <3>1 DEF RelayInv, FleetInv, FleetTypes, PinsAreRemembered, OneHopOnly, Granted, RelayTypes
    <3>3. RequestsAreSound'
      BY <3>1, <3>2 DEF RelayInv, RequestsAreSound, Sound, LegsInOrder, SaysWhatWasDone,
                        RightsWereRead, Sender
    <3> QED
      BY <3>2, <3>3 DEF RelayInv
  <2> QED
    BY <2>1, <2>2, <2>3, <2>4, <2>5, <2>6 DEF Next
<1> QED
  BY <1>1, <1>2, PTL DEF Spec

-----------------------------------------------------------------------------
(* What it comes to *)

\* Type correctness of the fleet and of the requests; every row of every listing
\* and every introduction is one the protocol has.
THEOREM RelayIsTyped == Spec => []TypeOK
<1>1. RelayInv => TypeOK
  BY RowsAreDescriptors, IntroductionsAreHellos
     DEF RelayInv, RelayTypes, FleetInv, FleetTypes, FleetTypeOK, TypeOK
<1> QED
  BY <1>1, RelayInvariant, PTL

\* link.rs: "one-hop knowledge is the structural rule that stops gossip
\* flooding": whatever an agent was told was told by a machine it had pinned, of
\* a machine that one had pinned.
THEOREM GossipTravelsOneHop == Spec => []OneHopOnly
<1>1. RelayInv => OneHopOnly
  BY DEF RelayInv, FleetInv
<1> QED
  BY <1>1, RelayInvariant, PTL

\* The listing and the router never disagree about where a request would go
\* (vouched.rs, listing.rs, routing.rs).
THEOREM ListingsTellTheRoute == Spec => []ListingTellsTheRoute
<1>1. RelayInv => ListingTellsTheRoute
  BY RoutesAreListed DEF RelayInv, FleetInv
<1> QED
  BY <1>1, RelayInvariant, PTL

\* peer_serve.rs: no request is carried out without the right of everyone on the
\* way, held at some moment since it was made.
THEOREM RightsAreHeld == Spec => []RightsHeldWhileAsked
<1>1. RelayInv => RightsHeldWhileAsked
  <2> SUFFICES ASSUME RelayInv, NEW q \in Ask, ran[q] > 0
               PROVE  IF ask[q].via = None THEN <<ask[q].target, ask[q].origin>> \in during[q]
                      ELSE {<<ask[q].via, ask[q].origin>>, <<ask[q].target, ask[q].via>>} \subseteq during[q]
    BY DEF RightsHeldWhileAsked
  <2>1. ask[q] # None /\ Sound(ask[q], ran[q], during[q])
    BY DEF RelayInv, RequestsAreSound
  <2>2. ask[q].there = "said"
    BY <2>1 DEF Sound, SaysWhatWasDone
  <2> QED
    BY <2>1, <2>2 DEF Sound, RightsWereRead, Sender
<1> QED
  BY <1>1, RelayInvariant, PTL

\* control.rs: a request is carried out at most once, and what is answered about
\* it is true.
THEOREM AnswersAreTrue == Spec => []AnswerTellsTheTruth
<1>1. RelayInv => AnswerTellsTheTruth
  <2> SUFFICES ASSUME RelayInv, NEW q \in Ask
               PROVE  /\ ran[q] <= 1
                      /\ Stands(q, "answer", "done") => ran[q] = 1
                      /\ ask[q] # None /\ ask[q].answer \in {"control_refused", "failed_there"}
                           => ran[q] = 0
    BY DEF AnswerTellsTheTruth
  <2>1. CASE ask[q] = None
    BY <2>1 DEF RelayInv, RequestsAreSound, Stands
  <2>2. CASE ask[q] # None
    <3>1. SaysWhatWasDone(ask[q], ran[q])
      BY <2>2 DEF RelayInv, RequestsAreSound, Sound
    <3>2. None \notin Answer
      BY RequestNoneIsFresh
    <3> QED
      BY <2>2, <3>1, <3>2 DEF SaysWhatWasDone, Stands, Answer
  <2> QED
    BY <2>1, <2>2
<1> QED
  BY <1>1, RelayInvariant, PTL
=============================================================================
