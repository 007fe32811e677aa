----------------------------- MODULE ClusterPlan -----------------------------
(***************************************************************************)
(* Planning a cluster: which machine takes which rank, the address they    *)
(* meet at, the link that decides how fast they are, and the address each  *)
(* is dialled on (the agent's cluster.rs, rendezvous.rs and                *)
(* clusterdriver/plan.rs), as a preview of the page walks through it.      *)
(*                                                                         *)
(* A machine's addresses are a sequence of [addr, prefix, class, speed,    *)
(* iface].  An address has AddrBits bits where an IPv4 address has 32; the *)
(* arithmetic of its network is that of the code.                          *)
(***************************************************************************)
EXTENDS LaunchCommand

CONSTANTS
  AddrBits,  \* the width of an address
  Nodes,     \* machines, numbered in the order of their ids
  Self,      \* the machine the agent runs on
  Listings,  \* what the fleet view may say: [Nodes -> descriptor]
  Selections \* what the page may ask for: [recipe, nodes, head, settings]

ASSUME PlanAssumption ==
  /\ AddrBits \in Nat \ {0}
  /\ Nodes \subseteq Nat /\ Self \in Nodes
  /\ \A l \in Listings : DOMAIN l \subseteq Nodes
  /\ \A l \in Listings : \A n \in DOMAIN l : DOMAIN l[n].addresses \subseteq Nat
  /\ \A sel \in Selections : sel.nodes \in Seq(Nat)

VARIABLES
  fleet,    \* what the fleet view lists now
  preview   \* the page's preview: what was asked and how far it is

planVars == <<fleet, preview>>

(***************************************************************************)
(* Links.                                                                  *)
(***************************************************************************)
LinkRank(class) ==
  CASE class = "InfiniBand" -> 5
    [] class = "Roce"       -> 4
    [] class = "Ethernet"   -> 3
    [] class = "Wireless"   -> 2
    [] class = "Unverified" -> 1
    [] class \in {"Virtual", "Loopback"} -> 0
UsableForCluster(class) ==
  class \in {"InfiniBand", "Roce", "Ethernet", "Unverified"}
Warns(class) == class \notin {"InfiniBand", "Roce", "Unverified"}

SameNetwork(a, b, prefix) ==
  /\ prefix \in 1..AddrBits
  /\ LET size == 2 ^ (AddrBits - prefix) IN a \div size = b \div size
OnLocalSubnet(target, local) ==
  \E i \in DOMAIN local :
     SameNetwork(local[i].addr, target, local[i].prefix)

\* The best of some of a machine's addresses: by class, then by speed, and
\* of equals the last.  As a set: none when there is none to choose from.
Beats(a, b) ==
  \/ LinkRank(a.class) > LinkRank(b.class)
  \/ LinkRank(a.class) = LinkRank(b.class) /\ a.speed > b.speed
Best(addresses, eligible) ==
  {addresses[i] : i \in
     {j \in eligible : \A k \in eligible :
        /\ ~Beats(addresses[k], addresses[j])
        /\ k > j => Beats(addresses[j], addresses[k])}}

Usable(addresses) ==
  {i \in DOMAIN addresses : UsableForCluster(addresses[i].class)}
PreferredAddress(node) == Best(node.addresses, Usable(node.addresses))

\* Where to dial a machine: on a subnet of ours if it has an address there.
BestReachable(candidates, local) ==
  LET near == {i \in Usable(candidates) :
                 OnLocalSubnet(candidates[i].addr, local)}
  IN  Best(candidates, IF near # {} THEN near ELSE Usable(candidates))

(***************************************************************************)
(* The plan for a selection, given what the fleet view lists.              *)
(***************************************************************************)
Picked(sel) == {sel.nodes[i] : i \in DOMAIN sel.nodes}

\* Every worker has an address on the network of this one of the head's.
ReachesAll(candidate, workers, listing) ==
  \A w \in workers :
     \E i \in Usable(listing[w].addresses) :
        SameNetwork(candidate.addr, listing[w].addresses[i].addr,
                    candidate.prefix)

RendezvousPreferred(sel, listing) == PreferredAddress(listing[sel.head])
RendezvousAddress(sel, listing) ==
  LET mine   == listing[sel.head].addresses
      shared == {i \in Usable(mine) :
                   /\ mine[i].prefix > 0
                   /\ ReachesAll(mine[i], Picked(sel) \ {sel.head}, listing)}
  IN  IF shared # {} THEN Best(mine, shared)
      ELSE PreferredAddress(listing[sel.head])

\* The slowest of the machines' best links.
WorstLink(sel, listing) ==
  LET links == UNION {{a.class : a \in PreferredAddress(listing[n])} :
                        n \in Picked(sel)}
  IN  IF links = {} THEN "Ethernet"
      ELSE CHOOSE c \in links : \A d \in links : LinkRank(c) <= LinkRank(d)

\* Every machine asked for is listed, once, may run models and is paired.
Selectable(sel, listing) ==
  /\ Picked(sel) \subseteq DOMAIN listing
  /\ Cardinality(Picked(sel)) = Len(sel.nodes)
  /\ \A n \in Picked(sel) :
        /\ listing[n].pairing = "paired" \/ n = Self
        /\ listing[n].can_launch
  /\ sel.head \in Picked(sel)
  /\ RendezvousAddress(sel, listing) # {}

\* The head is rank 0, the others follow in the order of their ids.
RankIn(sel, n) ==
  IF n = sel.head THEN 0
  ELSE Cardinality({m \in Picked(sel) \ {sel.head} : m <= n})

\* The head's own recipe of that name, as the others must ship it.
HashOf(name) ==
  {ContentHash(r) : r \in Resolve([form |-> "bare", name |-> name])}

Assignments(sel, listing) ==
  {[node |-> n, rank |-> RankIn(sel, n), world_size |-> Len(sel.nodes),
    master |-> CHOOSE a \in RendezvousAddress(sel, listing) : TRUE,
    recipe |-> sel.recipe, settings |-> sel.settings,
    recipe_hash |-> CHOOSE h \in HashOf(sel.recipe) : TRUE] :
     n \in Picked(sel)}

\* The address each of the others is dialled on.
DialAddress(n, listing) ==
  BestReachable(listing[n].addresses, listing[Self].addresses)
Dialable(sel, listing) ==
  \A n \in Picked(sel) \ {Self} : DialAddress(n, listing) # {}

(***************************************************************************)
(* A rank's own rendering of its assignment, on its own machine, from the  *)
(* recipe that machine ships.                                              *)
(***************************************************************************)
CollectiveBinding(node, master) ==
  LET on == {i \in DOMAIN node.addresses :
               /\ node.addresses[i].prefix > 0 /\ node.addresses[i].iface # ""
               /\ SameNetwork(node.addresses[i].addr, master.addr,
                              node.addresses[i].prefix)}
  IN  IF on = {} THEN <<>>
      ELSE LET first == node.addresses[CHOOSE i \in on : \A j \in on : i <= j]
           IN  BindInterface(first.iface, first.rdma)

Placed(a) == RankOf(a.rank, a.world_size, a.master.addr)

\* Why a rank will not render: it ships another recipe under that name, it
\* will not take those settings, or they make no command.
PlanForRefusals(a, node) ==
  IF a.recipe \notin DOMAIN node.ships THEN {"unknown_recipe"}
  ELSE LET recipe == Parse(a.recipe, node.ships[a.recipe]) IN
       IF ContentHash(recipe) # a.recipe_hash THEN {"recipe_mismatch"}
       ELSE IF Problems(a.settings) # {} THEN {"settings"}
       ELSE TranslateErrors(recipe, Validated(a.settings), Placed(a))

PlanFor(a, node) ==
  LET command == Translate(Parse(a.recipe, node.ships[a.recipe]),
                           Validated(a.settings), Placed(a))
  IN  [command EXCEPT !.auto_remove = FALSE,
                      !.env = Over(CollectiveBinding(node, a.master), @)]

(***************************************************************************)
(* The preview.  It reserves nothing; it lists the fleet, asks each rank   *)
(* for its command, and lists the fleet again for the warning.             *)
(***************************************************************************)
NoPreview == [at |-> "none"]

PlanInit == fleet \in Listings /\ preview = NoPreview

\* A poll or a beacon changes what is known of one machine, before the fleet
\* is listed a second time.
FleetChanges ==
  /\ preview.at = "rendered" /\ fleet = preview.seen
  /\ fleet' \in {l \in Listings :
                  /\ DOMAIN l = DOMAIN fleet
                  /\ Cardinality({n \in DOMAIN l : l[n] # fleet[n]}) = 1}
  /\ UNCHANGED preview

ResolvePlan(sel) ==
  /\ preview.at = "none"
  /\ LET ok == Selectable(sel, fleet) /\ Dialable(sel, fleet)
               /\ HashOf(sel.recipe) # {}
     IN preview' = IF ok THEN [at |-> "asking", sel |-> sel, seen |-> fleet,
                               ranks |-> Assignments(sel, fleet)]
                   ELSE [at |-> "refused", sel |-> sel, seen |-> fleet]
  /\ UNCHANGED fleet

\* Each rank renders its own command; one that will not ends the preview.
RenderRanks ==
  /\ preview.at = "asking"
  /\ preview' =
       IF \E a \in preview.ranks :
             PlanForRefusals(a, preview.seen[a.node]) # {}
       THEN [at |-> "refused", sel |-> preview.sel, seen |-> preview.seen]
       ELSE [at |-> "rendered", sel |-> preview.sel, seen |-> preview.seen,
             ranks |-> preview.ranks,
             commands |-> [a \in preview.ranks |->
                             PlanFor(a, preview.seen[a.node])]]
  /\ UNCHANGED fleet

LinkWarning ==
  /\ preview.at = "rendered"
  /\ preview' = [at |-> "answered", sel |-> preview.sel, seen |-> preview.seen,
                 ranks |-> preview.ranks, commands |-> preview.commands,
                 warned |-> /\ Selectable(preview.sel, fleet)
                            /\ Warns(WorstLink(preview.sel, fleet))]
  /\ UNCHANGED fleet

PlanNext ==
  \/ FleetChanges
  \/ \E sel \in Selections : ResolvePlan(sel)
  \/ RenderRanks
  \/ LinkWarning

(***************************************************************************)
(* What a plan promises.                                                   *)
(***************************************************************************)
OnMastersNetwork(node, master, iface) ==
  \E i \in DOMAIN node.addresses :
     /\ node.addresses[i].iface = iface
     /\ SameNetwork(node.addresses[i].addr, master.addr,
                    node.addresses[i].prefix)

\* It has a named interface there.
Meets(node, master) ==
  \E i \in DOMAIN node.addresses :
     /\ node.addresses[i].iface # ""
     /\ SameNetwork(node.addresses[i].addr, master.addr,
                    node.addresses[i].prefix)

\* What the ranks must agree on: everything but who each of them is.
Shared(command) ==
  <<command.image, command.model,
    {a \in command.args :
       a.flag \notin {"rank", "world_size", "master_addr", "master_port", "port"}}>>

\* A plan the page is shown gives each machine asked for one rank of 0..n-1,
\* the head the first, and all of them one master; the master is on a network
\* of every worker's whenever the head has such an address, whichever of its
\* links is the faster (cluster.rs, rendezvous_address).  The commands differ
\* only in who each rank is; a worker serves no port, and a rank with an
\* interface on the master's network is told to use one that is, whatever its
\* recipe says, and no other is told anything its recipe does not say.
PlanIsSound ==
  preview.at \in {"asking", "rendered", "answered"} =>
    LET sel     == preview.sel
        workers == Picked(sel) \ {sel.head}
        head    == preview.seen[sel.head]
    IN
    /\ {a.node : a \in preview.ranks} = Picked(sel)
    /\ {a.rank : a \in preview.ranks} = 0..(Len(sel.nodes) - 1)
    /\ Cardinality(preview.ranks) = Len(sel.nodes)
    /\ \A a, b \in preview.ranks : a.master = b.master
    /\ \A a \in preview.ranks :
         /\ a.rank = 0 <=> a.node = sel.head
         /\ (\E i \in Usable(head.addresses) :
               /\ head.addresses[i].prefix > 0
               /\ ReachesAll(head.addresses[i], workers, preview.seen))
            => ReachesAll(a.master, workers, preview.seen)
    /\ "commands" \in DOMAIN preview =>
         /\ \A a, b \in preview.ranks :
              Shared(preview.commands[a]) = Shared(preview.commands[b])
         /\ \A a \in preview.ranks :
              LET command == preview.commands[a] IN
              /\ a.rank > 0 =>
                   {x.value : x \in {y \in command.args : y.flag = "port"}} = {"0"}
              /\ Meets(preview.seen[a.node], a.master) =>
                   /\ "NCCL_SOCKET_IFNAME" \in DOMAIN command.env
                   /\ OnMastersNetwork(preview.seen[a.node], a.master,
                                       command.env["NCCL_SOCKET_IFNAME"])
              /\ "NCCL_SOCKET_IFNAME" \in DOMAIN command.env =>
                   \/ Meets(preview.seen[a.node], a.master)
                   \/ "NCCL_SOCKET_IFNAME" \in
                        DOMAIN preview.seen[a.node].ships[sel.recipe].env
=============================================================================
