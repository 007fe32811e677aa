---------------------------- MODULE MCLocalLaunch ----------------------------
(***************************************************************************)
(* One machine's launches and one page's cluster previews on small         *)
(* instances.  The recipes, settings and requests are chosen so that every *)
(* reason to refuse one is met once, and the scenes put a launch, a stop   *)
(* and a second launch or stop beside ranks that already run.              *)
(***************************************************************************)
EXTENDS Machine

VARIABLE end   \* which of the parts this behaviour is about

svcVars == <<kind, unit, loaded, enabled, linger, session, agents, again, usable, cmd,
             told, count>>
ratesVars == <<engine, current, last, poll, shown, now, launches>>
remoteVars == <<store, temp, disk, order, reset, raced, orders, mishaps>>

MCHost == [env |-> [HTTP_PROXY |-> "proxy", HF_TOKEN |-> "token"],
           cached |-> {"org/m"}, accelerator |-> "gb10", can_launch |-> TRUE]

Hub(id) == [shape |-> "hub", id |-> id]
Image(id) == [shape |-> "image", id |-> id]

\* A recipe with a value above the caution, one of two aliases, a toggle and
\* a reference to the host's environment; `keyed` has a token of its own and
\* names an interface.
Plain ==
  [recipe_version |-> "2", model |-> Hub("org/m"), model_revision |-> "none",
   container |-> Image("engine"), runtime |-> "atlas",
   min_nodes |-> 0, max_nodes |-> 0, solo_only |-> FALSE,
   cluster_only |-> FALSE, extra |-> {"notes"},
   defaults |-> [port |-> IntVal(8888),
                 gpu_memory_utilization |-> FloatVal(90),
                 max_num_batched_tokens |-> IntVal(8192),
                 speculative |-> BoolVal(TRUE)],
   env |-> [HTTP_PROXY |-> [kind |-> "ref", v |-> "HTTP_PROXY"],
            TOKEN      |-> [kind |-> "ref", v |-> "HF_TOKEN"]]]

MCShipped ==
  [atlas  |-> [plain   |-> Plain,
               duo     |-> [Plain EXCEPT !.cluster_only = TRUE, !.max_nodes = 2],
               hooked  |-> [Plain EXCEPT !.extra = {"pre_exec"}],
               foreign |-> [Plain EXCEPT !.runtime = "vllm"],
               online  |-> [Plain EXCEPT !.env =
                              [HF_HUB_OFFLINE |-> [kind |-> "text", v |-> "0"]]],
               absent  |-> [Plain EXCEPT !.model = Hub("org/other")],
               keyed   |-> [Plain EXCEPT
                              !.defaults = Over([api_key |-> StrVal("k")], @),
                              !.env = [NCCL_SOCKET_IFNAME |-> [kind |-> "text", v |-> "eth9"]]],
               dashed  |-> [Plain EXCEPT !.container.shape = "flag"]],
   mine   |-> [plain |-> [Plain EXCEPT !.container = Image("fork")],
               both  |-> Plain, own |-> Plain],
   theirs |-> [both |-> Plain]]

(***************************************************************************)
(* Requests.                                                               *)
(***************************************************************************)
Bare(name) == [form |-> "bare", name |-> name, registry |-> ""]
Scoped(registry, name) ==
  [form |-> "scoped", name |-> name, registry |-> registry]

Request(who, verb, ref, settings) ==
  [who |-> who, verb |-> verb, ref |-> ref, settings |-> settings,
   door |-> "ok", port |-> 0, placement |-> Solo, no_rm |-> FALSE,
   no_pull |-> TRUE]

Empty == [k \in {} |-> IntVal(0)]
SettingsAsked ==
  {Empty,
   [port |-> IntVal(9100), speculative |-> BoolVal(FALSE)],
   [gpu_memory_utilization |-> FloatVal(89)],
   [gpu_memory_utilization |-> FloatVal(88)],
   [gpu_memory_utilization |-> FloatVal(96)],
   [max_num_batched_tokens |-> IntVal(512), block_size |-> StrVal("16")],
   [max_prefill_tokens |-> IntVal(512)],
   [api_key |-> StrVal("k")],
   [kv_high_precision_layers |-> StrVal("auto"), max_modl_len |-> IntVal(512)],
   [num_drafts |-> BoolVal(TRUE)]}
OptionsTyped ==
  SettingsAsked \cup
  {[auth_token |-> StrVal("t")],
   [block_size |-> IntVal(16), enable_prefix_caching |-> IntVal(1)]}

One(request) == [asked |-> (1 :> request), containers |-> [n \in {} |-> 0]]

RemoteLaunches ==
  {One(Request(who, "launch", Bare("plain"), s)) :
     who \in {"browser", "peer"}, s \in SettingsAsked}
  \cup {One(Request("peer", "launch", Bare(name), Empty)) :
          name \in DOMAIN MCShipped.atlas \cup {"own", "both", "nowhere"}}
  \cup {One([Request("browser", "launch", Bare("plain"), Empty)
               EXCEPT !.door = door]) :
          door \in {"foreign_origin", "foreign_host", "no_hello",
                    "old_version", "wrong_token"}}

Typed(ref, settings) == Request("cli", "launch", ref, settings)
CliLaunches ==
  {One(Typed(Bare("plain"), s)) : s \in OptionsTyped}
  \cup {One([Typed(ref, Empty) EXCEPT !.no_pull = FALSE, !.port = 9000]) :
          ref \in {Scoped("mine", "plain"), Scoped("gone", "plain"),
                   [form |-> "path", name |-> "plain", registry |-> ""]}}
  \cup {One([Typed(Bare("duo"), s) EXCEPT !.placement = p, !.no_rm = TRUE]) :
          s \in {Empty, [port |-> IntVal(9100)]},
          p \in {Solo, RankOf(0, 2, 6), RankOf(1, 2, 6), RankOf(2, 2, 6),
                 RankOf(1, 2, -1), RankOf(0, 1, 6)}}
  \cup {One([Typed(Bare("plain"), [port |-> IntVal(9100)]) EXCEPT !.port = 9000]),
        One(Typed(Bare("keyed"), [auth_token |-> StrVal("t")])),
        One(Typed(Bare("keyed"), [api_key |-> StrVal("t")]))}

\* A rank of a cluster of the plain recipe, as the rank service starts it.
Rank(k) ==
  [plan |-> [Translate(Parse("plain", Plain), Empty, RankOf(k, 2, 6))
               EXCEPT !.auto_remove = FALSE],
   by |-> 0, up |-> TRUE]
Ranks == (<<"plain", 0>> :> Rank(0)) @@ (<<"plain", 1>> :> Rank(1))

LaunchPlain(who) == Request(who, "launch", Bare("plain"), Empty)
Stop(who) == Request(who, "stop", Bare("plain"), Empty)
StopAll == Request("cli", "stop_all", Bare("plain"), Empty)

Together(a, b, c, cs) ==
  [asked |-> (1 :> a) @@ (2 :> b) @@ (3 :> c), containers |-> cs]
Crowds ==
  {Together(LaunchPlain("peer"), Stop("peer"), other, Ranks) :
     other \in {Stop("cli"), StopAll}}
  \cup
  {Together(LaunchPlain("peer"), Stop("peer"), LaunchPlain(who), [n \in {} |-> 0]) :
     who \in {"cli", "peer"}}
  \cup
  {Together(LaunchPlain("cli"), Stop("cli"),
            [Request("cli", "stop", Scoped("gone", "plain"), Empty)
               EXCEPT !.door = "ok"], Ranks)}

MCScenes == RemoteLaunches \cup CliLaunches \cup Crowds
            \cup {[asked |-> [q \in {} |-> 0], containers |-> [n \in {} |-> 0]]}

(***************************************************************************)
(* Fleets.  Addresses have four bits; the first two are the network of a   *)
(* /2.                                                                     *)
(***************************************************************************)
Address(addr, prefix, class, speed, iface) ==
  [addr |-> addr, prefix |-> prefix, class |-> class, speed |-> speed,
   iface |-> iface, rdma |-> IF class = "Roce" THEN "rdma_" \o iface ELSE ""]

\* What a machine may report: nothing it could meet on, a port of one or
\* both of two fabrics (the second one last, and so preferred), or ethernet.
Ports(n) ==
  LET fabric(k) == Address(4 * k + n, 2, "Roce", 200, "roce" \o ToString(k))
      ether     == Address(8 + n, 2, "Ethernet", 1, "eth")
      wifi      == Address(12 + n, 2, "Wireless", 1, "wlan")
      beacon    == Address(8 + n, 0, "Unverified", 0, "")
  IN  {<<wifi>>, <<beacon>>, <<fabric(0), fabric(1)>>, <<ether, fabric(0)>>,
       <<fabric(1), ether, wifi>>}

Machine(n, ports) ==
  [pairing |-> "paired", can_launch |-> TRUE, addresses |-> ports,
   ships |-> MCShipped.atlas]

Listed ==
  {[n \in 1..3 |-> Machine(n, <<p1, p2, p3>>[n])] :
     p1 \in Ports(1), p2 \in Ports(2), p3 \in Ports(3)}
Whole == [n \in 1..3 |-> Machine(n, <<Address(n, 2, "Roce", 200, "roce0")>>)]
Alone == [n \in {1} |-> [Machine(1, <<>>) EXCEPT !.ships = [duo |-> MCShipped.atlas.duo]]]
MCListings ==
  Listed \cup
  {[Whole EXCEPT ![2].pairing = "discovered"],
   [Whole EXCEPT ![1].pairing = "self", ![3].can_launch = FALSE],
   [Whole EXCEPT ![2].ships.duo.defaults.port = IntVal(1)],
   [n \in 1..2 |-> Whole[n]],
   Alone}

Select(recipe, nodes, head, settings) ==
  [recipe |-> recipe, nodes |-> nodes, head |-> head, settings |-> settings]
MCSelections ==
  {Select("duo", nodes, head, Empty) :
     nodes \in {<<1, 2>>, <<3, 2>>, <<2, 1, 3>>}, head \in {1, 2}}
  \cup {Select("duo", <<1, 1>>, 1, Empty),
        Select("nowhere", <<1, 2>>, 1, Empty),
        Select("keyed", <<1, 2>>, 1, Empty),
        Select("duo", <<1, 2>>, 1, [api_key |-> StrVal("k")]),
        Select("duo", <<1, 2>>, 2, [port |-> IntVal(9100)])}

(***************************************************************************)
(* The previews, the launches, the background service, the rates a page    *)
(* shows and the remote registries share no variable: they are explored    *)
(* apart, and a fleet is listed anew only as one of a few.                 *)
(***************************************************************************)
NoScene == [q \in {} |-> 0]
OneFleet == fleet = [n \in 1..2 |-> Whole[n]]

\* The ports are alike, and the first engine stands for either.
FirstPortFirst ==
  launches = 0 =>
    {engine'[r].port : r \in Telemetry!Running'} \subseteq {CHOOSE p \in EnginePort : TRUE}

MCInit ==
  /\ Init /\ Svc!Init /\ Telemetry!TelemetryInit /\ Remotes!RegistriesInit
  /\ \/ /\ end = "docker"
        /\ asked # NoScene => OneFleet
     \/ /\ end \in {"service", "rates", "remotes"}
        /\ asked = NoScene /\ fleet = Alone
  /\ end # "remotes" => \A n \in Registry : store[n] = None
  /\ end # "service" => usable = {} /\ kind = CHOOSE k \in Supervisor : TRUE

MCNext ==
  /\ UNCHANGED end
  /\ \/ /\ end = "docker" /\ UNCHANGED <<svcVars, ratesVars, remoteVars>>
        /\ \/ asked = NoScene /\ PlanNext /\ UNCHANGED localVars
           \/ LocalNext /\ UNCHANGED planVars
     \/ end = "service" /\ Svc!Next /\ UNCHANGED <<vars, ratesVars, remoteVars>>
     \/ /\ end = "rates" /\ Telemetry!TelemetryNext /\ FirstPortFirst
        /\ UNCHANGED <<vars, svcVars, remoteVars>>
     \/ end = "remotes" /\ Remotes!RegistriesNext /\ UNCHANGED <<vars, svcVars, ratesVars>>

MCSpec == MCInit /\ [][MCNext]_<<vars, svcVars, ratesVars, remoteVars, end>>
=============================================================================
