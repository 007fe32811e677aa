---------------------------- MODULE LaunchCommand ----------------------------
(***************************************************************************)
(* From a recipe and what was asked of it to the container it becomes:     *)
(* parsing a recipe, finding it in the registries, merging its defaults    *)
(* with the overrides, and rendering the docker command                    *)
(* (atlasctl-core's recipe/, registry/, chain and docker/ modules).        *)
(*                                                                         *)
(* A container image, a model and a host path are named, never spelled     *)
(* out: of a model's text the code tells apart only its shape, "hub" for   *)
(* org/name, "path" for anything else that can be served, "flag" for one   *)
(* that starts with a dash and "blank" for none.                           *)
(***************************************************************************)
EXTENDS Settings

CONSTANTS
  Registries,  \* remote registries configured beside the built-in one
  Shipped,     \* [registry -> [name -> recipe file]], "atlas" among them
  Host         \* this machine: [env, cached, accelerator, can_launch]

BUILTIN == "atlas"
RESERVED == {BUILTIN, "builtin"}

ASSUME RegistriesAssumption ==
  /\ Registries \cap RESERVED = {}
  /\ DOMAIN Shipped = Registries \cup {BUILTIN}

(***************************************************************************)
(* A recipe file and what is read of it.                                   *)
(***************************************************************************)
EXECUTABLE_KEYS == {"pre_exec", "post_exec", "post_commands",
                    "stop_after_post", "mods", "builder", "builder_config"}
ISOLATION_KEYS == {"executor_config"}

Unparsable(raw) ==
  \/ raw.model.shape \in {"blank", "flag"}
  \/ raw.container.shape \in {"blank", "flag"}

\* An explicit number of nodes wins over the two flags only upwards.
Topology(raw) ==
  LET asked    == IF raw.min_nodes > 1 THEN raw.min_nodes ELSE 1
      min      == IF raw.cluster_only /\ asked < 2 THEN 2 ELSE asked
      max      == IF raw.solo_only THEN 1 ELSE raw.max_nodes
  IN  [min_nodes |-> min,
       max_nodes |-> IF max # 0 /\ max < min THEN min ELSE max]

Parse(name, raw) ==
  [name           |-> name,
   recipe_version |-> raw.recipe_version,
   model          |-> raw.model,
   model_revision |-> raw.model_revision,
   container      |-> raw.container,
   runtime        |-> raw.runtime,
   topology       |-> Topology(raw),
   defaults       |-> raw.defaults,
   env            |-> raw.env,
   unknown_keys   |-> raw.extra \ (EXECUTABLE_KEYS \cup ISOLATION_KEYS),
   refused_keys   |-> raw.extra \cap (EXECUTABLE_KEYS \cup ISOLATION_KEYS)]

Launchable(recipe) == recipe.refused_keys = {} /\ recipe.runtime = "atlas"

\* What two machines compare before they call two recipes the same one: all
\* that decides what is served, and none of the file's other content.
ContentHash(recipe) ==
  <<recipe.recipe_version, recipe.model, recipe.model_revision,
    recipe.runtime, recipe.container, recipe.topology, recipe.defaults,
    recipe.env>>

(***************************************************************************)
(* Finding a recipe.  A reference names a registry and a recipe, or is     *)
(* bare; a path is never resolved.  The answer is the set of the recipes   *)
(* found: empty when there is none, when the file cannot be read or when   *)
(* the name is ambiguous.                                                  *)
(***************************************************************************)
Load(registry, name) ==
  IF name \in DOMAIN Shipped[registry] /\ ~Unparsable(Shipped[registry][name])
  THEN {Parse(name, Shipped[registry][name])}
  ELSE {}

ResolveBare(name) ==
  IF name \in DOMAIN Shipped[BUILTIN]
  THEN Load(BUILTIN, name)
  ELSE LET carriers == {r \in Registries : name \in DOMAIN Shipped[r]} IN
       IF Cardinality(carriers) = 1
       THEN UNION {Load(r, name) : r \in carriers}
       ELSE {}

Resolve(ref) ==
  CASE ref.form = "bare"   -> ResolveBare(ref.name)
    [] ref.form = "scoped" /\ ref.registry \in DOMAIN Shipped
                           -> Load(ref.registry, ref.name)
    [] OTHER               -> {}

(***************************************************************************)
(* Merging: the command line's overrides over the recipe's defaults, with  *)
(* the one alias folded into the key the engine knows.                     *)
(***************************************************************************)
Normalize(cfg) ==
  LET rest == [k \in DOMAIN cfg \ {"auth_token"} |-> cfg[k]] IN
  IF "auth_token" \in DOMAIN cfg
  THEN Over(rest, [api_key |-> cfg["auth_token"]])
  ELSE rest

ResolvedConfigSwapped(defaults, overrides) ==
  Normalize(Over(defaults, overrides))
ResolvedConfig(defaults, overrides) == Normalize(Over(overrides, defaults))

(***************************************************************************)
(* The docker command.  A rendezvous address is a number, negative when    *)
(* what was given is no address.                                           *)
(***************************************************************************)
Solo == [solo |-> TRUE, rank |-> 0, world_size |-> 1]
RankOf(rank, world_size, master) ==
  [solo |-> FALSE, rank |-> rank, world_size |-> world_size,
   master_addr |-> master]

ContainerName(name, placement) ==
  IF placement.solo THEN <<name>> ELSE <<name, placement.rank>>

\* Only the head of a cluster serves; a worker's port is 0.
RankFlags(placement) ==
  IF placement.solo THEN {}
  ELSE {[key |-> f, flag |-> f, value |-> ToString(placement[f])] :
          f \in {"rank", "world_size", "master_addr"}}
       \cup {[key |-> "master_port", flag |-> "master_port",
              value |-> "29500"]}
       \cup (IF placement.rank > 0
             THEN {[key |-> "worker", flag |-> "port", value |-> "0"]}
             ELSE {})
Skipped(placement) ==
  IF ~placement.solo /\ placement.rank > 0 THEN {"port"} ELSE {}

EGRESS_ENV == {"HF_HUB_OFFLINE", "TRANSFORMERS_OFFLINE"}
PASSTHROUGH_ENV == {"HTTP_PROXY", "HTTPS_PROXY", "NO_PROXY",
                    "http_proxy", "https_proxy", "no_proxy"}

\* What the collective library is told on a cluster (three of its seventeen
\* variables stand for all of them), and of the link chosen.
ClusterEnv ==
  [NCCL_DEBUG |-> "INFO", NCCL_IB_DISABLE |-> "0", NCCL_PROTO |-> "Simple"]
BindInterface(iface, rdma) ==
  IF iface = "" THEN <<>>
  ELSE Over([NCCL_SOCKET_IFNAME |-> iface],
            IF rdma = "" THEN <<>> ELSE [NCCL_IB_HCA |-> rdma])

\* A recipe may name a variable of the host, and gets only those let through.
ExpandAllowed(text) ==
  IF text.kind = "ref"
  THEN IF text.v \in PASSTHROUGH_ENV \cap DOMAIN Host.env
       THEN Host.env[text.v] ELSE ""
  ELSE text.v

BuildEnv(recipe, placement) ==
  LET own  == [k \in DOMAIN recipe.env |-> ExpandAllowed(recipe.env[k])]
      base == [HF_HOME |-> "/cache", HF_HUB_OFFLINE |-> "1",
               TRANSFORMERS_OFFLINE |-> "1"]
  IN  Over(own, Over(IF placement.solo THEN <<>> ELSE ClusterEnv, base))

\* What every container of a model runs under.
ROOTLESS_V1 ==
  [privileged |-> FALSE, ipc |-> "host", network |-> "host",
   security_opts |-> {"no-new-privileges", "seccomp=unconfined"},
   cap_add |-> {"IPC_LOCK", "SYS_NICE"}]

\* Why a recipe cannot become a command for this placement.
TranslateErrors(recipe, overrides, placement) ==
  LET resolved == ResolvedConfig(recipe.defaults, overrides)
      nodes    == placement.world_size
  IN  {e \in {"not_launchable", "node_count", "alias", "rendezvous", "egress"} :
         CASE e = "not_launchable" -> ~Launchable(recipe)
           [] e = "node_count" -> nodes < recipe.topology.min_nodes
           [] e = "alias"      -> AliasConflict(resolved)
           [] e = "rendezvous" -> ~placement.solo /\ placement.master_addr < 0
           [] e = "egress"     -> DOMAIN recipe.env \cap EGRESS_ENV # {}}

Translate(recipe, overrides, placement) ==
  LET resolved == ResolvedConfig(recipe.defaults, overrides)
      skip     == Skipped(placement)
  IN  [name        |-> ContainerName(recipe.name, placement),
       label       |-> recipe.name,
       image       |-> recipe.container,
       model       |-> recipe.model,
       args        |-> ServeFlags(resolved, skip) \cup RankFlags(placement),
       env         |-> BuildEnv(recipe, placement),
       profile     |-> ROOTLESS_V1,
       auto_remove |-> TRUE,
       unmapped    |-> Unmapped(resolved, skip)]

\* A launch is offline, so its model must already be here, unless it brings
\* its own weights or is not named the way the hub names one.
WeightsMissing(plan) ==
  /\ ~\E a \in plan.args : a.flag = "model_from_path"
  /\ plan.model.shape = "hub"
  /\ plan.model.id \notin Host.cached
=============================================================================
