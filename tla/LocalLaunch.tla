----------------------------- MODULE LocalLaunch -----------------------------
(***************************************************************************)
(* Launching and stopping models on one machine: the page's session and a  *)
(* paired peer through the agent (server.rs, session.rs, control.rs and    *)
(* launcher/docker.rs), and the operator's own `atlasctl run` and          *)
(* `atlasctl stop` (commands/run.rs and commands/lifecycle.rs) beside it.  *)
(*                                                                         *)
(* They share nothing but docker: every docker command is a step of its    *)
(* own, and between two of them any of the others may run, or a model may  *)
(* exit.  What a request was and how far it is are asked[q] and req[q];    *)
(* one request is one session, command or relayed call.                    *)
(***************************************************************************)
EXTENDS ClusterPlan

CONSTANTS
  Scenes,    \* what is asked and what runs already: [asked, containers]
  MaxSilent  \* docker commands that may go unanswered

\* What runs already was started by a rank service, which keeps its containers,
\* and a setting of the kind "int" holds a whole number.
ASSUME LocalAssumption ==
  /\ MaxSilent \in Nat
  /\ \A scene \in Scenes :
       /\ 0 \notin DOMAIN scene.asked
       /\ \A n \in DOMAIN scene.containers :
            LET c == scene.containers[n] IN
            /\ {"plan", "by", "up"} \subseteq DOMAIN c
            /\ c.by = 0 /\ c.plan.auto_remove = FALSE
       /\ \A q \in DOMAIN scene.asked :
            LET s == scene.asked[q].settings IN
            \A k \in DOMAIN s : s[k].kind = "int" => s[k].v \in Int

VARIABLES
  asked,      \* the requests of this scene
  req,        \* how far each one is
  containers, \* docker's: [name -> [plan, by, up]], by 0 when by a rank service
  silent      \* docker commands left that may go unanswered

localVars == <<asked, req, containers, silent>>

(***************************************************************************)
(* Docker, as the code uses it.                                            *)
(***************************************************************************)
Without(cs, names) == [n \in DOMAIN cs \ names |-> cs[n]]
With(cs, name, c) ==
  [n \in DOMAIN cs \cup {name} |-> IF n = name THEN c ELSE cs[n]]

\* `docker ps`, by the recipe's label or by the label every container has.
Labelled(recipe) == {n \in DOMAIN containers : containers[n].plan.label = recipe}
Managed == DOMAIN containers
Up(names) == {n \in names : containers[n].up}

\* A container that ends is kept, unless it was started with --rm.
Ended(names) ==
  LET gone == {n \in names : containers[n].plan.auto_remove} IN
  [n \in DOMAIN containers \ gone |->
     IF n \in names THEN [containers[n] EXCEPT !.up = FALSE]
     ELSE containers[n]]

Answers == UNCHANGED silent
Unanswered == silent > 0 /\ silent' = silent - 1

(***************************************************************************)
(* The requests.                                                           *)
(***************************************************************************)
Requests == DOMAIN asked
At(q, place) == q \in Requests /\ req[q].at = place
Goes(q, place) == req' = [req EXCEPT ![q].at = place]
Remote(q) == asked[q].who \in {"browser", "peer"}

LocalInit ==
  \E scene \in Scenes :
    /\ asked = scene.asked
    /\ containers = scene.containers
    /\ req = [q \in DOMAIN scene.asked |->
                [at |-> "new", before |-> {}, todo |-> {}, unheard |-> FALSE]]
    /\ silent = MaxSilent

(***************************************************************************)
(* A page's session: the upgrade is refused to a foreign origin or host,   *)
(* the first message must be a hello of this version with this agent's     *)
(* token, and a session that answered otherwise is closed.                 *)
(***************************************************************************)
Upgrade(q) ==
  /\ At(q, "new") /\ asked[q].who = "browser"
  /\ Goes(q, IF asked[q].door \in {"foreign_origin", "foreign_host"}
             THEN "closed" ELSE "awaiting_hello")
  /\ UNCHANGED <<asked, containers, silent>>

Hello(q) ==
  /\ At(q, "awaiting_hello")
  /\ Goes(q, IF asked[q].door = "ok" THEN "ready" ELSE "closed")
  /\ UNCHANGED <<asked, containers, silent>>

\* The request is taken up.  (What runs of its recipe then is remembered for
\* the properties only.)
Arrives(q) ==
  /\ At(q, IF asked[q].who = "browser" THEN "ready" ELSE "new")
  /\ req' = [req EXCEPT ![q].at = "asked",
                        ![q].before =
                          {<<n, containers[n].by>> : n \in Up(Managed)}]
  /\ UNCHANGED <<asked, containers, silent>>

(***************************************************************************)
(* Launching through the agent.                                            *)
(***************************************************************************)
CheckSettings(requested) == Problems(requested) = {}

\* Nobody is at the keyboard to read a caution: it refuses.
CautionRefuses(overrides) ==
  \E k \in DOMAIN overrides :
     Cautioned(k, overrides[k], Host.accelerator)

AgentPlanAutoRemoves(recipe, overrides) == Translate(recipe, overrides, Solo)

\* The agent never lets docker remove a container for it.
AgentPlan(recipe, overrides) ==
  [Translate(recipe, overrides, Solo) EXCEPT !.auto_remove = FALSE]

AgentAccepts(q, recipe) ==
  /\ Host.can_launch
  /\ Launchable(recipe)
  /\ CheckSettings(asked[q].settings)
  /\ LET overrides == Validated(asked[q].settings) IN
     /\ ~CautionRefuses(overrides)
     /\ TranslateErrors(recipe, overrides, Solo) = {}
     /\ ~WeightsMissing(AgentPlan(recipe, overrides))

AgentLaunch(q) ==
  /\ At(q, "asked") /\ Remote(q) /\ asked[q].verb = "launch"
  /\ \/ \E recipe \in ResolveBare(asked[q].ref.name) :
          /\ AgentAccepts(q, recipe)
          /\ req' = [req EXCEPT ![q] =
               [at |-> "clearing", before |-> @.before, todo |-> {},
                unheard |-> FALSE,
                plan |-> AgentPlan(recipe, Validated(asked[q].settings))]]
     \/ /\ ~\E recipe \in ResolveBare(asked[q].ref.name) :
               AgentAccepts(q, recipe)
        /\ Goes(q, "refused")
  /\ UNCHANGED <<asked, containers, silent>>

(***************************************************************************)
(* Launching from the command line: the operator may name another image,   *)
(* a port, a rank, and whether to keep the container; a caution is only    *)
(* printed.                                                                *)
(***************************************************************************)
ValidPlacement(p) ==
  p.solo \/ (p.world_size >= 2 /\ p.rank < p.world_size)

BuildOverrides(a) ==
  IF a.port = 0 THEN a.settings ELSE Over(a.settings, [port |-> IntVal(a.port)])
OverridesRefused(a) ==
  \/ \E k \in DOMAIN a.settings : ~OverrideAccepted(k, a.settings[k])
  \/ a.port # 0 /\ "port" \in DOMAIN a.settings

CliPlan(a, recipe) ==
  [Translate(recipe, BuildOverrides(a), a.placement)
     EXCEPT !.auto_remove = ~a.no_rm]

CliAccepts(a, recipe) ==
  /\ ~OverridesRefused(a)
  /\ ValidPlacement(a.placement)
  /\ TranslateErrors(recipe, BuildOverrides(a), a.placement) = {}
  /\ ~WeightsMissing(CliPlan(a, recipe))

CliRun(q) ==
  /\ At(q, "asked") /\ asked[q].who = "cli" /\ asked[q].verb = "launch"
  /\ \/ \E recipe \in Resolve(asked[q].ref) :
          /\ CliAccepts(asked[q], recipe)
          /\ req' = [req EXCEPT ![q] =
               [at |-> IF asked[q].no_pull THEN "clearing" ELSE "pulling",
                before |-> @.before, todo |-> {}, unheard |-> FALSE,
                plan |-> CliPlan(asked[q], recipe)]]
     \/ /\ ~\E recipe \in Resolve(asked[q].ref) : CliAccepts(asked[q], recipe)
        /\ Goes(q, "refused")
  /\ UNCHANGED <<asked, containers, silent>>

Pull(q) ==
  /\ At(q, "pulling")
  /\ \/ Answers /\ Goes(q, "clearing")
     \/ Unanswered /\ Goes(q, "failed")
  /\ UNCHANGED <<asked, containers>>

(***************************************************************************)
(* Both then clear the name and run.  The removal may fail, and is         *)
(* expected to when nothing is there; a name taken meanwhile fails the     *)
(* run.                                                                    *)
(***************************************************************************)
ClearName(q) ==
  /\ At(q, "clearing")
  /\ \/ Answers /\ containers' = Without(containers, {req[q].plan.name})
     \/ Unanswered /\ UNCHANGED containers
  /\ Goes(q, "running")
  /\ UNCHANGED asked

RunContainer(q) ==
  /\ At(q, "running")
  /\ LET name == req[q].plan.name IN
     \/ /\ Answers /\ name \notin DOMAIN containers
        /\ containers' =
             With(containers, name, [plan |-> req[q].plan, by |-> q, up |-> TRUE])
        /\ Goes(q, IF Remote(q) THEN "started" ELSE "lingering")
     \/ /\ Answers /\ name \in DOMAIN containers
        /\ Goes(q, "failed")
        /\ UNCHANGED containers
     \/ Unanswered /\ Goes(q, "failed") /\ UNCHANGED containers
  /\ UNCHANGED asked

\* The command line looks once more whether anything of the recipe runs.
DiedImmediately(q) ==
  /\ At(q, "lingering")
  /\ \/ /\ Answers
        /\ Goes(q, IF Up(Labelled(req[q].plan.label)) = {} THEN "died"
                   ELSE "started")
     \/ Unanswered /\ Goes(q, "started")
  /\ UNCHANGED <<asked, containers>>

(***************************************************************************)
(* Stopping through the agent: list the running containers of the recipe   *)
(* by label, stop those ids, and with none listed the name a launch of it  *)
(* would have.                                                             *)
(***************************************************************************)
StopTargetsByName(name) == {n \in {<<name>>} : n \in Up(Managed)}
StopTargets(name) == Up(Labelled(name))

AgentStopLists(q) ==
  /\ At(q, "asked") /\ Remote(q) /\ asked[q].verb = "stop"
  /\ LET found == StopTargets(asked[q].ref.name) IN
     \/ /\ Answers
        /\ req' = [req EXCEPT ![q].at = IF found = {} THEN "stopping_name"
                                        ELSE "stopping",
                              ![q].todo = {<<n, containers[n].by>> : n \in found}]
     \/ Unanswered /\ Goes(q, "failed")
  /\ UNCHANGED <<asked, containers>>

\* One docker command stops them all, and says no when one is not there.
StopIds(q) ==
  /\ At(q, "stopping")
  /\ LET here == {n \in DOMAIN containers :
                    <<n, containers[n].by>> \in req[q].todo} IN
     \/ /\ Answers
        /\ containers' = Ended(here)
        /\ Goes(q, IF Cardinality(here) = Cardinality(req[q].todo)
                   THEN "stopped" ELSE "failed")
     \/ Unanswered /\ Goes(q, "failed") /\ UNCHANGED containers
  /\ UNCHANGED asked

StopName(q) ==
  /\ At(q, "stopping_name")
  /\ LET name == <<asked[q].ref.name>> IN
     \/ /\ Answers /\ name \in DOMAIN containers
        /\ containers' = Ended({name})
        /\ Goes(q, "stopped")
     \/ /\ Answers /\ name \notin DOMAIN containers
        /\ Goes(q, "failed")
        /\ UNCHANGED containers
     \/ Unanswered /\ Goes(q, "failed") /\ UNCHANGED containers
  /\ UNCHANGED asked

(***************************************************************************)
(* Stopping from the command line: one recipe, or --all.  The names are    *)
(* stopped one by one, and one that is gone is no failure.                 *)
(***************************************************************************)
\* The label looked for: the recipe's own name, or what was typed when no
\* registry has it any more.
LabelOf(ref) ==
  IF Resolve(ref) = {} THEN ref.name
  ELSE (CHOOSE r \in Resolve(ref) : TRUE).name

\* A listing docker does not answer is refused under --all and read as an
\* empty one for a recipe.
CliStopLists(q) ==
  /\ At(q, "asked") /\ asked[q].who = "cli" /\ asked[q].verb \in {"stop", "stop_all"}
  /\ LET ref   == asked[q].ref
         all   == asked[q].verb = "stop_all"
         found == IF all THEN Up(Managed) ELSE Up(Labelled(LabelOf(ref)))
         none  == IF all \/ Resolve(ref) # {} THEN "stopped" ELSE "failed"
     IN
     \/ /\ Answers
        /\ req' = [req EXCEPT ![q].at = IF found = {} THEN none ELSE "stopping_each",
                              ![q].todo = found]
     \/ /\ Unanswered
        /\ req' = [req EXCEPT ![q].at = IF all THEN "failed" ELSE none,
                              ![q].unheard = TRUE]
  /\ UNCHANGED <<asked, containers>>

StopNext(q) ==
  /\ At(q, "stopping_each")
  /\ \E name \in req[q].todo :
       LET rest == req[q].todo \ {name} IN
       \/ /\ Answers
          /\ containers' = Ended({name} \cap DOMAIN containers)
          /\ req' = [req EXCEPT ![q].todo = rest,
                ![q].at = IF rest # {} THEN @
                          ELSE IF req[q].unheard THEN "failed" ELSE "stopped"]
       \/ /\ Unanswered
          /\ req' = [req EXCEPT ![q].todo = rest, ![q].unheard = TRUE,
                ![q].at = IF rest # {} THEN @ ELSE "failed"]
          /\ UNCHANGED containers
  /\ UNCHANGED asked

\* A model exits by itself.
Exits(n) ==
  /\ n \in Up(Managed)
  /\ containers' = Ended({n})
  /\ UNCHANGED <<asked, req, silent>>

LocalNext ==
  \/ \E q \in Requests :
       \/ Upgrade(q) \/ Hello(q) \/ Arrives(q)
       \/ AgentLaunch(q) \/ CliRun(q) \/ Pull(q)
       \/ ClearName(q) \/ RunContainer(q) \/ DiedImmediately(q)
       \/ AgentStopLists(q) \/ StopIds(q) \/ StopName(q)
       \/ CliStopLists(q) \/ StopNext(q)
  \/ \E n \in DOMAIN containers : Exits(n)

(***************************************************************************)
(* The previews of the page and the launches of the machine.               *)
(***************************************************************************)
Init == PlanInit /\ LocalInit
Next ==
  \/ PlanNext /\ UNCHANGED localVars
  \/ LocalNext /\ UNCHANGED planVars
vars == <<fleet, preview, asked, req, containers, silent>>
Spec == Init /\ [][Next]_vars

(***************************************************************************)
(* Properties.                                                             *)
(***************************************************************************)
WhatWasAsked(q) ==
  IF Remote(q) THEN asked[q].settings ELSE BuildOverrides(asked[q])
\* The recipes a request may mean: a bare name, from outside the machine.
Meant(q) ==
  IF Remote(q) THEN ResolveBare(asked[q].ref.name) ELSE Resolve(asked[q].ref)
\* The keys of a layer that come to a flag of the engine's.  The token has two
\* spellings, and the portable one wins over the other in whichever layer it
\* is set.
Spelled(layer, other) ==
  {k \in DOMAIN layer :
     \/ k \in FlagKeys
     \/ k = "auth_token" /\ "api_key" \notin DOMAIN layer \cup DOMAIN other}
Serves(args, key, value) ==
  IF key \in TOGGLES
  THEN Truthy(value) <=> \E a \in args : a.flag = FlagOf(key)
  ELSE \E a \in args : a.flag = FlagOf(key) /\ a.value = Render(value)

\* The command a launch comes to gives the engine each flag at most once, with
\* the value asked for where one was asked for under whichever of the flag's
\* names, and with the recipe's otherwise (chain.rs, flags/mod.rs, translate);
\* what says which rank it is and a worker's port alone are the placement's.
\* It has no flag from elsewhere, the hub stays out of reach whatever the
\* recipe's environment says, and a request from outside this machine's
\* keyboard has changed no setting that is denied and none past the caution
\* (control.rs, launch).
CommandIsWhatWasAsked ==
  \A q \in Requests : "plan" \in DOMAIN req[q] =>
    \E recipe \in Meant(q) :
      LET plan   == req[q].plan
          want   == WhatWasAsked(q)
          put    == IF Remote(q) THEN Solo ELSE asked[q].placement
          fixed  == {a.flag : a \in RankFlags(put)}
          sought == Spelled(want, recipe.defaults)
          shipped == Spelled(recipe.defaults, want)
          wanted == {FlagOf(k) : k \in sought}
          given  == {FlagOf(k) : k \in shipped}
      IN
      /\ \A x, y \in plan.args : x.flag = y.flag => x = y
      /\ \A k \in sought :
           FlagOf(k) \notin fixed => Serves(plan.args, k, want[k])
      /\ \A k \in shipped :
           FlagOf(k) \notin fixed \cup wanted
             => Serves(plan.args, k, recipe.defaults[k])
      /\ {a.flag : a \in plan.args} \subseteq fixed \cup wanted \cup given
      /\ \A e \in EGRESS_ENV : plan.env[e] = "1"
      /\ Remote(q) => /\ DOMAIN want \cap DENIED = {}
                      /\ ~CautionRefuses(want)

\* A request to stop that was answered with success, and whose listing docker
\* answered (a recipe's that it did not is read as an empty one), leaves
\* nothing running of what ran of that recipe when the request arrived: not the
\* ranks of a cluster, whose names are not the recipe's, and not one a launch
\* beside it put there (launcher/docker.rs, stop; lifecycle.rs, stop_each).
StillUp(q) ==
  {n \in Up(Managed) :
     /\ <<n, containers[n].by>> \in req[q].before
     /\ \/ asked[q].verb = "stop_all"
        \/ containers[n].plan.label = asked[q].ref.name}
SaidStopped(q) ==
  asked[q].verb \in {"stop", "stop_all"} /\ req[q].at = "stopped"
StopReachesEveryContainer ==
  \A q \in Requests : SaidStopped(q) /\ ~req[q].unheard => StillUp(q) = {}

\* What a model said before it died stays readable: a container the agent
\* started, a rank, or one the operator asked to keep is taken away only by the
\* launch that takes its name (launcher/docker.rs:73-76).
ToBeKept(n) ==
  LET q == containers[n].by IN q \in Requests => Remote(q) \/ asked[q].no_rm
EvidenceStays ==
  [][\A n \in DOMAIN containers :
       /\ ToBeKept(n)
       /\ n \in DOMAIN containers' => containers'[n].by # containers[n].by
       => \E q \in Requests : /\ req[q].at = "clearing"
                              /\ req'[q].at = "running"
                              /\ req[q].plan.name = n]_vars
=============================================================================
