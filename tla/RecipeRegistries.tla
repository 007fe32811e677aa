-------------------------- MODULE RecipeRegistries --------------------------
(***************************************************************************)
(* The remote recipe registries of one machine: registries.yaml, the       *)
(* clones of them in the cache, and the commands that add, remove and      *)
(* update them (atlasctl's commands/registry.rs, atlasctl-core's           *)
(* registry/remote.rs).                                                    *)
(*                                                                         *)
(* A command reads the file once and writes it whole at its end, so two    *)
(* commands in two terminals overlap anywhere; git may fail, and a command *)
(* and its git may be killed together.  What a clone holds is taken to be  *)
(* its repository's recipes; how a name resolves among the registries is   *)
(* in LaunchCommand.                                                       *)
(***************************************************************************)
EXTENDS Naturals, FiniteSets

CONSTANTS None,         \* no value
          Registry,     \* names that are asked for
          Url,          \* repositories
          Command,      \* commands in hand at once
          MaxOrders,    \* BOUND: commands given
          MaxMishaps    \* BOUND: git failures, kills, hands on the cache

\* Assumed of the constants by the module that takes an instance.
RegistriesAssumption ==
  /\ Registry \cap {"atlas", "builtin"} = {}   \* RESERVED: refused before anything
  /\ None \notin Registry \cup Url
  /\ MaxOrders \in Nat /\ MaxMishaps \in Nat

VARIABLES
  store,    \* registries.yaml: [Registry -> a registration or None]
  temp,     \* what has been written to be put in its place, or None
  disk,     \* [Registry -> what is at cache/registries/<name>]
  order,    \* [Command -> the command in hand, or None]
  reset,    \* history: what has been reset to what was fetched
  raced,    \* history: two commands have written the file over one another, or one
            \* has taken for granted a clone that another had not finished
  orders, mishaps

registryVars == <<store, temp, disk, order, reset, raced, orders, mishaps>>

\* Where an entry says its clone is: the cache directory of its name, for one
\* that `add` has written; a hand may have written a path elsewhere, one that
\* begins in the cache and leaves it by dots, or one that leaves it by a link.
Paths == {"own", "elsewhere", "dots", "link"}
Registration == [url : Url, path : Paths]

\* A directory as `reuse` and git find it.  A clone that was cut short has its
\* origin and no recipes.
Nothing == [is |-> "nothing", url |-> None]
Empty   == [is |-> "empty", url |-> None]
Stray   == [is |-> "stray", url |-> None]
Cut(url)   == [is |-> "cut", url |-> url]
Clone(url) == [is |-> "clone", url |-> url]
Directory  == {Nothing, Empty, Stray} \cup {Cut(u) : u \in Url} \cup {Clone(u) : u \in Url}

Order ==
  [verb : {"add", "remove", "update"}, name : Registry \cup {None}, url : Url \cup {None},
   step : {"look", "clone", "cloning", "save", "place", "next", "fetched"},
   read : [Registry -> Registration \cup {None}], left : SUBSET Registry]

RegistriesTypeOK ==
  /\ store \in [Registry -> Registration \cup {None}]
  /\ temp = None \/ temp \in [Registry -> Registration \cup {None}]
  /\ disk \in [Registry -> Directory]
  /\ \A c \in Command : order[c] = None \/ order[c] \in Order
  /\ reset \subseteq Registry \cup {"elsewhere"}

\* Nothing was added yet, or a hand has written the file.
RegistriesInit ==
  /\ \/ store = [n \in Registry |-> None]
     \/ \E n \in Registry, r \in Registration :
          store = [m \in Registry |-> IF m = n THEN r ELSE None]
  /\ temp = None
  /\ disk = [n \in Registry |-> Nothing]
  /\ order = [c \in Command |-> None]
  /\ reset = {} /\ raced = FALSE
  /\ orders = 0 /\ mishaps = 0

Given(c, verb, name, url, step, left) ==
  /\ order[c] = None /\ orders < MaxOrders
  /\ order' = [order EXCEPT ![c] = [verb |-> verb, name |-> name, url |-> url, step |-> step,
                                   read |-> store, left |-> left]]
  /\ orders' = orders + 1
  /\ UNCHANGED <<store, temp, disk, reset, raced, mishaps>>
Has(c, verb, step) == order[c] # None /\ order[c].verb = verb /\ order[c].step = step
Goes(c, step) == order' = [order EXCEPT ![c].step = step]
Ends(c) == order' = [order EXCEPT ![c] = None]
Mishap == mishaps < MaxMishaps /\ mishaps' = mishaps + 1

\* The command writes back the file it read, with its own change: to a temporary
\* file of one name for all, which is then renamed into place.
Changed(c) ==
  [order[c].read EXCEPT ![order[c].name] =
     IF order[c].verb = "add" THEN [url |-> order[c].url, path |-> "own"] ELSE None]

Save(c) ==
  /\ order[c] # None /\ order[c].step = "save"
  /\ temp' = Changed(c)
  /\ raced' = (raced \/ \E o \in Command : order[o] # None /\ order[o].step = "place")
  /\ Goes(c, "place")
  /\ UNCHANGED <<store, disk, reset, orders, mishaps>>

Place(c) ==
  /\ order[c] # None /\ order[c].step = "place"
  /\ raced' = (raced \/ store # order[c].read)
  /\ IF temp = None THEN UNCHANGED <<store, temp>> ELSE store' = temp /\ temp' = None
  /\ Ends(c)
  /\ UNCHANGED <<disk, reset, orders, mishaps>>

-----------------------------------------------------------------------------
(* registry add *)

\* RemoteStore::add refuses a name that is in use before anything else.
AddReads(c, n, u) ==
  /\ store[n] = None
  /\ Given(c, "add", n, u, "look", {})

\* Seeded fault: any checkout that is there is taken for the one asked for.
ReuseAny(n, url) ==
  CASE disk[n] \in {Nothing, Empty} -> "clone"
    [] disk[n] = Stray              -> "conflict"
    [] OTHER                        -> "existing"

\* reuse: by the origin alone, whatever has been checked out.
Reuse(n, url) ==
  CASE disk[n] \in {Nothing, Empty} -> "clone"
    [] disk[n].url = url            -> "existing"
    [] OTHER                        -> "conflict"

AddLooks(c) ==
  /\ Has(c, "add", "look")
  /\ LET found == Reuse(order[c].name, order[c].url) IN
       /\ CASE found = "clone"    -> Goes(c, "clone")
            [] found = "existing" -> Goes(c, "save")
            [] found = "conflict" -> Ends(c)
       /\ raced' = \/ raced
                   \/ /\ found = "existing"
                      /\ \E o \in Command : /\ Has(o, "add", "cloning")
                                            /\ order[o].name = order[c].name
  /\ UNCHANGED <<store, temp, disk, reset, orders, mishaps>>

\* git clone goes into a directory that is not there or empty, and no other; its
\* origin is written before anything is fetched.
CloneStarts(c) ==
  /\ Has(c, "add", "clone")
  /\ LET n == order[c].name IN
       IF disk[n] \in {Nothing, Empty}
       THEN disk' = [disk EXCEPT ![n] = Cut(order[c].url)] /\ Goes(c, "cloning")
       ELSE UNCHANGED disk /\ Ends(c)
  /\ UNCHANGED <<store, temp, reset, raced, orders, mishaps>>

CloneEnds(c) ==
  /\ Has(c, "add", "cloning")
  /\ disk[order[c].name] = Cut(order[c].url)
  /\ disk' = [disk EXCEPT ![order[c].name] = Clone(order[c].url)]
  /\ Goes(c, "save")
  /\ UNCHANGED <<store, temp, reset, raced, orders, mishaps>>

\* What git has made it removes again, and nothing is added.
CloneFails(c) ==
  /\ Has(c, "add", "cloning") /\ Mishap
  /\ disk' = [disk EXCEPT ![order[c].name] = Nothing]
  /\ Ends(c)
  /\ UNCHANGED <<store, temp, reset, raced, orders>>

-----------------------------------------------------------------------------
(* registry remove: the clone stays *)

RemoveReads(c, n) ==
  /\ store[n] # None
  /\ Given(c, "remove", n, None, "save", {})

-----------------------------------------------------------------------------
(* registry update *)

\* One registry, or all there are.
UpdateReads(c, names) ==
  /\ names # {} /\ names \subseteq {n \in Registry : store[n] # None}
  /\ Cardinality(names) = 1 \/ names = {n \in Registry : store[n] # None}
  /\ Given(c, "update", None, None, "next", names)

\* guard_cache_path.
Guarded(path) == path = "own"

\* Seeded fault: git looks further up for a repository and finds the operator's.
RepositoryFurtherUp(path, n) ==
  IF path # "own" THEN "elsewhere"
  ELSE CASE disk[n].is \in {"cut", "clone"} -> n
         [] disk[n] = Nothing               -> None
         [] OTHER                           -> "elsewhere"

\* The repository that `git -C path` works on, None where there is none: with
\* --git-dir=.git git does not look for one further up.
Repository(path, n) ==
  IF path # "own" THEN "elsewhere"
  ELSE IF disk[n].is \in {"cut", "clone"} THEN n ELSE None

\* The guard, then git fetch; the first registry that fails ends the command.
UpdateFetches(c, n) ==
  /\ Has(c, "update", "next") /\ n \in order[c].left
  /\ LET path == order[c].read[n].path IN
       IF Guarded(path) /\ Repository(path, n) # None
       THEN order' = [order EXCEPT ![c].step = "fetched", ![c].name = n, ![c].left = @ \ {n}]
       ELSE Ends(c)
  /\ UNCHANGED <<store, temp, disk, reset, raced, orders, mishaps>>

\* git reset --hard FETCH_HEAD, on whatever is there by now.
UpdateResets(c) ==
  /\ Has(c, "update", "fetched")
  /\ LET n == order[c].name
         at == Repository(order[c].read[n].path, n) IN
       IF at = None THEN Ends(c) /\ UNCHANGED <<disk, reset>>
       ELSE /\ reset' = reset \cup {at}
            /\ disk' = IF at \in Registry THEN [disk EXCEPT ![at] = Clone(@.url)] ELSE disk
            /\ IF order[c].left = {} THEN Ends(c) ELSE Goes(c, "next")
  /\ UNCHANGED <<store, temp, raced, orders, mishaps>>

UpdateFails(c) ==
  /\ Has(c, "update", "next") \/ Has(c, "update", "fetched")
  /\ Mishap /\ Ends(c)
  /\ UNCHANGED <<store, temp, disk, reset, raced, orders>>

-----------------------------------------------------------------------------

\* The terminal closes or the machine goes down: git does not clean up.
Killed(c) ==
  /\ order[c] # None /\ Mishap /\ Ends(c)
  /\ UNCHANGED <<store, temp, disk, reset, raced, orders>>

\* The operator deletes a clone ("delete it yourself"), or leaves something there,
\* while no command is in hand.
ByHand(n) ==
  /\ \A c \in Command : order[c] = None
  /\ Mishap
  /\ \/ disk[n] # Nothing /\ disk' = [disk EXCEPT ![n] = Nothing]
     \/ disk[n] = Nothing /\ \E d \in {Empty, Stray} : disk' = [disk EXCEPT ![n] = d]
  /\ UNCHANGED <<store, temp, order, reset, raced, orders>>

RegistriesNext ==
  \/ \E c \in Command :
       \/ \E n \in Registry, u \in Url : AddReads(c, n, u)
       \/ AddLooks(c) \/ CloneStarts(c) \/ CloneEnds(c) \/ CloneFails(c) \/ Save(c) \/ Place(c)
       \/ \E n \in Registry : RemoveReads(c, n) \/ UpdateFetches(c, n)
       \/ \E names \in SUBSET Registry : UpdateReads(c, names)
       \/ UpdateResets(c) \/ UpdateFails(c) \/ Killed(c)
  \/ \E n \in Registry : ByHand(n)

RegistriesSpec == RegistriesInit /\ [][RegistriesNext]_registryVars

-----------------------------------------------------------------------------
(* Properties *)

\* No update ever resets a working tree that is not a clone in the cache, however
\* registries.yaml came to be and whatever is in the cache in a clone's place.
\* (remote.rs: "`git reset --hard` inside a directory the user chose would be an
\* easy way to destroy their work"; "this proves the REPOSITORY is".)
OperatorsWorkIsSafe == reset \subseteq Registry

\* recipe_names: what has been checked out, an absent directory being an empty one.
Offers(n) == disk[n].is = "clone"

\* As long as no two commands have overlapped on one name or on the file, the
\* recipes of a registry that `add` has written come from the repository it names,
\* which is what they are shown to be from, whatever was added, removed, cut short
\* or deleted before.  (registry.rs: "reusing a directory we cannot identify would
\* silently serve recipes from somewhere nobody asked for".)
ServesWhatWasNamed ==
  ~raced => \A n \in Registry :
    store[n] # None /\ store[n].path = "own" /\ Offers(n) => disk[n].url = store[n].url

=============================================================================
