---------------------------- MODULE MachineProofs ----------------------------
(***************************************************************************)
(* What holds of any machine, whatever its recipes, commands and requests: *)
(* of its registries, of the service its agent runs as, of the rates its   *)
(* pages show, of its launches and stops, of the commands launches come to *)
(* and of the plans of clusters.                                           *)
(***************************************************************************)
EXTENDS Machine, FiniteSetTheorems, SequenceTheorems, TLAPS

-----------------------------------------------------------------------------
(* The registries: RecipeRegistries *)

Steps == {"look", "clone", "cloning", "save", "place", "next", "fetched"}

RegistryTypes ==
  /\ store \in [Registry -> Remotes!Registration \cup {None}]
  /\ temp \in [Registry -> Remotes!Registration \cup {None}] \cup {None}
  /\ disk \in [Registry -> Remotes!Directory]
  /\ order \in [Command -> Remotes!Order \cup {None}]
  /\ raced \in BOOLEAN

InHand(c, step) == order[c] # None /\ order[c].step = step
Adds(c, step)   == InHand(c, step) /\ order[c].verb = "add"

\* An order to add names a registry and a repository, and what an update is
\* about to reset lies where `add` puts a clone.
OrdersAreWhole ==
  \A c \in Command :
    /\ order[c] # None /\ order[c].verb = "add" =>
         order[c].name \in Registry /\ order[c].url \in Url
    /\ Remotes!Has(c, "update", "fetched") =>
         /\ order[c].name \in Registry
         /\ order[c].read[order[c].name].path = "own"

\* While git clones, it is alone in that directory, and the directory has the
\* origin asked for.
OneClonesAtATime ==
  \A c \in Command : Adds(c, "cloning") =>
    /\ disk[order[c].name] \in {Remotes!Cut(order[c].url), Remotes!Clone(order[c].url)}
    /\ \A o \in Command : Adds(o, "cloning") /\ order[o].name = order[c].name => o = c

\* The file that is to be put in place is the one its command wrote.
OneWritesAtATime ==
  \A c \in Command : InHand(c, "place") =>
    /\ temp = Remotes!Changed(c)
    /\ \A o \in Command : InHand(o, "place") => o = c

\* What an order to add is about to register is there, from where it says, and
\* nobody is cloning over it.
WhatIsSavedIsThere ==
  \A c \in Command : Adds(c, "save") \/ Adds(c, "place") =>
    /\ disk[order[c].name] \in {Remotes!Cut(order[c].url), Remotes!Clone(order[c].url)}
    /\ \A o \in Command : Adds(o, "cloning") => order[o].name # order[c].name

\* A registry that has come in under an order to add it is on the disk, so that
\* order will not clone; one that does is still of no registry.
LateAddsFindIt ==
  \A c \in Command :
    /\ (Adds(c, "look") \/ Adds(c, "clone")) /\ store[order[c].name] # None =>
         disk[order[c].name].is \in {"cut", "clone"}
    /\ Adds(c, "cloning") => store[order[c].name] = None

\* Also of a clone that was cut short, which an update may complete.
ClonedFromWhereNamed ==
  \A n \in Registry :
    store[n] # None /\ store[n].path = "own" /\ disk[n].is \in {"cut", "clone"}
      => disk[n].url = store[n].url

RegistriesInv ==
  /\ RegistryTypes /\ OrdersAreWhole /\ OneClonesAtATime
  /\ reset \subseteq Registry
  /\ ~raced => OneWritesAtATime /\ WhatIsSavedIsThere /\ LateAddsFindIt /\ ClonedFromWhereNamed

\* An order that goes on is the same order; the others are as they were.
SameOrder(c, s) ==
  /\ order'[c].step = s /\ order'[c].verb = order[c].verb /\ order'[c].name = order[c].name
  /\ order'[c].url = order[c].url /\ order'[c].read = order[c].read
OthersWait(c) == \A o \in Command : o # c => order'[o] = order[o]
OrderTypes == order \in [Command -> Remotes!Order \cup {None}]

LEMMA OfAnOrigin ==
  ASSUME NEW u, NEW d \in {Remotes!Cut(u), Remotes!Clone(u)}
  PROVE  d.is \in {"cut", "clone"} /\ d.url = u
  BY DEF Remotes!Cut, Remotes!Clone

LEMMA GoesOn ==
  ASSUME OrderTypes, NEW c \in Command, order[c] # None, NEW s \in Steps, Remotes!Goes(c, s)
  PROVE  SameOrder(c, s) /\ OthersWait(c) /\ OrderTypes'
<1>1. order[c] \in Remotes!Order
  BY DEF OrderTypes
<1>2. order'[c] = [order[c] EXCEPT !.step = s]
  BY DEF Remotes!Goes, OrderTypes
<1>3. SameOrder(c, s) /\ order'[c] \in Remotes!Order
  BY <1>1, <1>2 DEF SameOrder, Remotes!Order, Steps
<1> QED
  BY <1>3 DEF OthersWait, OrderTypes, Remotes!Goes

LEMMA GoesAway ==
  ASSUME OrderTypes, NEW c \in Command, Remotes!Ends(c)
  PROVE  order'[c] = None /\ OthersWait(c) /\ OrderTypes'
  BY DEF OthersWait, OrderTypes, Remotes!Ends

\* A step that concerns an order alone: it is given up, or goes on to nothing
\* that writes, and an order to add that has just come is for a free name.
Harmless(c) ==
  \/ order'[c] = None
  \/ /\ order'[c].step \notin {"clone", "cloning", "place"}
     /\ order'[c].verb = "add" =>
          /\ order'[c].name \in Registry /\ order'[c].url \in Url
          /\ order'[c].step = "look" /\ store[order'[c].name] = None
     /\ order'[c].step = "fetched" =>
          /\ order'[c].name \in Registry
          /\ order'[c].read[order'[c].name].path = "own"

LEMMA HarmlessStepKeeps ==
  ASSUME RegistriesInv, NEW c \in Command, OthersWait(c), OrderTypes', Harmless(c),
         UNCHANGED <<store, temp, disk, reset, raced>>
  PROVE  RegistriesInv'
<1>1. RegistryTypes'
  BY DEF RegistriesInv, RegistryTypes, OrderTypes
<1>2. OrdersAreWhole'
  BY DEF RegistriesInv, OrdersAreWhole, Remotes!Has, OthersWait, Harmless
<1>3. OneClonesAtATime'
  BY DEF RegistriesInv, OneClonesAtATime, Adds, InHand, OthersWait, Harmless,
         Remotes!Cut, Remotes!Clone
<1>4. ~raced => OneWritesAtATime'
  BY DEF RegistriesInv, OneWritesAtATime, InHand, OthersWait, Harmless, Remotes!Changed
<1>5. ~raced => WhatIsSavedIsThere'
  BY DEF RegistriesInv, WhatIsSavedIsThere, Adds, InHand, OthersWait, Harmless,
         Remotes!Cut, Remotes!Clone
<1>6. ~raced => LateAddsFindIt'
  BY DEF RegistriesInv, LateAddsFindIt, Adds, InHand, OthersWait, Harmless
<1>7. ~raced => ClonedFromWhereNamed'
  BY DEF RegistriesInv, ClonedFromWhereNamed
<1> QED
  BY <1>1, <1>2, <1>3, <1>4, <1>5, <1>6, <1>7 DEF RegistriesInv

LEMMA GivenIsAnOrder ==
  ASSUME RegistriesInv, NEW c \in Command, NEW verb \in {"add", "remove", "update"},
         NEW name \in Registry \cup {None}, NEW url \in Url \cup {None}, NEW s \in Steps,
         NEW left \in SUBSET Registry, Remotes!Given(c, verb, name, url, s, left)
  PROVE  /\ OthersWait(c) /\ OrderTypes'
         /\ UNCHANGED <<store, temp, disk, reset, raced>>
         /\ order'[c].verb = verb /\ order'[c].name = name /\ order'[c].url = url
         /\ order'[c].step = s
<1> DEFINE new == [verb |-> verb, name |-> name, url |-> url, step |-> s,
                   read |-> store, left |-> left]
<1>1. RegistryTypes
  BY DEF RegistriesInv
<1>2. new \in Remotes!Order
  BY <1>1 DEF RegistryTypes, Remotes!Order, Steps
<1>3. order' = [order EXCEPT ![c] = new] /\ UNCHANGED <<store, temp, disk, reset, raced>>
  BY DEF Remotes!Given
<1>4. order'[c] = new
  BY <1>1, <1>3 DEF RegistryTypes
<1> QED
  BY <1>1, <1>2, <1>3, <1>4 DEF RegistryTypes, OrderTypes, OthersWait

LEMMA SaveKeeps ==
  ASSUME RegistriesInv, NEW c \in Command, Remotes!Save(c)
  PROVE  RegistriesInv'
<1>1. order[c] # None /\ order[c].step = "save" /\ temp' = Remotes!Changed(c)
  BY DEF Remotes!Save
<1>2. SameOrder(c, "place") /\ OthersWait(c) /\ OrderTypes'
  BY <1>1, GoesOn DEF Remotes!Save, Steps, RegistriesInv, RegistryTypes, OrderTypes
<1>3. UNCHANGED <<store, disk, reset>>
  BY DEF Remotes!Save
<1>4. ~raced' => ~raced /\ \A o \in Command : ~ InHand(o, "place")
  BY DEF Remotes!Save, InHand
<1>5. RegistryTypes'
  <2>1. order[c] \in Remotes!Order
    BY <1>1 DEF RegistriesInv, RegistryTypes
  <2>2. order[c].verb = "add" => order[c].url \in Url
    BY <1>1 DEF RegistriesInv, OrdersAreWhole
  <2>3. temp' \in [Registry -> Remotes!Registration \cup {None}]
    BY <1>1, <2>1, <2>2 DEF Remotes!Changed, Remotes!Order, Remotes!Registration, Remotes!Paths
  <2> QED
    BY <1>2, <1>3, <2>3 DEF RegistriesInv, RegistryTypes, OrderTypes, Remotes!Save
<1>6. OrdersAreWhole'
  BY <1>1, <1>2 DEF RegistriesInv, OrdersAreWhole, Remotes!Has, SameOrder, OthersWait
<1>7. OneClonesAtATime'
  BY <1>1, <1>2, <1>3
  DEF RegistriesInv, OneClonesAtATime, Adds, InHand, SameOrder, OthersWait, Remotes!Cut,
      Remotes!Clone
<1>8. ~raced' => OneWritesAtATime'
  BY <1>1, <1>2, <1>3, <1>4
  DEF RegistriesInv, OneWritesAtATime, InHand, SameOrder, OthersWait, Remotes!Changed
<1>9. ~raced' => WhatIsSavedIsThere'
  BY <1>1, <1>2, <1>3, <1>4
  DEF RegistriesInv, WhatIsSavedIsThere, Adds, InHand, SameOrder, OthersWait, Remotes!Cut,
      Remotes!Clone
<1>10. ~raced' => LateAddsFindIt'
  BY <1>1, <1>2, <1>3, <1>4
  DEF RegistriesInv, LateAddsFindIt, Adds, InHand, SameOrder, OthersWait
<1>11. ~raced' => ClonedFromWhereNamed'
  BY <1>1, <1>2, <1>3, <1>4 DEF RegistriesInv, ClonedFromWhereNamed
<1> QED
  BY <1>3, <1>5, <1>6, <1>7, <1>8, <1>9, <1>10, <1>11 DEF RegistriesInv

\* What is put in place is the file as it was read, but for one name; the clone
\* of a name that comes in is there.
LEMMA PlaceKeeps ==
  ASSUME RegistriesInv, NEW c \in Command, Remotes!Place(c)
  PROVE  RegistriesInv'
<1>1. order[c] # None /\ order[c].step = "place" /\ order[c] \in Remotes!Order
  BY DEF Remotes!Place, RegistriesInv, RegistryTypes
<1>2. order'[c] = None /\ OthersWait(c) /\ OrderTypes'
  BY GoesAway DEF Remotes!Place, RegistriesInv, RegistryTypes, OrderTypes
<1>3. UNCHANGED <<disk, reset>>
  BY DEF Remotes!Place
<1>4. RegistryTypes'
  BY <1>2, <1>3 DEF Remotes!Place, RegistriesInv, RegistryTypes, OrderTypes
<1>5. OrdersAreWhole'
  BY <1>2 DEF RegistriesInv, OrdersAreWhole, Remotes!Has, OthersWait
<1>6. OneClonesAtATime'
  BY <1>2, <1>3 DEF RegistriesInv, OneClonesAtATime, Adds, InHand, OthersWait,
                    Remotes!Cut, Remotes!Clone
<1>7. SUFFICES ASSUME ~raced'
               PROVE  OneWritesAtATime' /\ WhatIsSavedIsThere' /\ LateAddsFindIt'
                      /\ ClonedFromWhereNamed'
  BY <1>3, <1>4, <1>5, <1>6 DEF RegistriesInv
<1>8. ~raced /\ store = order[c].read /\ temp = Remotes!Changed(c)
  BY <1>1, <1>7 DEF Remotes!Place, RegistriesInv, OneWritesAtATime, InHand
<1>9. \A o \in Command : ~ InHand(o, "place")'
  BY <1>1, <1>2, <1>8 DEF RegistriesInv, OneWritesAtATime, InHand, OthersWait
<1>10. WhatIsSavedIsThere'
  BY <1>2, <1>3, <1>8
  DEF RegistriesInv, WhatIsSavedIsThere, Adds, InHand, OthersWait, Remotes!Cut, Remotes!Clone
<1>11. \A n \in Registry :
         \/ store'[n] = store[n] \/ store'[n] = None
         \/ /\ order[c].verb = "add" /\ n = order[c].name
            /\ store'[n] = [url |-> order[c].url, path |-> "own"]
  <2>1. store' = temp \/ store' = store
    BY DEF Remotes!Place
  <2> QED
    BY <1>1, <1>8, <2>1 DEF Remotes!Changed, Remotes!Order
<1>12. order[c].verb = "add" =>
         /\ disk[order[c].name] \in {Remotes!Cut(order[c].url), Remotes!Clone(order[c].url)}
         /\ \A o \in Command : Adds(o, "cloning") => order[o].name # order[c].name
  BY <1>1, <1>8 DEF RegistriesInv, WhatIsSavedIsThere, Adds, InHand
<1>13. LateAddsFindIt'
  <2> SUFFICES ASSUME NEW o \in Command, (Adds(o, "look") \/ Adds(o, "clone") \/ Adds(o, "cloning"))'
               PROVE  /\ (Adds(o, "look") \/ Adds(o, "clone"))' /\ store'[order'[o].name] # None =>
                           disk'[order'[o].name].is \in {"cut", "clone"}
                      /\ Adds(o, "cloning")' => store'[order'[o].name] = None
    BY DEF LateAddsFindIt
  <2>1. o # c /\ order'[o] = order[o]
    BY <1>2 DEF Adds, InHand, OthersWait
  <2>2. order[o].name \in Registry
    BY <2>1 DEF RegistriesInv, OrdersAreWhole, Adds, InHand
  <2> QED
    BY <1>3, <1>8, <1>11, <1>12, <2>1, <2>2
    DEF RegistriesInv, LateAddsFindIt, Adds, InHand, Remotes!Cut, Remotes!Clone
<1>14. ClonedFromWhereNamed'
  BY <1>3, <1>8, <1>11, <1>12
  DEF RegistriesInv, ClonedFromWhereNamed, Remotes!Cut, Remotes!Clone
<1> QED
  BY <1>9, <1>10, <1>13, <1>14 DEF OneWritesAtATime

\* A directory that has an origin has it from a clone.
LEMMA OriginsAreOfClones ==
  ASSUME RegistriesInv, NEW n \in Registry, NEW u \in Url, disk[n].url = u
  PROVE  disk[n] \in {Remotes!Cut(u), Remotes!Clone(u)}
  BY MachineAssumption
  DEF Remotes!RegistriesAssumption, RegistriesInv, RegistryTypes, Remotes!Directory,
      Remotes!Nothing, Remotes!Empty, Remotes!Stray, Remotes!Cut, Remotes!Clone

LEMMA AddLooksKeeps ==
  ASSUME RegistriesInv, NEW c \in Command, Remotes!AddLooks(c)
  PROVE  RegistriesInv'
<1>1. order[c] # None /\ order[c].verb = "add" /\ order[c].step = "look"
  BY DEF Remotes!AddLooks, Remotes!Has
<1>2. order[c].name \in Registry /\ order[c].url \in Url
  BY <1>1 DEF RegistriesInv, OrdersAreWhole
<1>3. UNCHANGED <<store, temp, disk, reset>>
  BY DEF Remotes!AddLooks
<1>4. \/ Remotes!Goes(c, "clone") /\ UNCHANGED raced
      \/ /\ Remotes!Goes(c, "save") /\ disk[order[c].name].url = order[c].url
         /\ ~raced' => ~raced /\ \A o \in Command :
                                   Adds(o, "cloning") => order[o].name # order[c].name
      \/ Remotes!Ends(c) /\ UNCHANGED raced
  <2> DEFINE found == Remotes!Reuse(order[c].name, order[c].url)
  <2>1. /\ found \in {"clone", "existing", "conflict"}
        /\ found = "existing" => disk[order[c].name].url = order[c].url
    BY DEF Remotes!Reuse
  <2>2. /\ CASE found = "clone"    -> Remotes!Goes(c, "clone")
             [] found = "existing" -> Remotes!Goes(c, "save")
             [] found = "conflict" -> Remotes!Ends(c)
        /\ raced' = \/ raced
                    \/ /\ found = "existing"
                       /\ \E o \in Command : /\ Remotes!Has(o, "add", "cloning")
                                             /\ order[o].name = order[c].name
    BY DEF Remotes!AddLooks
  <2> HIDE DEF found
  <2>3. raced \in BOOLEAN
    BY DEF RegistriesInv, RegistryTypes
  <2> QED
    BY <2>1, <2>2, <2>3 DEF Remotes!Has, Adds, InHand
<1>5. OrderTypes
  BY DEF RegistriesInv, RegistryTypes, OrderTypes
<1>6. CASE Remotes!Ends(c) /\ UNCHANGED raced
  BY <1>3, <1>5, <1>6, GoesAway, HarmlessStepKeeps DEF Harmless
<1>7. ASSUME NEW s \in {"clone", "save"}, Remotes!Goes(c, s)
      PROVE  SameOrder(c, s) /\ OthersWait(c) /\ OrderTypes'
  BY <1>1, <1>5, <1>7, GoesOn DEF Steps
<1>8. CASE Remotes!Goes(c, "clone") /\ UNCHANGED raced
  <2>1. SameOrder(c, "clone") /\ OthersWait(c) /\ OrderTypes'
    BY <1>7, <1>8
  <2>2. RegistryTypes' /\ OrdersAreWhole'
    BY <1>1, <1>3, <1>8, <2>1
    DEF RegistriesInv, RegistryTypes, OrderTypes, OrdersAreWhole, Remotes!Has, SameOrder, OthersWait
  <2>3. OneClonesAtATime'
    BY <1>1, <1>3, <2>1
    DEF RegistriesInv, OneClonesAtATime, Adds, InHand, SameOrder, OthersWait, Remotes!Cut,
        Remotes!Clone
  <2>4. ~raced => OneWritesAtATime' /\ ClonedFromWhereNamed'
    BY <1>1, <1>3, <2>1
    DEF RegistriesInv, OneWritesAtATime, ClonedFromWhereNamed, InHand, SameOrder, OthersWait,
        Remotes!Changed
  <2>5. ~raced => WhatIsSavedIsThere'
    BY <1>1, <1>3, <2>1
    DEF RegistriesInv, WhatIsSavedIsThere, Adds, InHand, SameOrder, OthersWait, Remotes!Cut,
        Remotes!Clone
  <2>6. ~raced => LateAddsFindIt'
    BY <1>1, <1>3, <2>1 DEF RegistriesInv, LateAddsFindIt, Adds, InHand, SameOrder, OthersWait
  <2> QED
    BY <1>3, <1>8, <2>2, <2>3, <2>4, <2>5, <2>6 DEF RegistriesInv
<1>9. CASE /\ Remotes!Goes(c, "save") /\ disk[order[c].name].url = order[c].url
           /\ ~raced' => ~raced /\ \A o \in Command :
                                     Adds(o, "cloning") => order[o].name # order[c].name
  <2>1. SameOrder(c, "save") /\ OthersWait(c) /\ OrderTypes'
    BY <1>7, <1>9
  <2>2. disk[order[c].name] \in {Remotes!Cut(order[c].url), Remotes!Clone(order[c].url)}
    BY <1>2, <1>9, OriginsAreOfClones
  <2>3. RegistryTypes' /\ OrdersAreWhole'
    <3>1. raced' \in BOOLEAN
      BY DEF Remotes!AddLooks, RegistriesInv, RegistryTypes
    <3> QED
      BY <1>1, <1>3, <2>1, <3>1
      DEF RegistriesInv, RegistryTypes, OrderTypes, OrdersAreWhole, Remotes!Has, SameOrder,
          OthersWait
  <2>4. OneClonesAtATime'
    BY <1>1, <1>3, <2>1
    DEF RegistriesInv, OneClonesAtATime, Adds, InHand, SameOrder, OthersWait, Remotes!Cut,
        Remotes!Clone
  <2>5. ~raced' => OneWritesAtATime' /\ ClonedFromWhereNamed'
    BY <1>1, <1>3, <1>9, <2>1
    DEF RegistriesInv, OneWritesAtATime, ClonedFromWhereNamed, InHand, SameOrder, OthersWait,
        Remotes!Changed
  <2>6. ~raced' => WhatIsSavedIsThere'
    BY <1>1, <1>3, <1>9, <2>1, <2>2
    DEF RegistriesInv, WhatIsSavedIsThere, Adds, InHand, SameOrder, OthersWait, Remotes!Cut,
        Remotes!Clone
  <2>7. ~raced' => LateAddsFindIt'
    BY <1>1, <1>3, <1>9, <2>1
    DEF RegistriesInv, LateAddsFindIt, Adds, InHand, SameOrder, OthersWait
  <2> QED
    BY <1>3, <2>3, <2>4, <2>5, <2>6, <2>7 DEF RegistriesInv
<1> QED
  BY <1>4, <1>6, <1>8, <1>9

LEMMA CloneStartsKeeps ==
  ASSUME RegistriesInv, NEW c \in Command, Remotes!CloneStarts(c)
  PROVE  RegistriesInv'
<1> DEFINE n == order[c].name
<1>1. order[c] # None /\ order[c].verb = "add" /\ order[c].step = "clone"
  BY DEF Remotes!CloneStarts, Remotes!Has
<1>2. n \in Registry /\ order[c].url \in Url
  BY <1>1 DEF RegistriesInv, OrdersAreWhole
<1>3. UNCHANGED <<store, temp, reset, raced>>
  BY DEF Remotes!CloneStarts
<1>4. OrderTypes
  BY DEF RegistriesInv, RegistryTypes, OrderTypes
<1>5. CASE UNCHANGED disk /\ Remotes!Ends(c)
  BY <1>3, <1>4, <1>5, GoesAway, HarmlessStepKeeps DEF Harmless
<1>6. CASE /\ disk[n] \in {Remotes!Nothing, Remotes!Empty} /\ Remotes!Goes(c, "cloning")
           /\ disk' = [disk EXCEPT ![n] = Remotes!Cut(order[c].url)]
  <2>1. SameOrder(c, "cloning") /\ OthersWait(c) /\ OrderTypes'
    BY <1>1, <1>4, <1>6, GoesOn DEF Steps
  <2>2. /\ disk'[n] = Remotes!Cut(order[c].url)
        /\ \A m \in Registry : m # n => disk'[m] = disk[m]
        /\ disk[n].is \notin {"cut", "clone"}
    BY <1>2, <1>6 DEF RegistriesInv, RegistryTypes, Remotes!Nothing, Remotes!Empty
  <2>3. RegistryTypes'
    BY <1>2, <1>3, <1>6, <2>1 DEF RegistriesInv, RegistryTypes, OrderTypes, Remotes!Directory
  <2>4. OrdersAreWhole'
    BY <1>1, <2>1 DEF RegistriesInv, OrdersAreWhole, Remotes!Has, SameOrder, OthersWait
  <2>5. ASSUME NEW o \in Command, Adds(o, "cloning")
        PROVE  order[o].name \in Registry /\ order[o].name # n
    <3>1. order[o].name \in Registry
      BY <2>5 DEF RegistriesInv, OrdersAreWhole, Adds, InHand
    <3>2. disk[order[o].name].is \in {"cut", "clone"}
      BY <2>5, OfAnOrigin DEF RegistriesInv, OneClonesAtATime
    <3> QED
      BY <2>2, <3>1, <3>2
  <2>6. OneClonesAtATime'
    BY <1>1, <2>1, <2>2, <2>5
    DEF RegistriesInv, OneClonesAtATime, Adds, InHand, SameOrder, OthersWait, Remotes!Cut,
        Remotes!Clone
  <2>7. SUFFICES ASSUME ~raced
                 PROVE  OneWritesAtATime' /\ WhatIsSavedIsThere' /\ LateAddsFindIt'
                        /\ ClonedFromWhereNamed'
    BY <1>3, <2>3, <2>4, <2>6 DEF RegistriesInv
  <2>8. store[n] = None
    BY <1>1, <2>2, <2>7 DEF RegistriesInv, LateAddsFindIt, Adds, InHand
  <2>9. OneWritesAtATime'
    BY <1>1, <1>3, <2>1, <2>7
    DEF RegistriesInv, OneWritesAtATime, InHand, SameOrder, OthersWait, Remotes!Changed
  <2>10. ASSUME NEW o \in Command, Adds(o, "save") \/ Adds(o, "place")
         PROVE  order[o].name \in Registry /\ order[o].name # n
    <3>1. order[o].name \in Registry
      BY <2>10 DEF RegistriesInv, OrdersAreWhole, Adds, InHand
    <3>2. disk[order[o].name].is \in {"cut", "clone"}
      BY <2>7, <2>10, OfAnOrigin DEF RegistriesInv, WhatIsSavedIsThere
    <3> QED
      BY <2>2, <3>1, <3>2
  <2>11. WhatIsSavedIsThere'
    BY <1>1, <2>1, <2>2, <2>7, <2>10
    DEF RegistriesInv, WhatIsSavedIsThere, Adds, InHand, SameOrder, OthersWait, Remotes!Cut,
        Remotes!Clone
  <2>12. LateAddsFindIt'
    BY <1>1, <1>3, <2>1, <2>2, <2>7, <2>8
    DEF RegistriesInv, LateAddsFindIt, OrdersAreWhole, Adds, InHand, SameOrder, OthersWait
  <2>13. ClonedFromWhereNamed'
    BY <1>3, <2>2, <2>7, <2>8 DEF RegistriesInv, ClonedFromWhereNamed
  <2> QED
    BY <2>9, <2>11, <2>12, <2>13
<1> QED
  BY <1>5, <1>6 DEF Remotes!CloneStarts

LEMMA CloneEndsKeeps ==
  ASSUME RegistriesInv, NEW c \in Command, Remotes!CloneEnds(c)
  PROVE  RegistriesInv'
<1> DEFINE n == order[c].name
<1>1. order[c] # None /\ order[c].verb = "add" /\ order[c].step = "cloning"
  BY DEF Remotes!CloneEnds, Remotes!Has
<1>2. n \in Registry /\ order[c].url \in Url
  BY <1>1 DEF RegistriesInv, OrdersAreWhole
<1>3. UNCHANGED <<store, temp, reset, raced>>
  BY DEF Remotes!CloneEnds
<1>4. SameOrder(c, "save") /\ OthersWait(c) /\ OrderTypes'
  BY <1>1, GoesOn DEF Remotes!CloneEnds, Steps, RegistriesInv, RegistryTypes, OrderTypes
<1>5. disk' = [disk EXCEPT ![n] = Remotes!Clone(order[c].url)]
  BY DEF Remotes!CloneEnds
<1>6. /\ disk'[n] = Remotes!Clone(order[c].url)
      /\ \A m \in Registry : m # n => disk'[m] = disk[m]
  BY <1>2, <1>5 DEF RegistriesInv, RegistryTypes
<1>7. RegistryTypes'
  BY <1>2, <1>3, <1>4, <1>5 DEF RegistriesInv, RegistryTypes, OrderTypes, Remotes!Directory
<1>8. OrdersAreWhole'
  BY <1>1, <1>4 DEF RegistriesInv, OrdersAreWhole, Remotes!Has, SameOrder, OthersWait
<1>9. \A o \in Command : o # c /\ Adds(o, "cloning") =>
        order[o].name \in Registry /\ order[o].name # n
  BY <1>1 DEF RegistriesInv, OneClonesAtATime, OrdersAreWhole, Adds, InHand
<1>10. OneClonesAtATime'
  <2>1. \A o \in Command : Adds(o, "cloning")' => o # c /\ order'[o] = order[o]
    BY <1>1, <1>4 DEF Adds, InHand, SameOrder, OthersWait
  <2>2. \A o \in Command : Adds(o, "cloning")' => disk'[order[o].name] = disk[order[o].name]
    BY <1>6, <1>9, <2>1 DEF Adds, InHand
  <2> QED
    BY <2>1, <2>2 DEF RegistriesInv, OneClonesAtATime, Adds, InHand
<1>11. SUFFICES ASSUME ~raced
                PROVE  OneWritesAtATime' /\ WhatIsSavedIsThere' /\ LateAddsFindIt'
                       /\ ClonedFromWhereNamed'
  BY <1>3, <1>7, <1>8, <1>10 DEF RegistriesInv
<1>12. store[n] = None
  BY <1>1, <1>11 DEF RegistriesInv, LateAddsFindIt, Adds, InHand
<1>13. OneWritesAtATime'
  BY <1>1, <1>3, <1>4, <1>11
  DEF RegistriesInv, OneWritesAtATime, InHand, SameOrder, OthersWait, Remotes!Changed
<1>14. \A o \in Command : Adds(o, "save") \/ Adds(o, "place") =>
         order[o].name \in Registry /\ order[o].name # n
  BY <1>1, <1>11 DEF RegistriesInv, WhatIsSavedIsThere, OrdersAreWhole, Adds, InHand
<1>15. WhatIsSavedIsThere'
  BY <1>1, <1>4, <1>6, <1>9, <1>11, <1>14
  DEF RegistriesInv, WhatIsSavedIsThere, Adds, InHand, SameOrder, OthersWait, Remotes!Cut,
      Remotes!Clone
<1>16. LateAddsFindIt'
  BY <1>1, <1>3, <1>4, <1>6, <1>11, <1>12
  DEF RegistriesInv, LateAddsFindIt, OrdersAreWhole, Adds, InHand, SameOrder, OthersWait
<1>17. ClonedFromWhereNamed'
  BY <1>3, <1>6, <1>11, <1>12 DEF RegistriesInv, ClonedFromWhereNamed
<1> QED
  BY <1>13, <1>15, <1>16, <1>17

LEMMA CloneFailsKeeps ==
  ASSUME RegistriesInv, NEW c \in Command, Remotes!CloneFails(c)
  PROVE  RegistriesInv'
<1> DEFINE n == order[c].name
<1>1. order[c] # None /\ order[c].verb = "add" /\ order[c].step = "cloning"
  BY DEF Remotes!CloneFails, Remotes!Has
<1>2. n \in Registry
  BY <1>1 DEF RegistriesInv, OrdersAreWhole
<1>3. UNCHANGED <<store, temp, reset, raced>>
  BY DEF Remotes!CloneFails
<1>4. order'[c] = None /\ OthersWait(c) /\ OrderTypes'
  BY GoesAway DEF Remotes!CloneFails, RegistriesInv, RegistryTypes, OrderTypes
<1>5. disk' = [disk EXCEPT ![n] = Remotes!Nothing]
  BY DEF Remotes!CloneFails
<1>6. /\ disk'[n] = Remotes!Nothing
      /\ \A m \in Registry : m # n => disk'[m] = disk[m]
  BY <1>2, <1>5 DEF RegistriesInv, RegistryTypes
<1>7. RegistryTypes'
  BY <1>2, <1>3, <1>4, <1>5 DEF RegistriesInv, RegistryTypes, OrderTypes, Remotes!Directory
<1>8. OrdersAreWhole'
  BY <1>4 DEF RegistriesInv, OrdersAreWhole, Remotes!Has, OthersWait
<1>9. \A o \in Command : o # c /\ Adds(o, "cloning") =>
        order[o].name \in Registry /\ order[o].name # n
  BY <1>1 DEF RegistriesInv, OneClonesAtATime, OrdersAreWhole, Adds, InHand
<1>10. OneClonesAtATime'
  BY <1>4, <1>6, <1>9
  DEF RegistriesInv, OneClonesAtATime, Adds, InHand, OthersWait, Remotes!Cut, Remotes!Clone
<1>11. SUFFICES ASSUME ~raced
                PROVE  OneWritesAtATime' /\ WhatIsSavedIsThere' /\ LateAddsFindIt'
                       /\ ClonedFromWhereNamed'
  BY <1>3, <1>7, <1>8, <1>10 DEF RegistriesInv
<1>12. store[n] = None
  BY <1>1, <1>11 DEF RegistriesInv, LateAddsFindIt, Adds, InHand
<1>13. OneWritesAtATime'
  BY <1>3, <1>4, <1>11
  DEF RegistriesInv, OneWritesAtATime, InHand, OthersWait, Remotes!Changed
<1>14. \A o \in Command : Adds(o, "save") \/ Adds(o, "place") =>
         order[o].name \in Registry /\ order[o].name # n
  BY <1>1, <1>11 DEF RegistriesInv, WhatIsSavedIsThere, OrdersAreWhole, Adds, InHand
<1>15. WhatIsSavedIsThere'
  <2>1. \A o \in Command : Adds(o, "cloning")' \/ Adds(o, "save")' \/ Adds(o, "place")' =>
          o # c /\ order'[o] = order[o]
    BY <1>4 DEF Adds, InHand, OthersWait
  <2>2. \A o \in Command : Adds(o, "save")' \/ Adds(o, "place")' =>
          disk'[order[o].name] = disk[order[o].name]
    BY <1>6, <1>14, <2>1 DEF Adds, InHand
  <2> QED
    BY <1>11, <2>1, <2>2 DEF RegistriesInv, WhatIsSavedIsThere, Adds, InHand
<1>16. LateAddsFindIt'
  BY <1>3, <1>4, <1>6, <1>11, <1>12
  DEF RegistriesInv, LateAddsFindIt, OrdersAreWhole, Adds, InHand, OthersWait
<1>17. ClonedFromWhereNamed'
  BY <1>3, <1>6, <1>11, <1>12 DEF RegistriesInv, ClonedFromWhereNamed
<1> QED
  BY <1>13, <1>15, <1>16, <1>17

\* What is reset lies in the cache, and has the origin it had.
LEMMA UpdateResetsKeeps ==
  ASSUME RegistriesInv, NEW c \in Command, Remotes!UpdateResets(c)
  PROVE  RegistriesInv'
<1> DEFINE n == order[c].name
<1>1. order[c] # None /\ order[c].verb = "update" /\ order[c].step = "fetched"
  BY DEF Remotes!UpdateResets, Remotes!Has
<1>2. n \in Registry /\ order[c].read[n].path = "own"
  BY <1>1 DEF RegistriesInv, OrdersAreWhole, Remotes!Has
<1>3. UNCHANGED <<store, temp, raced>>
  BY DEF Remotes!UpdateResets
<1>4. OrderTypes
  BY DEF RegistriesInv, RegistryTypes, OrderTypes
<1>5. /\ Remotes!Ends(c) \/ Remotes!Goes(c, "next")
      /\ \/ UNCHANGED <<disk, reset>>
         \/ /\ disk[n].is \in {"cut", "clone"}
            /\ reset' = reset \cup {n}
            /\ disk' = [disk EXCEPT ![n] = Remotes!Clone(disk[n].url)]
  BY <1>2 DEF Remotes!UpdateResets, Remotes!Repository
<1>6. OthersWait(c) /\ OrderTypes' /\ (order'[c] = None \/ SameOrder(c, "next"))
  BY <1>1, <1>4, <1>5, GoesAway, GoesOn DEF Steps
<1>7. /\ \A m \in Registry : m # n => disk'[m] = disk[m]
      /\ \/ disk'[n] = disk[n]
         \/ disk[n].is \in {"cut", "clone"} /\ disk'[n] = Remotes!Clone(disk[n].url)
  BY <1>2, <1>5 DEF RegistriesInv, RegistryTypes
<1>8. ASSUME disk[n].is \in {"cut", "clone"}
      PROVE  /\ disk[n].url \in Url
             /\ disk[n] \in {Remotes!Cut(disk[n].url), Remotes!Clone(disk[n].url)}
  BY <1>2, <1>8 DEF RegistriesInv, RegistryTypes, Remotes!Directory, Remotes!Nothing,
                    Remotes!Empty, Remotes!Stray, Remotes!Cut, Remotes!Clone
<1>9. RegistryTypes'
  <2>1. disk' \in [Registry -> Remotes!Directory]
    BY <1>2, <1>5, <1>8 DEF RegistriesInv, RegistryTypes, Remotes!Directory
  <2> QED
    BY <1>3, <1>6, <2>1 DEF RegistriesInv, RegistryTypes, OrderTypes
<1>10. reset' \subseteq Registry
  BY <1>2, <1>5 DEF RegistriesInv
<1>11. OrdersAreWhole'
  BY <1>1, <1>6 DEF RegistriesInv, OrdersAreWhole, Remotes!Has, SameOrder, OthersWait
<1>12. ASSUME NEW m \in Registry, NEW u,
              disk[m] \in {Remotes!Cut(u), Remotes!Clone(u)}
       PROVE  disk'[m] \in {Remotes!Cut(u), Remotes!Clone(u)}
  BY <1>7, <1>12 DEF Remotes!Cut, Remotes!Clone
<1>13. \A o \in Command : Adds(o, "cloning")' \/ Adds(o, "save")' \/ Adds(o, "place")'
                           \/ Adds(o, "look")' \/ Adds(o, "clone")' =>
         o # c /\ order'[o] = order[o] /\ order[o].name \in Registry
  BY <1>1, <1>6 DEF RegistriesInv, OrdersAreWhole, Adds, InHand, SameOrder, OthersWait
<1>14. OneClonesAtATime'
  BY <1>12, <1>13 DEF RegistriesInv, OneClonesAtATime, Adds, InHand
<1>15. SUFFICES ASSUME ~raced
                PROVE  OneWritesAtATime' /\ WhatIsSavedIsThere' /\ LateAddsFindIt'
                       /\ ClonedFromWhereNamed'
  BY <1>3, <1>9, <1>10, <1>11, <1>14 DEF RegistriesInv
<1>16. OneWritesAtATime'
  BY <1>1, <1>3, <1>6, <1>15
  DEF RegistriesInv, OneWritesAtATime, InHand, SameOrder, OthersWait, Remotes!Changed
<1>17. WhatIsSavedIsThere'
  BY <1>12, <1>13, <1>15 DEF RegistriesInv, WhatIsSavedIsThere, Adds, InHand
<1>18. LateAddsFindIt'
  BY <1>3, <1>7, <1>13, <1>15 DEF RegistriesInv, LateAddsFindIt, Adds, InHand, Remotes!Clone
<1>19. ClonedFromWhereNamed'
  BY <1>3, <1>7, <1>15 DEF RegistriesInv, ClonedFromWhereNamed, Remotes!Clone
<1> QED
  BY <1>16, <1>17, <1>18, <1>19

\* No command is in hand when somebody puts a hand on the cache.
LEMMA ByHandKeeps ==
  ASSUME RegistriesInv, NEW n \in Registry, Remotes!ByHand(n)
  PROVE  RegistriesInv'
<1>1. \A c \in Command : order[c] = None /\ order'[c] = None
  BY DEF Remotes!ByHand
<1>2. UNCHANGED <<store, temp, order, reset, raced>>
  BY DEF Remotes!ByHand
<1>3. /\ RegistryTypes'
      /\ \A m \in Registry : disk'[m] = disk[m] \/ disk'[m].is \notin {"cut", "clone"}
  BY <1>2 DEF Remotes!ByHand, RegistriesInv, RegistryTypes, Remotes!Directory, Remotes!Nothing,
              Remotes!Empty, Remotes!Stray
<1>4. OrdersAreWhole' /\ OneClonesAtATime'
  BY <1>1 DEF OrdersAreWhole, OneClonesAtATime, Adds, InHand, Remotes!Has
<1>5. OneWritesAtATime' /\ WhatIsSavedIsThere' /\ LateAddsFindIt'
  BY <1>1 DEF OneWritesAtATime, WhatIsSavedIsThere, LateAddsFindIt, Adds, InHand
<1>6. ~raced => ClonedFromWhereNamed'
  BY <1>2, <1>3 DEF RegistriesInv, ClonedFromWhereNamed
<1> QED
  BY <1>2, <1>3, <1>4, <1>5, <1>6 DEF RegistriesInv

LEMMA RegistriesInvInit == Remotes!RegistriesInit => RegistriesInv
<1> SUFFICES ASSUME Remotes!RegistriesInit PROVE RegistriesInv
  OBVIOUS
<1>1. RegistryTypes
  BY DEF Remotes!RegistriesInit, RegistryTypes, Remotes!Directory
<1>2. \A c \in Command : order[c] = None
  BY DEF Remotes!RegistriesInit
<1>3. \A n \in Registry : disk[n].is = "nothing"
  BY DEF Remotes!RegistriesInit, Remotes!Nothing
<1>4. reset = {}
  BY DEF Remotes!RegistriesInit
<1> QED
  BY <1>1, <1>2, <1>3, <1>4
  DEF RegistriesInv, OrdersAreWhole, OneClonesAtATime, OneWritesAtATime, WhatIsSavedIsThere,
      LateAddsFindIt, ClonedFromWhereNamed, Adds, InHand, Remotes!Has

LEMMA RegistriesInvNext ==
  RegistriesInv /\ [Remotes!RegistriesNext]_(Remotes!registryVars) => RegistriesInv'
<1> SUFFICES ASSUME RegistriesInv, [Remotes!RegistriesNext]_(Remotes!registryVars)
             PROVE  RegistriesInv'
  OBVIOUS
<1>1. OrderTypes
  BY DEF RegistriesInv, RegistryTypes, OrderTypes
<1>2. ASSUME NEW c \in Command, NEW n \in Registry, NEW u \in Url, Remotes!AddReads(c, n, u)
      PROVE  RegistriesInv'
  <2>1. Remotes!Given(c, "add", n, u, "look", {}) /\ store[n] = None
    BY <1>2 DEF Remotes!AddReads
  <2>2. /\ OthersWait(c) /\ OrderTypes' /\ UNCHANGED <<store, temp, disk, reset, raced>>
        /\ order'[c].name = n /\ order'[c].url = u /\ order'[c].step = "look"
    BY <2>1, GivenIsAnOrder DEF Steps
  <2>3. Harmless(c)
    BY <2>1, <2>2 DEF Harmless
  <2> QED
    BY <2>2, <2>3, HarmlessStepKeeps
<1>3. ASSUME NEW c \in Command, NEW n \in Registry, Remotes!RemoveReads(c, n)
      PROVE  RegistriesInv'
  <2>1. Remotes!Given(c, "remove", n, None, "save", {})
    BY <1>3 DEF Remotes!RemoveReads
  <2>2. /\ OthersWait(c) /\ OrderTypes' /\ UNCHANGED <<store, temp, disk, reset, raced>>
        /\ order'[c].verb = "remove" /\ order'[c].step = "save"
    BY <2>1, GivenIsAnOrder DEF Steps
  <2> QED
    BY <2>2, HarmlessStepKeeps DEF Harmless
<1>4. ASSUME NEW c \in Command, NEW names \in SUBSET Registry, Remotes!UpdateReads(c, names)
      PROVE  RegistriesInv'
  <2>1. Remotes!Given(c, "update", None, None, "next", names)
    BY <1>4 DEF Remotes!UpdateReads
  <2>2. /\ OthersWait(c) /\ OrderTypes' /\ UNCHANGED <<store, temp, disk, reset, raced>>
        /\ order'[c].verb = "update" /\ order'[c].step = "next"
    BY <2>1, GivenIsAnOrder DEF Steps
  <2> QED
    BY <2>2, HarmlessStepKeeps DEF Harmless
<1>5. ASSUME NEW c \in Command, NEW n \in Registry, Remotes!UpdateFetches(c, n)
      PROVE  RegistriesInv'
  <2>1. UNCHANGED <<store, temp, disk, reset, raced>>
    BY <1>5 DEF Remotes!UpdateFetches
  <2>2. CASE Remotes!Ends(c)
    BY <1>1, <2>1, <2>2, GoesAway, HarmlessStepKeeps DEF Harmless
  <2>3. CASE /\ order[c].read[n].path = "own"
             /\ order' = [order EXCEPT ![c].step = "fetched", ![c].name = n, ![c].left = @ \ {n}]
    <3>1. order[c] \in Remotes!Order /\ order[c].verb = "update"
      BY <1>1, <1>5 DEF OrderTypes, Remotes!UpdateFetches, Remotes!Has
    <3>2. order'[c] = [order[c] EXCEPT !.step = "fetched", !.name = n, !.left = @ \ {n}]
      BY <1>1, <2>3 DEF OrderTypes
    <3>3. /\ order'[c] \in Remotes!Order /\ order'[c].step = "fetched" /\ order'[c].name = n
          /\ order'[c].verb = "update" /\ order'[c].read = order[c].read
      BY <3>1, <3>2 DEF Remotes!Order
    <3>4. OthersWait(c) /\ OrderTypes'
      BY <1>1, <2>3, <3>3 DEF OrderTypes, OthersWait
    <3> QED
      BY <2>1, <2>3, <3>3, <3>4, HarmlessStepKeeps DEF Harmless
  <2> QED
    BY <1>5, <2>2, <2>3 DEF Remotes!UpdateFetches, Remotes!Guarded
<1>6. ASSUME NEW c \in Command, Remotes!UpdateFails(c) \/ Remotes!Killed(c)
      PROVE  RegistriesInv'
  <2>1. Remotes!Ends(c) /\ UNCHANGED <<store, temp, disk, reset, raced>>
    BY <1>6 DEF Remotes!UpdateFails, Remotes!Killed
  <2> QED
    BY <1>1, <2>1, GoesAway, HarmlessStepKeeps DEF Harmless
<1>7. CASE UNCHANGED (Remotes!registryVars)
  BY <1>7 DEF Remotes!registryVars, RegistriesInv, RegistryTypes, OrdersAreWhole, OneClonesAtATime,
              OneWritesAtATime, WhatIsSavedIsThere, LateAddsFindIt, ClonedFromWhereNamed, Adds,
              InHand, Remotes!Has, Remotes!Changed, Remotes!Cut, Remotes!Clone
<1> QED
  BY <1>2, <1>3, <1>4, <1>5, <1>6, <1>7, SaveKeeps, PlaceKeeps, AddLooksKeeps, CloneStartsKeeps,
     CloneEndsKeeps, CloneFailsKeeps, UpdateResetsKeeps, ByHandKeeps
  DEF Remotes!RegistriesNext

\* Every reachable state satisfies the invariant.
THEOREM RegistriesInvariant == Remotes!RegistriesSpec => []RegistriesInv
  BY RegistriesInvInit, RegistriesInvNext, PTL DEF Remotes!RegistriesSpec

\* The file, the clones, the commands under way and what was reset keep their
\* types.
THEOREM RegistriesTypes == Remotes!RegistriesSpec => []Remotes!RegistriesTypeOK
<1>1. RegistriesInv => Remotes!RegistriesTypeOK
  BY DEF RegistriesInv, RegistryTypes, Remotes!RegistriesTypeOK
<1> QED
  BY <1>1, RegistriesInvariant, PTL

\* No update resets a working tree that is not a clone in the cache, however the
\* file came to be, whatever lies in a clone's place, and however many commands
\* overlap (remote.rs, guard_cache_path and the --git-dir of every git).
THEOREM UpdatesSpareTheOperator == Remotes!RegistriesSpec => []OperatorsWorkIsSafe
<1>1. RegistriesInv => OperatorsWorkIsSafe
  BY DEF RegistriesInv, OperatorsWorkIsSafe, Remotes!OperatorsWorkIsSafe
<1> QED
  BY <1>1, RegistriesInvariant, PTL

\* A registry serves what it names, whatever was added, removed, cut short or
\* deleted before, unless two commands have overlapped on it (registry.rs, add
\* and reuse).
THEOREM RegistriesServeWhatTheyName == Remotes!RegistriesSpec => []ServesWhatWasNamed
<1>1. RegistriesInv => ServesWhatWasNamed
  BY DEF RegistriesInv, ClonedFromWhereNamed, ServesWhatWasNamed, Remotes!ServesWhatWasNamed,
         Remotes!Offers
<1> QED
  BY <1>1, RegistriesInvariant, PTL
-----------------------------------------------------------------------------
(* The rates: LaunchTelemetry *)

Engine == [id : Nat, port : EnginePort, born : Nat, tokens : Nat]
Scrape == [scrape : Engine, when : Nat, crossed : BOOLEAN]
PollRecord ==
  [at : {"idle", "asked", "found", "scraped"}, recipe : Recipes \cup {Absent},
   port : EnginePort \cup {Absent}, when : Nat, scrape : Engine \cup {Absent},
   crossed : BOOLEAN]

TelemetryTypes ==
  /\ engine \in [Recipes -> Engine \cup {Absent}]
  /\ current \in Recipes \cup {Absent}
  /\ last \in Scrape \cup {Absent}
  /\ poll \in [Pages -> PollRecord]
  /\ \A p \in Pages :
       /\ Telemetry!InFlight(p) => poll[p].recipe \in Recipes
       /\ poll[p].at = "scraped" => poll[p].scrape \in Engine
  /\ now \in Nat /\ launches \in Nat

\* The ports of the engines that run are their own.
PortsAreOwn ==
  \A r, q \in Telemetry!Running : engine[r].port = engine[q].port => r = q

\* What was scraped at `when` for r: the engine r still has, or one that r no
\* longer has, or one that was not there yet.
WasOf(x, when, r) ==
  \/ x.born >= when
  \/ r \in Telemetry!Running => engine[r].id = x.id \/ engine[r].born >= when

\* Two scrapes are of one engine, or one of them is of an engine that was
\* started since one of the two was asked for.
Alike(x, w, y, v) ==
  x.id = y.id \/ x.born >= w \/ y.born >= v \/ x.born >= v \/ y.born >= w

\* A poll that nothing crossed is for the recipe that was asked for last.
UncrossedIsCurrent ==
  \A p \in Pages : Telemetry!InFlight(p) /\ ~poll[p].crossed => poll[p].recipe = current

\* On the port a poll has found is its recipe's engine, or one started since.
FoundIsOf ==
  \A p \in Pages, q \in Telemetry!Running :
    poll[p].at = "found" /\ engine[q].port = poll[p].port =>
      q = poll[p].recipe \/ engine[q].born >= poll[p].when

TimesArePast ==
  /\ \A p \in Pages : poll[p].when <= now
  /\ last # Absent => last.when <= now

ScrapedIsOf ==
  \A p \in Pages : poll[p].at = "scraped" =>
    /\ WasOf(poll[p].scrape, poll[p].when, poll[p].recipe)
    /\ \A q \in Pages : poll[q].at = "scraped" /\ poll[q].recipe = poll[p].recipe =>
         Alike(poll[p].scrape, poll[p].when, poll[q].scrape, poll[q].when)

LastIsOf ==
  last # Absent /\ ~last.crossed =>
    /\ WasOf(last.scrape, last.when, current)
    /\ \A p \in Pages : poll[p].at = "scraped" /\ poll[p].recipe = current =>
         Alike(last.scrape, last.when, poll[p].scrape, poll[p].when)

TelemetryInv ==
  /\ TelemetryTypes /\ PortsAreOwn /\ UncrossedIsCurrent /\ FoundIsOf /\ TimesArePast
  /\ ScrapedIsOf /\ LastIsOf
  /\ RateIsOfOneEngine

\* An engine is gone, is the one it was, or has just come.
MovesOn(r) ==
  \/ engine'[r] = Absent
  \/ /\ engine[r] # Absent
     /\ engine'[r].id = engine[r].id /\ engine'[r].port = engine[r].port
     /\ engine'[r].born = engine[r].born
  \/ engine'[r].born >= now

LEMMA EnginesMoveOn ==
  ASSUME TelemetryInv, \A r \in Recipes : MovesOn(r), UNCHANGED <<current, last, poll>>,
         engine' \in [Recipes -> Engine \cup {Absent}], now' \in Nat, now' >= now,
         launches' \in Nat, PortsAreOwn', Telemetry!NoAnswer
  PROVE  TelemetryInv'
<1>1. TelemetryTypes'
  BY DEF TelemetryInv, TelemetryTypes, Telemetry!InFlight
<1>2. /\ engine \in [Recipes -> Engine \cup {Absent}] /\ now \in Nat
      /\ \A p \in Pages : poll[p] \in PollRecord
      /\ \A p \in Pages : poll[p].at = "scraped" => poll[p].scrape \in Engine
      /\ last # Absent => last \in Scrape
  BY DEF TelemetryInv, TelemetryTypes
<1>3. \A r \in Telemetry!Running' :
        /\ r \in Recipes /\ engine'[r] \in Engine
        /\ \/ engine'[r].born >= now
           \/ /\ r \in Telemetry!Running /\ engine[r] \in Engine
              /\ engine'[r].id = engine[r].id /\ engine'[r].port = engine[r].port
              /\ engine'[r].born = engine[r].born
  BY <1>2 DEF MovesOn, Telemetry!Running
<1>4. ASSUME NEW x, NEW w \in Nat, w <= now, NEW r, WasOf(x, w, r)
      PROVE  WasOf(x, w, r)'
  BY <1>2, <1>3, <1>4 DEF WasOf, Engine
<1>5. TimesArePast'
  BY <1>2 DEF TelemetryInv, TimesArePast, PollRecord, Scrape
<1>6. FoundIsOf'
  <2> SUFFICES ASSUME NEW p \in Pages, NEW q \in Telemetry!Running',
                      poll[p].at = "found", engine'[q].port = poll[p].port
               PROVE  q = poll[p].recipe \/ engine'[q].born >= poll[p].when
    BY DEF FoundIsOf
  <2>1. poll[p].when \in Nat /\ poll[p].when <= now
    BY <1>2 DEF TelemetryInv, TimesArePast, PollRecord
  <2> QED
    BY <1>2, <1>3, <2>1 DEF TelemetryInv, FoundIsOf, Engine
<1>7. ScrapedIsOf'
  <2>1. \A p \in Pages : poll[p].when \in Nat /\ poll[p].when <= now
    BY <1>2 DEF TelemetryInv, TimesArePast, PollRecord
  <2>2. \A p \in Pages : poll[p].at = "scraped" =>
          WasOf(poll[p].scrape, poll[p].when, poll[p].recipe)'
    BY <1>4, <2>1 DEF TelemetryInv, ScrapedIsOf
  <2> QED
    BY <2>2 DEF TelemetryInv, ScrapedIsOf, Alike
<1>8. LastIsOf'
  <2> SUFFICES ASSUME last # Absent, ~last.crossed
               PROVE  /\ WasOf(last.scrape, last.when, current)'
                      /\ \A p \in Pages : poll[p].at = "scraped" /\ poll[p].recipe = current =>
                           Alike(last.scrape, last.when, poll[p].scrape, poll[p].when)
    BY DEF LastIsOf, Alike
  <2>1. last.when \in Nat /\ last.when <= now
    BY <1>2 DEF TelemetryInv, TimesArePast, Scrape
  <2>2. WasOf(last.scrape, last.when, current)
    BY DEF TelemetryInv, LastIsOf
  <2>3. WasOf(last.scrape, last.when, current)'
    BY <1>4, <2>1, <2>2
  <2> QED
    BY <2>3 DEF TelemetryInv, LastIsOf
<1>9. UncrossedIsCurrent'
  BY DEF TelemetryInv, UncrossedIsCurrent, Telemetry!InFlight
<1>10. RateIsOfOneEngine'
  BY DEF Telemetry!NoAnswer, Telemetry!Nothing, RateIsOfOneEngine, Telemetry!RateIsOfOneEngine
<1> QED
  BY <1>1, <1>5, <1>6, <1>7, <1>8, <1>9, <1>10 DEF TelemetryInv

LEMMA EnginesKeep ==
  ASSUME TelemetryInv,
         \/ \E r \in Recipes :
              Telemetry!Stopped(r) \/ \E port \in EnginePort : Telemetry!Launched(r, port)
         \/ \E busy \in SUBSET Telemetry!Running : Telemetry!Tick(busy)
  PROVE  TelemetryInv'
<1>1. /\ engine \in [Recipes -> Engine \cup {Absent}] /\ now \in Nat /\ launches \in Nat
      /\ PortsAreOwn
  BY DEF TelemetryInv, TelemetryTypes
<1>2. ASSUME NEW r \in Recipes, Telemetry!Stopped(r)
      PROVE  TelemetryInv'
  <2>1. engine' = [engine EXCEPT ![r] = Absent] /\ UNCHANGED <<current, last, poll, now, launches>>
        /\ Telemetry!NoAnswer
    BY <1>2 DEF Telemetry!Stopped
  <2>2. \A q \in Recipes : engine'[q] = Absent \/ engine'[q] = engine[q]
    BY <1>1, <2>1
  <2>3. (\A q \in Recipes : MovesOn(q)) /\ PortsAreOwn'
    BY <1>1, <2>2 DEF MovesOn, PortsAreOwn, Telemetry!Running
  <2>4. engine' \in [Recipes -> Engine \cup {Absent}]
    BY <1>1, <2>1
  <2> QED
    BY <1>1, <2>1, <2>3, <2>4, EnginesMoveOn
<1>3. ASSUME NEW r \in Recipes, NEW port \in EnginePort, Telemetry!Launched(r, port)
      PROVE  TelemetryInv'
  <2> DEFINE new == [id |-> launches, port |-> port, born |-> now, tokens |-> 0]
  <2>1. /\ engine' = [engine EXCEPT ![r] = new] /\ UNCHANGED <<current, last, poll, now>>
        /\ launches' = launches + 1 /\ Telemetry!NoAnswer
        /\ \A q \in Telemetry!Running : engine[q].port # port
    BY <1>3 DEF Telemetry!Launched
  <2>2. new \in Engine
    BY <1>1 DEF Engine
  <2>3. engine' \in [Recipes -> Engine \cup {Absent}]
    BY <1>1, <2>1, <2>2
  <2>4. engine'[r] = new /\ \A q \in Recipes : q # r => engine'[q] = engine[q]
    BY <1>1, <2>1
  <2>5. new.port = port /\ new.born = now
    OBVIOUS
  <2> HIDE DEF new
  <2>6. \A q \in Recipes : MovesOn(q)
    BY <1>1, <2>4, <2>5 DEF MovesOn
  <2>7. PortsAreOwn'
    BY <1>1, <2>1, <2>4, <2>5 DEF PortsAreOwn, Telemetry!Running
  <2> QED
    BY <1>1, <2>1, <2>3, <2>6, <2>7, EnginesMoveOn
<1>4. ASSUME NEW busy \in SUBSET Telemetry!Running, Telemetry!Tick(busy)
      PROVE  TelemetryInv'
  <2>1. /\ now' = now + 1 /\ UNCHANGED <<current, last, poll, launches>> /\ Telemetry!NoAnswer
        /\ engine' = [r \in Recipes |-> IF r \in busy THEN [engine[r] EXCEPT !.tokens = @ + 1]
                                        ELSE engine[r]]
    BY <1>4 DEF Telemetry!Tick
  <2>2. ASSUME NEW r \in busy
        PROVE  /\ r \in Telemetry!Running /\ engine'[r] \in Engine
               /\ engine'[r].id = engine[r].id /\ engine'[r].port = engine[r].port
               /\ engine'[r].born = engine[r].born
    <3>1. r \in Recipes /\ r \in Telemetry!Running /\ engine[r] \in Engine
      BY <1>1 DEF Telemetry!Running
    <3>2. engine'[r] = [engine[r] EXCEPT !.tokens = @ + 1]
      BY <2>1, <3>1
    <3> QED
      BY <3>1, <3>2 DEF Engine
  <2>3. \A r \in Recipes \ busy : engine'[r] = engine[r]
    BY <2>1
  <2>4. engine' \in [Recipes -> Engine \cup {Absent}]
    <3>1. \A r \in Recipes : engine'[r] \in Engine \cup {Absent}
      BY <1>1, <2>2, <2>3
    <3> QED
      BY <2>1, <3>1
  <2>5. \A r \in Recipes : MovesOn(r)
    BY <1>1, <2>2, <2>3 DEF MovesOn, Telemetry!Running
  <2>6. \A r \in Recipes : r \in Telemetry!Running' =>
          r \in Telemetry!Running /\ engine'[r].port = engine[r].port
    BY <2>2, <2>3 DEF Telemetry!Running
  <2>7. PortsAreOwn'
    BY <1>1, <2>6 DEF PortsAreOwn, Telemetry!Running
  <2> QED
    BY <1>1, <2>1, <2>4, <2>5, <2>7, EnginesMoveOn
<1> QED
  BY <1>2, <1>3, <1>4
\* A page asks: nothing is scraped, and what the question crosses is marked.
LEMMA AskKeeps ==
  ASSUME TelemetryInv, NEW p \in Pages, NEW r \in Recipes, Telemetry!Ask(p, r)
  PROVE  TelemetryInv'
<1> DEFINE crossing == Telemetry!Crossing(r)
           asked1   == [Telemetry!Quiet EXCEPT !.at = "asked", !.recipe = r, !.crossed = crossing # {}]
<1>1. /\ poll \in [Pages -> PollRecord] /\ now \in Nat
      /\ current \in Recipes \cup {Absent} /\ last \in Scrape \cup {Absent}
  BY DEF TelemetryInv, TelemetryTypes
<1>2. /\ poll' = [q \in Pages |->
                  IF q = p THEN asked1
                  ELSE IF q \in crossing THEN [poll[q] EXCEPT !.crossed = TRUE] ELSE poll[q]]
      /\ UNCHANGED <<engine, now, launches>> /\ Telemetry!NoAnswer
      /\ current' = r
      /\ (current = r /\ last' = last) \/ last' = Absent
  BY DEF Telemetry!Ask
<1>3. /\ asked1 \in PollRecord /\ asked1.at = "asked" /\ asked1.recipe = r /\ asked1.when = 0
      /\ asked1.crossed = (crossing # {})
  BY DEF Telemetry!Quiet, PollRecord
<1> HIDE DEF asked1
<1>4. poll'[p] = asked1
  BY <1>2
<1>5. ASSUME NEW q \in Pages, q # p
      PROVE  /\ poll'[q] \in PollRecord
             /\ poll'[q].at = poll[q].at /\ poll'[q].recipe = poll[q].recipe
             /\ poll'[q].port = poll[q].port /\ poll'[q].when = poll[q].when
             /\ poll'[q].scrape = poll[q].scrape
             /\ poll'[q].crossed = (poll[q].crossed \/ q \in crossing)
  <2>1. poll[q] \in PollRecord
    BY <1>1
  <2>2. CASE q \in crossing
    <3>1. poll'[q] = [poll[q] EXCEPT !.crossed = TRUE]
      BY <1>2, <1>5, <2>2
    <3> QED
      BY <2>1, <2>2, <3>1 DEF PollRecord
  <2>3. CASE q \notin crossing
    <3>1. poll'[q] = poll[q]
      BY <1>2, <1>5, <2>3
    <3> QED
      BY <2>1, <2>3, <3>1 DEF PollRecord
  <2> QED
    BY <2>2, <2>3
<1>6. \A q \in Pages : q \in crossing <=> poll[q].at # "idle" /\ poll[q].recipe # r
  BY DEF Telemetry!Crossing, Telemetry!InFlight
<1> HIDE DEF crossing
<1>7. TelemetryTypes'
  <2>1. poll' \in [Pages -> PollRecord]
    BY <1>2, <1>3, <1>4, <1>5
  <2>2. \A q \in Pages :
          /\ poll'[q].at # "idle" => poll'[q].recipe \in Recipes
          /\ poll'[q].at = "scraped" => poll'[q].scrape \in Engine
    BY <1>3, <1>4, <1>5 DEF TelemetryInv, TelemetryTypes, Telemetry!InFlight
  <2> QED
    BY <1>1, <1>2, <2>1, <2>2 DEF TelemetryInv, TelemetryTypes, Telemetry!InFlight
<1>8. UncrossedIsCurrent'
  BY <1>2, <1>3, <1>4, <1>5, <1>6 DEF UncrossedIsCurrent, Telemetry!InFlight
<1>9. PortsAreOwn'
  BY <1>2 DEF TelemetryInv, PortsAreOwn, Telemetry!Running
<1>10. FoundIsOf'
  BY <1>2, <1>3, <1>4, <1>5 DEF TelemetryInv, FoundIsOf, Telemetry!Running
<1>11. TimesArePast'
  BY <1>1, <1>2, <1>3, <1>4, <1>5 DEF TelemetryInv, TimesArePast
<1>12. \A x, w, t : WasOf(x, w, t)' <=> WasOf(x, w, t)
  BY <1>2 DEF WasOf, Telemetry!Running
<1>13. \A q \in Pages : poll'[q].at = "scraped" =>
         /\ q # p /\ poll[q].at = "scraped" /\ poll'[q].recipe = poll[q].recipe
         /\ poll'[q].when = poll[q].when /\ poll'[q].scrape = poll[q].scrape
  BY <1>3, <1>4, <1>5
<1>14. ScrapedIsOf'
  BY <1>12, <1>13 DEF TelemetryInv, ScrapedIsOf, Alike
<1>15. LastIsOf'
  BY <1>2, <1>12, <1>13 DEF TelemetryInv, LastIsOf, Alike
<1>16. RateIsOfOneEngine'
  BY <1>2 DEF Telemetry!NoAnswer, Telemetry!Nothing, RateIsOfOneEngine, Telemetry!RateIsOfOneEngine
<1> QED
  BY <1>7, <1>8, <1>9, <1>10, <1>11, <1>14, <1>15, <1>16 DEF TelemetryInv

\* A poll that goes on, or ends without a reading.
LEMMA PollGoesOn ==
  ASSUME TelemetryInv, NEW p \in Pages, Telemetry!InFlight(p), NEW new \in PollRecord,
         poll' = [poll EXCEPT ![p] = new], UNCHANGED <<engine, current, last, now, launches>>,
         Telemetry!NoAnswer, new.when <= now,
         \/ new.at = "idle"
         \/ /\ new.at \in {"found", "scraped"}
            /\ new.recipe = poll[p].recipe /\ new.crossed = poll[p].crossed,
         new.at = "found" => \A q \in Telemetry!Running :
           engine[q].port = new.port => q = new.recipe \/ engine[q].born >= new.when,
         new.at = "scraped" =>
           /\ new.scrape \in Engine
           /\ \/ new.scrape.born >= new.when
              \/ new.recipe \in Telemetry!Running /\ new.scrape = engine[new.recipe]
  PROVE  TelemetryInv'
<1>1. /\ poll \in [Pages -> PollRecord] /\ now \in Nat
      /\ engine \in [Recipes -> Engine \cup {Absent}] /\ last \in Scrape \cup {Absent}
      /\ poll[p].recipe \in Recipes
      /\ \A q \in Pages : poll[q].at = "scraped" => poll[q].scrape \in Engine
  BY DEF TelemetryInv, TelemetryTypes
<1>2. poll'[p] = new /\ \A q \in Pages : q # p => poll'[q] = poll[q]
  BY <1>1
<1>3. TelemetryTypes'
  BY <1>1, <1>2 DEF TelemetryInv, TelemetryTypes, Telemetry!InFlight
<1>4. UncrossedIsCurrent'
  BY <1>2 DEF TelemetryInv, UncrossedIsCurrent, Telemetry!InFlight
<1>5. PortsAreOwn'
  BY DEF TelemetryInv, PortsAreOwn, Telemetry!Running
<1>6. FoundIsOf'
  BY <1>2 DEF TelemetryInv, FoundIsOf, Telemetry!Running
<1>7. TimesArePast'
  BY <1>1, <1>2 DEF TelemetryInv, TimesArePast
<1>8. \A x, w, t : WasOf(x, w, t)' <=> WasOf(x, w, t)
  BY DEF WasOf, Telemetry!Running
<1>9. new.at = "scraped" => WasOf(new.scrape, new.when, new.recipe)
  BY DEF WasOf
<1>10. ASSUME new.at = "scraped", NEW y \in Engine, NEW v \in Nat, WasOf(y, v, new.recipe)
       PROVE  Alike(new.scrape, new.when, y, v) /\ Alike(y, v, new.scrape, new.when)
  BY <1>10 DEF WasOf, Alike
<1>11. \A q \in Pages : q # p /\ poll[q].at = "scraped" /\ poll[q].recipe = new.recipe
                                /\ new.at = "scraped" =>
         /\ Alike(new.scrape, new.when, poll[q].scrape, poll[q].when)
         /\ Alike(poll[q].scrape, poll[q].when, new.scrape, new.when)
  <2> SUFFICES ASSUME NEW q \in Pages, q # p, poll[q].at = "scraped",
                      poll[q].recipe = new.recipe, new.at = "scraped"
               PROVE  /\ Alike(new.scrape, new.when, poll[q].scrape, poll[q].when)
                      /\ Alike(poll[q].scrape, poll[q].when, new.scrape, new.when)
    OBVIOUS
  <2>1. poll[q].scrape \in Engine /\ poll[q].when \in Nat
    BY <1>1 DEF PollRecord
  <2>2. WasOf(poll[q].scrape, poll[q].when, new.recipe)
    BY DEF TelemetryInv, ScrapedIsOf
  <2> QED
    BY <1>10, <2>1, <2>2
<1>12. new.at = "scraped" => Alike(new.scrape, new.when, new.scrape, new.when)
  BY DEF Alike
<1>13. ScrapedIsOf'
  <2> SUFFICES ASSUME NEW a \in Pages, poll'[a].at = "scraped"
               PROVE  /\ WasOf(poll'[a].scrape, poll'[a].when, poll'[a].recipe)
                      /\ \A q \in Pages : poll'[q].at = "scraped" /\ poll'[q].recipe = poll'[a].recipe =>
                           Alike(poll'[a].scrape, poll'[a].when, poll'[q].scrape, poll'[q].when)
    BY <1>8 DEF ScrapedIsOf, Alike
  <2> QED
    BY <1>2, <1>9, <1>11, <1>12 DEF TelemetryInv, ScrapedIsOf
<1>14. LastIsOf'
  <2> SUFFICES ASSUME last # Absent, ~last.crossed
               PROVE  /\ WasOf(last.scrape, last.when, current)
                      /\ \A q \in Pages : poll'[q].at = "scraped" /\ poll'[q].recipe = current =>
                           Alike(last.scrape, last.when, poll'[q].scrape, poll'[q].when)
    BY <1>8 DEF LastIsOf, Alike
  <2>1. WasOf(last.scrape, last.when, current)
    BY DEF TelemetryInv, LastIsOf
  <2>2. last.scrape \in Engine /\ last.when \in Nat
    BY <1>1 DEF Scrape
  <2>3. new.at = "scraped" /\ new.recipe = current =>
          Alike(last.scrape, last.when, new.scrape, new.when)
    BY <1>10, <2>1, <2>2
  <2> QED
    BY <1>2, <2>1, <2>3 DEF TelemetryInv, LastIsOf
<1>15. RateIsOfOneEngine'
  BY DEF Telemetry!NoAnswer, Telemetry!Nothing, RateIsOfOneEngine, Telemetry!RateIsOfOneEngine
<1> QED
  BY <1>3, <1>4, <1>5, <1>6, <1>7, <1>13, <1>14, <1>15 DEF TelemetryInv

LEMMA QuietIsAPoll == Telemetry!Quiet \in PollRecord /\ Telemetry!Quiet.at = "idle" /\ Telemetry!Quiet.when = 0
  BY DEF Telemetry!Quiet, PollRecord

LEMMA FindPortKeeps ==
  ASSUME TelemetryInv, NEW p \in Pages, Telemetry!FindPort(p)
  PROVE  TelemetryInv'
<1> DEFINE r == poll[p].recipe
           found == [poll[p] EXCEPT !.at = "found", !.port = engine[r].port, !.when = now]
<1>1. /\ poll[p].at = "asked" /\ Telemetry!InFlight(p)
      /\ UNCHANGED <<engine, current, last, now, launches>>
  BY DEF Telemetry!FindPort, Telemetry!InFlight
<1>2. /\ poll \in [Pages -> PollRecord] /\ now \in Nat /\ now >= 0
      /\ engine \in [Recipes -> Engine \cup {Absent}] /\ r \in Recipes
  BY <1>1 DEF TelemetryInv, TelemetryTypes
<1>3. CASE r \in Telemetry!Running
  <2>1. poll' = [poll EXCEPT ![p] = found] /\ Telemetry!NoAnswer
    BY <1>2, <1>3 DEF Telemetry!FindPort
  <2>2. engine[r] \in Engine
    BY <1>2, <1>3 DEF Telemetry!Running
  <2>3. /\ found \in PollRecord /\ found.at = "found" /\ found.recipe = r /\ found.when = now
        /\ found.crossed = poll[p].crossed /\ found.port = engine[r].port
    <3>1. engine[r].port \in EnginePort
      BY <2>2 DEF Engine
    <3>2. poll[p] \in PollRecord /\ now \in Nat
      BY <1>2
    <3>3. poll[p].recipe = r
      OBVIOUS
    <3> HIDE DEF r
    <3> QED
      BY <3>1, <3>2, <3>3 DEF PollRecord
  <2> HIDE DEF found
  <2>4. \A q \in Telemetry!Running :
          engine[q].port = found.port => q = found.recipe \/ engine[q].born >= found.when
    BY <1>3, <2>3 DEF TelemetryInv, PortsAreOwn
  <2>5. found.when <= now /\ found.at # "scraped"
    BY <1>2, <2>3
  <2>6. /\ found.at \in {"found", "scraped"}
        /\ found.recipe = poll[p].recipe /\ found.crossed = poll[p].crossed
    BY <2>3
  <2> HIDE DEF r
  <2> QED
    BY <1>1, <2>1, <2>3, <2>4, <2>5, <2>6, PollGoesOn
<1>4. CASE r \notin Telemetry!Running
  <2>1. poll' = [poll EXCEPT ![p] = Telemetry!Quiet] /\ Telemetry!NoAnswer
    BY <1>4 DEF Telemetry!FindPort, Telemetry!Answer, Telemetry!NoAnswer
  <2> QED
    BY <1>1, <1>2, <2>1, QuietIsAPoll, PollGoesOn
<1> QED
  BY <1>3, <1>4

LEMMA ScrapeItKeeps ==
  ASSUME TelemetryInv, NEW p \in Pages, Telemetry!ScrapeIt(p)
  PROVE  TelemetryInv'
<1>1. /\ poll[p].at = "found" /\ Telemetry!InFlight(p)
      /\ UNCHANGED <<engine, current, last, now, launches>>
  BY DEF Telemetry!ScrapeIt, Telemetry!InFlight
<1>2. /\ poll \in [Pages -> PollRecord] /\ now \in Nat /\ now >= 0
      /\ engine \in [Recipes -> Engine \cup {Absent}] /\ poll[p].recipe \in Recipes
      /\ poll[p].when <= now
  BY <1>1 DEF TelemetryInv, TelemetryTypes, TimesArePast
<1>3. ASSUME NEW r \in Telemetry!Running, engine[r].port = poll[p].port, Telemetry!NoAnswer,
             poll' = [poll EXCEPT ![p].at = "scraped", ![p].scrape = engine[r]]
      PROVE  TelemetryInv'
  <2> DEFINE new == [poll[p] EXCEPT !.at = "scraped", !.scrape = engine[r]]
  <2>1. poll' = [poll EXCEPT ![p] = new]
    BY <1>2, <1>3
  <2>2. engine[r] \in Engine
    BY <1>2 DEF Telemetry!Running
  <2>3. /\ new \in PollRecord /\ new.at = "scraped" /\ new.recipe = poll[p].recipe
        /\ new.when = poll[p].when /\ new.crossed = poll[p].crossed /\ new.scrape = engine[r]
    BY <1>2, <2>2 DEF PollRecord
  <2> HIDE DEF new
  <2>4. r = poll[p].recipe \/ engine[r].born >= poll[p].when
    BY <1>1, <1>3 DEF TelemetryInv, FoundIsOf
  <2>5. /\ new.at \in {"found", "scraped"} /\ new.at # "found" /\ new.when <= now
        /\ new.recipe = poll[p].recipe /\ new.crossed = poll[p].crossed
    BY <1>2, <2>3
  <2>6. /\ new.scrape \in Engine
        /\ \/ new.scrape.born >= new.when
           \/ new.recipe \in Telemetry!Running /\ new.scrape = engine[new.recipe]
    BY <1>3, <2>2, <2>3, <2>4
  <2> QED
    BY <1>1, <1>3, <2>1, <2>3, <2>5, <2>6, PollGoesOn
<1>4. CASE Telemetry!Answer(p, Telemetry!Nothing)
  <2>1. poll' = [poll EXCEPT ![p] = Telemetry!Quiet] /\ Telemetry!NoAnswer
    BY <1>4 DEF Telemetry!Answer, Telemetry!NoAnswer
  <2> QED
    BY <1>1, <1>2, <2>1, QuietIsAPoll, PollGoesOn
<1> QED
  BY <1>3, <1>4 DEF Telemetry!ScrapeIt

\* Two scrapes that are alike, taken for one recipe at two different times, make
\* a reading that is of one engine or says which exception it is.
LEMMA SampleKeeps ==
  ASSUME TelemetryInv, NEW p \in Pages, Telemetry!Sample(p)
  PROVE  TelemetryInv'
<1> DEFINE this == [scrape |-> poll[p].scrape, when |-> poll[p].when, crossed |-> poll[p].crossed]
           secs == IF last = Absent THEN 0 ELSE Telemetry!Window(last, this.when)
<1>1. /\ poll[p].at = "scraped" /\ Telemetry!InFlight(p)
      /\ UNCHANGED <<engine, current, now, launches>> /\ last' = this
      /\ poll' = [poll EXCEPT ![p] = Telemetry!Quiet]
      /\ shown' = IF secs = 0 THEN Telemetry!Nothing
                  ELSE [rate |-> Telemetry!Rate(last.scrape.tokens, this.scrape.tokens, secs),
                        window |-> secs, of |-> {last, this}]
  BY DEF Telemetry!Sample, Telemetry!InFlight, Telemetry!Answer
<1>2. /\ poll \in [Pages -> PollRecord] /\ now \in Nat /\ now >= 0
      /\ engine \in [Recipes -> Engine \cup {Absent}] /\ last \in Scrape \cup {Absent}
      /\ \A q \in Pages : poll[q].at = "scraped" => poll[q].scrape \in Engine
      /\ poll[p].when <= now
  BY <1>1 DEF TelemetryInv, TelemetryTypes, TimesArePast
<1>3. /\ this \in Scrape /\ this.scrape = poll[p].scrape /\ this.when = poll[p].when
      /\ this.crossed = poll[p].crossed
  BY <1>1, <1>2 DEF Scrape, PollRecord
<1>4. /\ poll'[p].at = "idle" /\ poll'[p].when = 0 /\ poll'[p] \in PollRecord
      /\ \A q \in Pages : q # p => poll'[q] = poll[q]
  BY <1>1, <1>2, QuietIsAPoll
<1>5. secs # 0 => last # Absent
  OBVIOUS
<1> HIDE DEF this, secs
<1>6. TelemetryTypes'
  <2>1. poll' \in [Pages -> PollRecord]
    BY <1>1, <1>2, QuietIsAPoll
  <2> QED
    BY <1>1, <1>3, <1>4, <2>1 DEF TelemetryInv, TelemetryTypes, Telemetry!InFlight
<1>7. UncrossedIsCurrent'
  BY <1>1, <1>4 DEF TelemetryInv, UncrossedIsCurrent, Telemetry!InFlight
<1>8. PortsAreOwn'
  BY <1>1 DEF TelemetryInv, PortsAreOwn, Telemetry!Running
<1>9. FoundIsOf'
  BY <1>1, <1>4 DEF TelemetryInv, FoundIsOf, Telemetry!Running
<1>10. TimesArePast'
  BY <1>1, <1>2, <1>3, <1>4 DEF TelemetryInv, TimesArePast
<1>11. \A x, w, t : WasOf(x, w, t)' <=> WasOf(x, w, t)
  BY <1>1 DEF WasOf, Telemetry!Running
<1>12. ScrapedIsOf'
  BY <1>4, <1>11 DEF TelemetryInv, ScrapedIsOf, Alike
<1>13. ~poll[p].crossed => poll[p].recipe = current
  BY <1>1 DEF TelemetryInv, UncrossedIsCurrent
<1>14. LastIsOf'
  <2> SUFFICES ASSUME ~this.crossed
               PROVE  /\ WasOf(this.scrape, this.when, current)
                      /\ \A q \in Pages : poll'[q].at = "scraped" /\ poll'[q].recipe = current =>
                           Alike(this.scrape, this.when, poll'[q].scrape, poll'[q].when)
    BY <1>1, <1>11 DEF LastIsOf, Alike
  <2> QED
    BY <1>1, <1>3, <1>4, <1>13 DEF TelemetryInv, ScrapedIsOf
<1>15. RateIsOfOneEngine'
  <2>1. CASE secs = 0
    BY <1>1, <2>1 DEF Telemetry!Nothing, RateIsOfOneEngine, Telemetry!RateIsOfOneEngine
  <2>2. CASE secs # 0
    <3>1. last # Absent /\ last \in Scrape /\ shown'.of = {last, this}
      BY <1>1, <1>2, <1>5, <2>2
    <3>2. CASE last.crossed \/ this.crossed
      BY <3>1, <3>2 DEF RateIsOfOneEngine, Telemetry!RateIsOfOneEngine
    <3>3. CASE ~last.crossed /\ ~this.crossed
      <4>1. Alike(last.scrape, last.when, this.scrape, this.when)
        BY <1>1, <1>3, <1>13, <3>1, <3>3 DEF TelemetryInv, LastIsOf
      <4>2. CASE last.scrape.id = this.scrape.id
        BY <3>1, <4>2 DEF RateIsOfOneEngine, Telemetry!RateIsOfOneEngine
      <4>3. CASE last.scrape.id # this.scrape.id
        BY <3>1, <4>1, <4>3 DEF Alike, RateIsOfOneEngine, Telemetry!RateIsOfOneEngine
      <4> QED
        BY <4>2, <4>3
    <3> QED
      BY <3>2, <3>3
  <2> QED
    BY <2>1, <2>2
<1> QED
  BY <1>6, <1>7, <1>8, <1>9, <1>10, <1>12, <1>14, <1>15 DEF TelemetryInv

LEMMA TelemetryInvInit == Telemetry!TelemetryInit => TelemetryInv
<1> SUFFICES ASSUME Telemetry!TelemetryInit PROVE TelemetryInv
  OBVIOUS
<1>1. /\ \A r \in Recipes : engine[r] = Absent
      /\ last = Absent /\ shown.rate = Absent /\ now = 0
      /\ \A p \in Pages : poll[p].at = "idle" /\ poll[p].when = 0
  BY DEF Telemetry!TelemetryInit, Telemetry!Quiet, Telemetry!Nothing
<1>2. TelemetryTypes
  BY QuietIsAPoll DEF Telemetry!TelemetryInit, TelemetryTypes, Telemetry!InFlight
<1> QED
  BY <1>1, <1>2
  DEF TelemetryInv, PortsAreOwn, UncrossedIsCurrent, FoundIsOf, TimesArePast, ScrapedIsOf,
      LastIsOf, RateIsOfOneEngine, Telemetry!RateIsOfOneEngine, Telemetry!Running,
      Telemetry!InFlight

LEMMA TelemetryInvNext ==
  TelemetryInv /\ [Telemetry!TelemetryNext]_(Telemetry!telemetryVars) => TelemetryInv'
<1>1. ASSUME TelemetryInv, UNCHANGED (Telemetry!telemetryVars)
      PROVE  TelemetryInv'
  BY <1>1
  DEF Telemetry!telemetryVars, TelemetryInv, TelemetryTypes, PortsAreOwn, UncrossedIsCurrent,
      FoundIsOf, TimesArePast, ScrapedIsOf, LastIsOf, RateIsOfOneEngine,
      Telemetry!RateIsOfOneEngine, Telemetry!Running, Telemetry!InFlight, WasOf, Alike
<1> QED
  BY <1>1, EnginesKeep, AskKeeps, FindPortKeeps, ScrapeItKeeps, SampleKeeps
  DEF Telemetry!TelemetryNext

\* A rate a page shows is of one engine, but for the two exceptions it names,
\* for any number of pages and of models that come and go on any ports
\* (launchtelemetry/mod.rs, sample and its two locks).
THEOREM RatesAreOfOneEngine == Telemetry!TelemetrySpec => []RateIsOfOneEngine
<1>1. TelemetryInv => RateIsOfOneEngine
  BY DEF TelemetryInv
<1> QED
  BY <1>1, TelemetryInvInit, TelemetryInvNext, PTL DEF Telemetry!TelemetrySpec

-----------------------------------------------------------------------------
(* The background service: AgentService *)

StepRecord == [step : {"write", "verify", "join", "reload", "enable_now", "restart",
                       "linger", "bootout", "bootstrap", "stop", "register", "start",
                       "unregister", "disable_now", "remove"},
               fails : {"ends", "noted", "nothing"}]
CommandRecord == [verb : {"install", "uninstall", None}, inv : Svc!Invocation \cup {None},
                  join : BOOLEAN, dir : Dir \cup {None}, todo : Seq(StepRecord)]
ReportRecord == [what : {None, "installed", "removed"}, inv : Svc!Invocation \cup {None},
                 joined : Dir \cup {None}, lingers : BOOLEAN]
AgentRecord == [by : {"service", "hand"}, inv : Svc!Invocation,
                at : {"checks", "bind", "serving"}]

ServiceTypes ==
  /\ kind \in Supervisor
  /\ unit \in Svc!Invocation \cup {None} /\ loaded \in Svc!Invocation \cup {None}
  /\ enabled \in BOOLEAN /\ linger \in BOOLEAN /\ session \in BOOLEAN
  /\ agents \subseteq AgentRecord
  /\ again \in BOOLEAN /\ usable \subseteq Dir
  /\ cmd \in CommandRecord /\ told \in ReportRecord
  /\ count \in [commands : Nat, failures : Nat, deaf : BOOLEAN]

Hearing      == ~count.deaf
NoneServes   == Svc!Served = {}
Serving(inv) == \A a \in Svc!Served : a.inv = inv
Lingers      == kind = "systemd" /\ linger

\* The command in hand, from its first step, and how many of them are over.
Program(verb, join) ==
  IF verb = "install"
  THEN <<Svc!Must("write")>> \o Svc!InstallPlan \o <<Svc!Must("verify")>>
         \o (IF join THEN <<Svc!Must("join")>> ELSE <<>>)
  ELSE Svc!Teardown
Whole == Program(cmd.verb, cmd.join)
Done  == Len(Whole) - Len(cmd.todo)
Verified == Len(Svc!InstallPlan) + 2

InProgress ==
  cmd # Svc!Idle =>
    /\ session
    /\ cmd.verb \in {"install", "uninstall"}
    /\ Done \in 0..Len(Whole) /\ cmd.todo = SubSeq(Whole, Done + 1, Len(Whole))
    /\ cmd.verb = "install" => cmd.inv # None /\ cmd.dir = Svc!Resolve(cmd.inv.dir)

\* What the steps that are over have brought about, if none failed in silence.
Installing(d) ==
  /\ d >= 1 => unit = cmd.inv
  /\ kind = "systemd" => /\ d >= 2 => loaded = cmd.inv
                         /\ d >= 3 => enabled
                         /\ d >= 4 => Serving(cmd.inv)
  /\ kind = "launchd" => /\ Hearing /\ d = 2 => loaded = None /\ NoneServes
                         /\ d >= 3 => loaded = cmd.inv /\ Serving(cmd.inv)
  /\ kind = "task"    => /\ Hearing /\ d \in {2, 3} => NoneServes /\ ~again
                         /\ d >= 3 => loaded = cmd.inv
                         /\ Hearing /\ d >= 4 => Serving(cmd.inv)
Removing(d) ==
  /\ kind = "systemd" => /\ Hearing /\ d >= 1 => NoneServes /\ (again => loaded = None)
                         /\ d >= 2 => unit = None
                         /\ Hearing /\ d >= 3 => loaded = None
  /\ kind = "launchd" => /\ Hearing /\ d >= 1 => loaded = None /\ NoneServes
                         /\ d >= 2 => unit = None
  /\ kind = "task"    => /\ Hearing /\ d >= 1 => NoneServes /\ ~again
                         /\ Hearing /\ d >= 2 => loaded = None
                         /\ d >= 3 => unit = None
StepsTook ==
  /\ cmd # Svc!Idle /\ cmd.verb = "install" => Installing(Done)
  /\ cmd # Svc!Idle /\ cmd.verb = "uninstall" => Removing(Done)

\* Nothing runs for a supervisor that holds nothing; without a session none but
\* the task scheduler and a lingering systemd hold anything.
HoldsWhatRuns ==
  /\ Hearing /\ loaded = None => NoneServes
  /\ ~session /\ kind # "task" /\ ~Lingers => NoneServes /\ loaded = None

\* When a report stands, and what stands with it.
ReportIsOfTheLast ==
  /\ count.deaf => told.what = None
  /\ told.what = None => told.joined = None
  /\ told.lingers => Lingers
  /\ cmd # Svc!Idle /\ told.what # None =>
       /\ told.what = "installed" /\ cmd.verb = "install" /\ told.inv = cmd.inv
       /\ Done >= Verified
InstalledStands ==
  told.what = "installed" =>
    /\ told.inv # None /\ unit = told.inv /\ Serving(told.inv)
    /\ kind = "systemd" => enabled
    /\ session \/ kind = "task" \/ Lingers => loaded = told.inv
    /\ told.joined # None => told.joined = Svc!Resolve(told.inv.dir)
RemovedStands ==
  told.what = "removed" => NoneServes /\ loaded = None /\ unit = None

ServiceInv ==
  /\ ServiceTypes /\ InProgress /\ StepsTook /\ HoldsWhatRuns
  /\ ReportIsOfTheLast /\ InstalledStands /\ RemovedStands

\* The plans, step by step.
LEMMA PlansAreSteps ==
  /\ kind = "systemd" => /\ Svc!InstallPlan \in Seq(StepRecord) /\ Len(Svc!InstallPlan) = 4
                         /\ Svc!InstallPlan[1] = Svc!Must("reload")
                         /\ Svc!InstallPlan[2] = Svc!Must("enable_now")
                         /\ Svc!InstallPlan[3] = Svc!Must("restart")
                         /\ Svc!InstallPlan[4] = Svc!Noted("linger")
  /\ kind = "launchd" => /\ Svc!InstallPlan \in Seq(StepRecord) /\ Len(Svc!InstallPlan) = 2
                         /\ Svc!InstallPlan[1] = Svc!Deaf("bootout")
                         /\ Svc!InstallPlan[2] = Svc!Must("bootstrap")
  /\ kind = "task"    => /\ Svc!InstallPlan \in Seq(StepRecord) /\ Len(Svc!InstallPlan) = 3
                         /\ Svc!InstallPlan[1] = Svc!Deaf("stop")
                         /\ Svc!InstallPlan[2] = Svc!Must("register")
                         /\ Svc!InstallPlan[3] = Svc!Must("start")
<1>1. CASE kind = "systemd"
  BY <1>1 DEF Svc!InstallPlan, Svc!SystemdPlan, Svc!Must, Svc!Noted, StepRecord
<1>2. CASE kind = "launchd"
  BY <1>2 DEF Svc!InstallPlan, Svc!LaunchdPlan, Svc!Must, Svc!Deaf, StepRecord
<1>3. CASE kind = "task"
  BY <1>3 DEF Svc!InstallPlan, Svc!TaskPlan, Svc!Must, Svc!Deaf, StepRecord
<1> QED
  BY <1>1, <1>2, <1>3

LEMMA Joined ==
  ASSUME NEW S, NEW a \in Seq(S), NEW b \in Seq(S), NEW c, c = a \o b
  PROVE  /\ c \in Seq(S) /\ Len(c) = Len(a) + Len(b)
         /\ \A i \in 1..(Len(a) + Len(b)) : c[i] = IF i <= Len(a) THEN a[i] ELSE b[i - Len(a)]
<1>1. \A i \in 1..(Len(a) + Len(b)) : (a \o b)[i] = IF i <= Len(a) THEN a[i] ELSE b[i - Len(a)]
  BY ConcatProperties, Zenon
<1>2. a \o b \in Seq(S) /\ Len(a \o b) = Len(a) + Len(b)
  BY ConcatProperties
<1> QED
  BY <1>1, <1>2

LEMMA InstallProgram ==
  ASSUME NEW join \in BOOLEAN, Svc!InstallPlan \in Seq(StepRecord)
  PROVE  LET W == Program("install", join)
             p == Svc!InstallPlan
         IN
         /\ W \in Seq(StepRecord)
         /\ Len(W) = Len(p) + IF join THEN 3 ELSE 2
         /\ W[1] = Svc!Must("write")
         /\ \A i \in 1..Len(p) : W[i + 1] = p[i]
         /\ W[Len(p) + 2] = Svc!Must("verify")
         /\ join => W[Len(p) + 3] = Svc!Must("join")
<1> DEFINE p == Svc!InstallPlan
           a == <<Svc!Must("write")>>
           v == <<Svc!Must("verify")>>
           j == IF join THEN <<Svc!Must("join")>> ELSE <<>>
<1>1. /\ a \in Seq(StepRecord) /\ Len(a) = 1 /\ a[1] = Svc!Must("write")
      /\ v \in Seq(StepRecord) /\ Len(v) = 1 /\ v[1] = Svc!Must("verify")
  BY DEF Svc!Must, StepRecord
<1>2. j \in Seq(StepRecord) /\ Len(j) = (IF join THEN 1 ELSE 0) /\ (join => j[1] = Svc!Must("join"))
  <2>1. /\ <<Svc!Must("join")>> \in Seq(StepRecord) /\ Len(<<Svc!Must("join")>>) = 1
        /\ <<Svc!Must("join")>>[1] = Svc!Must("join")
    BY DEF Svc!Must, StepRecord
  <2>2. <<>> \in Seq(StepRecord) /\ Len(<<>>) = 0
    OBVIOUS
  <2> QED
    BY <2>1, <2>2
<1>3. Len(p) \in Nat /\ p \in Seq(StepRecord)
  BY LenProperties
<1> HIDE DEF a, v, j, p
<1> DEFINE b == a \o p
           c == b \o v
           d == c \o j
<1>4. /\ b \in Seq(StepRecord) /\ Len(b) = Len(a) + Len(p)
      /\ \A i \in 1..(Len(a) + Len(p)) : b[i] = IF i <= Len(a) THEN a[i] ELSE p[i - Len(a)]
  <2>1. a \in Seq(StepRecord) /\ p \in Seq(StepRecord) /\ b = a \o p
    BY <1>1, <1>3
  <2> HIDE DEF b
  <2> QED
    BY <2>1, Joined
<1> HIDE DEF b
<1>5. /\ c \in Seq(StepRecord) /\ Len(c) = Len(b) + Len(v)
      /\ \A i \in 1..(Len(b) + Len(v)) : c[i] = IF i <= Len(b) THEN b[i] ELSE v[i - Len(b)]
  <2>1. b \in Seq(StepRecord) /\ v \in Seq(StepRecord) /\ c = b \o v
    BY <1>1, <1>4
  <2> HIDE DEF c
  <2> QED
    BY <2>1, Joined
<1> HIDE DEF c
<1>6. /\ d \in Seq(StepRecord) /\ Len(d) = Len(c) + Len(j)
      /\ \A i \in 1..(Len(c) + Len(j)) : d[i] = IF i <= Len(c) THEN c[i] ELSE j[i - Len(c)]
  <2>1. c \in Seq(StepRecord) /\ j \in Seq(StepRecord) /\ d = c \o j
    BY <1>2, <1>5
  <2> HIDE DEF d
  <2> QED
    BY <2>1, Joined
<1> HIDE DEF d
<1>7. Program("install", join) = d
  BY DEF Program, a, v, j, p, b, c, d
<1>8. /\ Len(b) = 1 + Len(p) /\ b[1] = a[1]
      /\ \A i \in 1..Len(p) : b[i + 1] = p[i]
  BY <1>1, <1>3, <1>4 DEF b
<1>9. /\ Len(c) = 2 + Len(p) /\ c[1] = a[1] /\ c[Len(p) + 2] = v[1]
      /\ \A i \in 1..Len(p) : c[i + 1] = p[i]
  BY <1>1, <1>3, <1>5, <1>8
<1>10. /\ Len(d) = Len(p) + IF join THEN 3 ELSE 2
       /\ d[1] = a[1] /\ d[Len(p) + 2] = v[1]
       /\ \A i \in 1..Len(p) : d[i + 1] = p[i]
       /\ join => d[Len(p) + 3] = Svc!Must("join")
  BY <1>2, <1>3, <1>6, <1>9
<1> QED
  BY <1>1, <1>6, <1>7, <1>10 DEF p

LEMMA TeardownSteps ==
  /\ kind = "systemd" => /\ Svc!Teardown \in Seq(StepRecord) /\ Len(Svc!Teardown) = 3
                         /\ Svc!Teardown[1] = Svc!Deaf("disable_now")
                         /\ Svc!Teardown[2] = Svc!Must("remove")
                         /\ Svc!Teardown[3] = Svc!Deaf("reload")
  /\ kind = "launchd" => /\ Svc!Teardown \in Seq(StepRecord) /\ Len(Svc!Teardown) = 2
                         /\ Svc!Teardown[1] = Svc!Deaf("bootout")
                         /\ Svc!Teardown[2] = Svc!Must("remove")
  /\ kind = "task"    => /\ Svc!Teardown \in Seq(StepRecord) /\ Len(Svc!Teardown) = 3
                         /\ Svc!Teardown[1] = Svc!Deaf("stop")
                         /\ Svc!Teardown[2] = Svc!Deaf("unregister")
                         /\ Svc!Teardown[3] = Svc!Must("remove")
<1>1. CASE kind = "systemd"
  BY <1>1 DEF Svc!Teardown, Svc!Must, Svc!Deaf, StepRecord
<1>2. CASE kind = "launchd"
  BY <1>2 DEF Svc!Teardown, Svc!Must, Svc!Deaf, StepRecord
<1>3. CASE kind = "task"
  <2> DEFINE t == Svc!TaskDeactivate
             r == <<Svc!Must("remove")>>
  <2>1. Svc!Teardown = t \o r
    BY <1>3 DEF Svc!Teardown
  <2>2. /\ t \in Seq(StepRecord) /\ Len(t) = 2
        /\ t[1] = Svc!Deaf("stop") /\ t[2] = Svc!Deaf("unregister")
    BY DEF Svc!TaskDeactivate, Svc!Deaf, StepRecord
  <2>3. r \in Seq(StepRecord) /\ Len(r) = 1 /\ r[1] = Svc!Must("remove")
    BY DEF Svc!Must, StepRecord
  <2> HIDE DEF t, r
  <2>4. /\ Svc!Teardown \in Seq(StepRecord) /\ Len(Svc!Teardown) = Len(t) + Len(r)
        /\ \A i \in 1..(Len(t) + Len(r)) :
             Svc!Teardown[i] = IF i <= Len(t) THEN t[i] ELSE r[i - Len(t)]
    <3>1. t \in Seq(StepRecord) /\ r \in Seq(StepRecord) /\ Svc!Teardown = t \o r
      BY <2>1, <2>2, <2>3
    <3> QED
      BY <3>1, Joined
  <2> QED
    BY <1>3, <2>2, <2>3, <2>4
<1> QED
  BY <1>1, <1>2, <1>3

\* Which step is next, when d of the command are over.
IsNext(d, s) ==
  /\ cmd.verb = "install" /\ kind = "systemd" =>
       \/ d = 0 /\ s = Svc!Must("write")
       \/ d = 1 /\ s = Svc!Must("reload")
       \/ d = 2 /\ s = Svc!Must("enable_now")
       \/ d = 3 /\ s = Svc!Must("restart")
       \/ d = 4 /\ s = Svc!Noted("linger")
       \/ d = 5 /\ s = Svc!Must("verify")
       \/ d = 6 /\ s = Svc!Must("join")
  /\ cmd.verb = "install" /\ kind = "launchd" =>
       \/ d = 0 /\ s = Svc!Must("write")
       \/ d = 1 /\ s = Svc!Deaf("bootout")
       \/ d = 2 /\ s = Svc!Must("bootstrap")
       \/ d = 3 /\ s = Svc!Must("verify")
       \/ d = 4 /\ s = Svc!Must("join")
  /\ cmd.verb = "install" /\ kind = "task" =>
       \/ d = 0 /\ s = Svc!Must("write")
       \/ d = 1 /\ s = Svc!Deaf("stop")
       \/ d = 2 /\ s = Svc!Must("register")
       \/ d = 3 /\ s = Svc!Must("start")
       \/ d = 4 /\ s = Svc!Must("verify")
       \/ d = 5 /\ s = Svc!Must("join")
  /\ cmd.verb = "uninstall" /\ kind = "systemd" =>
       \/ d = 0 /\ s = Svc!Deaf("disable_now")
       \/ d = 1 /\ s = Svc!Must("remove")
       \/ d = 2 /\ s = Svc!Deaf("reload")
  /\ cmd.verb = "uninstall" /\ kind = "launchd" =>
       \/ d = 0 /\ s = Svc!Deaf("bootout")
       \/ d = 1 /\ s = Svc!Must("remove")
  /\ cmd.verb = "uninstall" /\ kind = "task" =>
       \/ d = 0 /\ s = Svc!Deaf("stop")
       \/ d = 1 /\ s = Svc!Deaf("unregister")
       \/ d = 2 /\ s = Svc!Must("remove")

LEMMA Kinds == ServiceTypes => kind \in {"systemd", "launchd", "task"}
  BY MachineAssumption DEF ServiceTypes, Svc!ServiceAssumption

LEMMA WholeIsSteps ==
  ASSUME ServiceTypes, NEW verb \in {"install", "uninstall"}, NEW join \in BOOLEAN
  PROVE  /\ Program(verb, join) \in Seq(StepRecord) /\ Len(Program(verb, join)) \in Nat
         /\ verb = "install" => Len(Program(verb, join)) >= Verified
<1>1. Svc!InstallPlan \in Seq(StepRecord) /\ Svc!Teardown \in Seq(StepRecord)
  BY Kinds, PlansAreSteps, TeardownSteps
<1>2. Len(Svc!InstallPlan) \in Nat
  BY <1>1, LenProperties
<1>3. CASE verb = "install"
  BY <1>1, <1>2, <1>3, InstallProgram DEF Verified
<1>4. CASE verb = "uninstall"
  <2>1. Program(verb, join) = Svc!Teardown
    BY <1>4 DEF Program
  <2> QED
    BY <1>1, <1>4, <2>1, LenProperties
<1> QED
  BY <1>3, <1>4

LEMMA NextStep ==
  ASSUME ServiceTypes, InProgress, cmd # Svc!Idle, cmd.todo # <<>>
  PROVE  /\ IsNext(Done, Head(cmd.todo))
         /\ Done \in Nat /\ Done < Len(Whole) /\ Len(Whole) \in Nat
         /\ Tail(cmd.todo) = SubSeq(Whole, Done + 2, Len(Whole))
         /\ Tail(cmd.todo) \in Seq(StepRecord) /\ Len(Tail(cmd.todo)) = Len(cmd.todo) - 1
         /\ Len(cmd.todo) \in Nat
<1>1. /\ cmd.verb \in {"install", "uninstall"} /\ cmd.join \in BOOLEAN
      /\ cmd.todo \in Seq(StepRecord)
      /\ Done \in 0..Len(Whole) /\ cmd.todo = SubSeq(Whole, Done + 1, Len(Whole))
  BY DEF ServiceTypes, CommandRecord, InProgress
<1>2. Whole \in Seq(StepRecord) /\ Len(Whole) \in Nat
  BY <1>1, WholeIsSteps DEF Whole
<1>3. Done # Len(Whole)
  <2> SUFFICES ASSUME Done = Len(Whole) PROVE FALSE
    OBVIOUS
  <2>1. Len(Whole) + 1 \in Int /\ Len(Whole) \in Int /\ Len(Whole) < Len(Whole) + 1
    BY <1>2
  <2>2. SubSeq(Whole, Len(Whole) + 1, Len(Whole)) = <<>>
    BY <2>1, SubSeqEmpty
  <2> QED
    BY <1>1, <2>2
<1>4. Done + 1 \in 1..Len(Whole) /\ Len(Whole) \in (Done + 1)..Len(Whole) /\ Done \in Nat
  BY <1>1, <1>2, <1>3
<1>5. Head(cmd.todo) = Whole[Done + 1] /\ Tail(cmd.todo) = SubSeq(Whole, Done + 2, Len(Whole))
  <2> DEFINE m == Done + 1
  <2>1. m \in 1..Len(Whole) /\ Len(Whole) \in m..Len(Whole) /\ m + 1 = Done + 2
    BY <1>4
  <2>2. cmd.todo = SubSeq(Whole, m, Len(Whole))
    BY <1>1
  <2> HIDE DEF m
  <2>3. /\ Head(SubSeq(Whole, m, Len(Whole))) = Whole[m]
        /\ Tail(SubSeq(Whole, m, Len(Whole))) = SubSeq(Whole, m + 1, Len(Whole))
    BY <1>2, <2>1, HeadTailOfSubSeq
  <2> QED
    BY <2>1, <2>2, <2>3 DEF m
<1>6. /\ Tail(cmd.todo) \in Seq(StepRecord) /\ Len(Tail(cmd.todo)) = Len(cmd.todo) - 1
      /\ Len(cmd.todo) \in Nat
  BY <1>1, HeadTailProperties, LenProperties
<1>7. IsNext(Done, Whole[Done + 1])
  <2>1. CASE cmd.verb = "install"
    <3> DEFINE p == Svc!InstallPlan
    <3>1. /\ Whole = Program("install", cmd.join) /\ p \in Seq(StepRecord)
      BY <2>1, Kinds, PlansAreSteps DEF Whole
    <3>2. /\ Len(Whole) = Len(p) + IF cmd.join THEN 3 ELSE 2
          /\ Whole[1] = Svc!Must("write")
          /\ \A i \in 1..Len(p) : Whole[i + 1] = p[i]
          /\ Whole[Len(p) + 2] = Svc!Must("verify")
          /\ cmd.join => Whole[Len(p) + 3] = Svc!Must("join")
      BY <1>1, <3>1, InstallProgram
    <3> HIDE DEF p
    <3>3. CASE kind = "systemd"
      <4>1. /\ Len(p) = 4 /\ p[1] = Svc!Must("reload") /\ p[2] = Svc!Must("enable_now")
            /\ p[3] = Svc!Must("restart") /\ p[4] = Svc!Noted("linger")
        BY <3>3, PlansAreSteps DEF p
      <4>2. /\ Whole[1] = Svc!Must("write")
            /\ Whole[2] = Svc!Must("reload")
            /\ Whole[3] = Svc!Must("enable_now")
            /\ Whole[4] = Svc!Must("restart")
            /\ Whole[5] = Svc!Noted("linger")
            /\ Whole[6] = Svc!Must("verify")
            /\ Done = 6 => Whole[7] = Svc!Must("join")
        BY <1>4, <3>2, <4>1
      <4>3. Done \in 0..6
        BY <1>4, <3>2, <4>1
      <4> QED
        BY <2>1, <3>3, <4>2, <4>3 DEF IsNext
    <3>4. CASE kind = "launchd"
      <4>1. Len(p) = 2 /\ p[1] = Svc!Deaf("bootout") /\ p[2] = Svc!Must("bootstrap")
        BY <3>4, PlansAreSteps DEF p
      <4>2. /\ Whole[1] = Svc!Must("write")
            /\ Whole[2] = Svc!Deaf("bootout")
            /\ Whole[3] = Svc!Must("bootstrap")
            /\ Whole[4] = Svc!Must("verify")
            /\ Done = 4 => Whole[5] = Svc!Must("join")
        BY <1>4, <3>2, <4>1
      <4>3. Done \in 0..4
        BY <1>4, <3>2, <4>1
      <4> QED
        BY <2>1, <3>4, <4>2, <4>3 DEF IsNext
    <3>5. CASE kind = "task"
      <4>1. /\ Len(p) = 3 /\ p[1] = Svc!Deaf("stop") /\ p[2] = Svc!Must("register")
            /\ p[3] = Svc!Must("start")
        BY <3>5, PlansAreSteps DEF p
      <4>2. /\ Whole[1] = Svc!Must("write")
            /\ Whole[2] = Svc!Deaf("stop")
            /\ Whole[3] = Svc!Must("register")
            /\ Whole[4] = Svc!Must("start")
            /\ Whole[5] = Svc!Must("verify")
            /\ Done = 5 => Whole[6] = Svc!Must("join")
        BY <1>4, <3>2, <4>1
      <4>3. Done \in 0..5
        BY <1>4, <3>2, <4>1
      <4> QED
        BY <2>1, <3>5, <4>2, <4>3 DEF IsNext
    <3> QED
      BY <3>3, <3>4, <3>5, Kinds
  <2>2. CASE cmd.verb = "uninstall"
    <3>1. Whole = Svc!Teardown
      BY <2>2 DEF Whole, Program
    <3>2. Done \in 0..(Len(Svc!Teardown) - 1)
      BY <1>4, <3>1
    <3>3. CASE kind = "systemd"
      <4>1. Whole[1] = Svc!Deaf("disable_now") /\ Whole[2] = Svc!Must("remove") /\ Whole[3] = Svc!Deaf("reload")
        BY <3>1, <3>3, TeardownSteps
      <4>2. Done \in 0..2
        <5>1. Len(Svc!Teardown) = 3
          BY <3>3, TeardownSteps
        <5> QED
          BY <3>2, <5>1
      <4> QED
        BY <2>2, <3>3, <4>1, <4>2 DEF IsNext
    <3>4. CASE kind = "launchd"
      <4>1. Whole[1] = Svc!Deaf("bootout") /\ Whole[2] = Svc!Must("remove")
        BY <3>1, <3>4, TeardownSteps
      <4>2. Done \in 0..1
        <5>1. Len(Svc!Teardown) = 2
          BY <3>4, TeardownSteps
        <5> QED
          BY <3>2, <5>1
      <4> QED
        BY <2>2, <3>4, <4>1, <4>2 DEF IsNext
    <3>5. CASE kind = "task"
      <4>1. Whole[1] = Svc!Deaf("stop") /\ Whole[2] = Svc!Deaf("unregister") /\ Whole[3] = Svc!Must("remove")
        BY <3>1, <3>5, TeardownSteps
      <4>2. Done \in 0..2
        <5>1. Len(Svc!Teardown) = 3
          BY <3>5, TeardownSteps
        <5> QED
          BY <3>2, <5>1
      <4> QED
        BY <2>2, <3>5, <4>1, <4>2 DEF IsNext
    <3> QED
      BY <3>3, <3>4, <3>5, Kinds
  <2> QED
    BY <1>1, <2>1, <2>2
<1>8. IsNext(Done, Head(cmd.todo))
  BY <1>5, <1>7
<1>9. Done < Len(Whole)
  BY <1>1, <1>2, <1>3
<1> QED
  BY <1>2, <1>4, <1>5, <1>6, <1>8, <1>9

LEMMA CommandGoesOn ==
  ASSUME ServiceTypes, InProgress, cmd # Svc!Idle, cmd.todo # <<>>, Svc!Onward,
         UNCHANGED <<kind, session>>
  PROVE  /\ cmd' \in CommandRecord /\ cmd' # Svc!Idle
         /\ cmd'.verb = cmd.verb /\ cmd'.inv = cmd.inv /\ cmd'.join = cmd.join
         /\ cmd'.dir = cmd.dir
         /\ Done' = Done + 1 /\ Verified' = Verified
         /\ InProgress'
<1>1. /\ Tail(cmd.todo) = SubSeq(Whole, Done + 2, Len(Whole)) /\ Done \in Nat
      /\ Tail(cmd.todo) \in Seq(StepRecord) /\ Len(Tail(cmd.todo)) = Len(cmd.todo) - 1
      /\ Len(cmd.todo) \in Nat /\ Len(Whole) \in Nat /\ Done < Len(Whole)
  BY NextStep
<1>2. cmd \in CommandRecord /\ cmd' = [cmd EXCEPT !.todo = Tail(cmd.todo)]
  BY DEF ServiceTypes, Svc!Onward
<1>3. /\ cmd'.verb = cmd.verb /\ cmd'.inv = cmd.inv /\ cmd'.join = cmd.join
      /\ cmd'.dir = cmd.dir /\ cmd'.todo = Tail(cmd.todo) /\ cmd' \in CommandRecord
  BY <1>1, <1>2 DEF CommandRecord
<1>4. cmd' # Svc!Idle
  BY <1>3, MachineAssumption DEF InProgress, Svc!Idle, Svc!ServiceAssumption
<1>5. /\ Svc!InstallPlan' = Svc!InstallPlan
      /\ Svc!Teardown' = Svc!Teardown
  BY DEF Svc!InstallPlan, Svc!Teardown, Svc!SystemdPlan, Svc!LaunchdPlan, Svc!TaskPlan,
         Svc!TaskDeactivate
<1>6. Whole' = Whole /\ Verified' = Verified
  BY <1>3, <1>5 DEF Whole, Program, Verified
<1>7. Done' = Done + 1
  <2>1. Len(Whole') = Len(Whole) /\ Len(cmd'.todo) = Len(cmd.todo) - 1
    BY <1>1, <1>3, <1>6
  <2>2. Done' = Len(Whole') - Len(cmd'.todo) /\ Done = Len(Whole) - Len(cmd.todo)
    BY DEF Done
  <2>3. Len(Whole) \in Int /\ Len(cmd.todo) \in Int
    BY <1>1
  <2> HIDE DEF Done
  <2> QED
    BY <2>1, <2>2, <2>3
<1>8. Done' \in 0..Len(Whole') /\ cmd'.todo = SubSeq(Whole', Done' + 1, Len(Whole'))
  <2>1. Done' + 1 = Done + 2
    BY <1>1, <1>7
  <2> QED
    BY <1>1, <1>3, <1>6, <1>7, <2>1
<1>9. InProgress'
  BY <1>3, <1>8 DEF InProgress, Svc!Resolve
<1>10. cmd' \in CommandRecord /\ cmd' # Svc!Idle
  BY <1>3, <1>4
<1>11. Done' = Done + 1 /\ Verified' = Verified
  BY <1>6, <1>7
<1> QED
  BY <1>3, <1>9, <1>10, <1>11

LEMMA BegunServes ==
  ASSUME agents \subseteq AgentRecord, NEW inv \in Svc!Invocation, Svc!Begun(inv)
  PROVE  /\ agents' \subseteq AgentRecord /\ again' = FALSE
         /\ Svc!Served' # {} /\ \A a \in Svc!Served' : a.inv = inv
<1>1. Svc!Agent("service", inv) \in AgentRecord /\ Svc!Agent("service", inv).by = "service"
      /\ Svc!Agent("service", inv).inv = inv
  BY DEF Svc!Agent, AgentRecord
<1> QED
  BY <1>1 DEF Svc!Begun, Svc!Served

LEMMA EndedServes ==
  ASSUME agents \subseteq AgentRecord, Svc!Ended
  PROVE  agents' \subseteq AgentRecord /\ again' = FALSE /\ Svc!Served' = {}
  BY DEF Svc!Ended, Svc!Served

\* What a step that is done has done.
Effects(step) ==
  /\ linger => linger'
  /\ step = "write"  => unit' = cmd.inv /\ UNCHANGED <<loaded, enabled, linger, agents, again>>
  /\ step = "remove" => unit' = None /\ UNCHANGED <<loaded, enabled, linger, agents, again>>
  /\ step = "reload" => loaded' = unit /\ UNCHANGED <<unit, enabled, linger, agents, again>>
  /\ step = "register" => loaded' = unit /\ UNCHANGED <<unit, enabled, linger, agents, again>>
  /\ step = "enable_now" => /\ enabled' = TRUE /\ UNCHANGED <<unit, loaded, linger>>
                            /\ loaded # None
  /\ step = "restart" => /\ UNCHANGED <<unit, loaded, enabled, linger>> /\ loaded # None
                         /\ \A a \in Svc!Served' : a.inv = loaded
  /\ step = "disable_now" => /\ UNCHANGED <<unit, loaded, linger>>
                             /\ again' = FALSE /\ Svc!Served' = {}
  /\ step = "linger" => linger' = TRUE /\ UNCHANGED <<unit, loaded, enabled, agents, again>>
  /\ step = "bootout" => /\ loaded' = None /\ UNCHANGED <<unit, enabled, linger>>
                         /\ again' = FALSE /\ Svc!Served' = {}
  /\ step = "bootstrap" => /\ loaded' = unit /\ UNCHANGED <<unit, enabled, linger>>
                           /\ \A a \in Svc!Served' : a.inv = unit
  /\ step = "stop" => /\ UNCHANGED <<unit, loaded, enabled, linger>>
                      /\ again' = FALSE /\ Svc!Served' = {}
  /\ step = "start" => /\ UNCHANGED <<unit, loaded, enabled, linger>> /\ loaded # None
                       /\ Svc!Served = {} => \A a \in Svc!Served' : a.inv = loaded
  /\ step = "unregister" => /\ loaded' = None /\ again' = FALSE
                            /\ UNCHANGED <<unit, enabled, linger, agents>>

SupervisorTypes ==
  /\ unit \in Svc!Invocation \cup {None} /\ loaded \in Svc!Invocation \cup {None}
  /\ enabled \in BOOLEAN /\ linger \in BOOLEAN
  /\ agents \subseteq AgentRecord /\ again \in BOOLEAN

LEMMA StepsHaveTheirEffects ==
  ASSUME ServiceTypes, NEW step, ~Svc!Impossible(step), Svc!Performed(step),
         step = "bootstrap" => unit # None
  PROVE  Effects(step) /\ SupervisorTypes'
<1>1. /\ agents \subseteq AgentRecord /\ again \in BOOLEAN /\ cmd.inv \in Svc!Invocation \cup {None}
      /\ unit \in Svc!Invocation \cup {None} /\ loaded \in Svc!Invocation \cup {None}
      /\ enabled \in BOOLEAN /\ linger \in BOOLEAN
  BY DEF ServiceTypes, CommandRecord
<1>2. CASE step \in {"write", "remove", "reload", "register", "linger", "unregister"}
  BY <1>1, <1>2 DEF Svc!Performed, Effects, SupervisorTypes
<1>3. CASE step \in {"disable_now", "bootout", "stop"}
  <2>1. Svc!Ended
    BY <1>3 DEF Svc!Performed
  <2>2. agents' \subseteq AgentRecord /\ again' = FALSE /\ Svc!Served' = {}
    BY <1>1, <2>1, EndedServes
  <2> QED
    BY <1>1, <1>3, <2>2 DEF Svc!Performed, Effects, SupervisorTypes, Svc!svc
<1>4. CASE step = "bootstrap"
  <2>1. Svc!Begun(unit) /\ unit \in Svc!Invocation
    BY <1>1, <1>4 DEF Svc!Performed
  <2>2. agents' \subseteq AgentRecord /\ again' = FALSE /\ \A a \in Svc!Served' : a.inv = unit
    BY <1>1, <2>1, BegunServes
  <2> QED
    BY <1>1, <1>4, <2>2 DEF Svc!Performed, Effects, SupervisorTypes
<1>5. CASE step \in {"restart", "enable_now", "start"}
  <2>1. loaded # None /\ loaded \in Svc!Invocation
    BY <1>1, <1>5 DEF Svc!Impossible
  <2>2. \/ Svc!Begun(loaded)
        \/ Svc!Served # {} /\ step # "restart" /\ UNCHANGED <<agents, again>>
    BY <1>5 DEF Svc!Performed
  <2>3. /\ agents' \subseteq AgentRecord /\ again' \in BOOLEAN
        /\ step = "restart" \/ Svc!Served = {} => \A a \in Svc!Served' : a.inv = loaded
    BY <1>1, <2>1, <2>2, BegunServes
  <2> QED
    BY <1>1, <1>5, <2>1, <2>3 DEF Svc!Performed, Effects, SupervisorTypes, Svc!svc
<1>6. step \in {"write", "remove", "reload", "register", "linger", "unregister", "disable_now",
               "bootout", "stop", "bootstrap", "restart", "enable_now", "start"}
  BY DEF Svc!Performed
<1> QED
  BY <1>2, <1>3, <1>4, <1>5, <1>6

\* Nothing has been reported while there is a step left to verify.
LEMMA NotYetTold ==
  ASSUME ServiceInv, cmd # Svc!Idle, cmd.todo # <<>>, Head(cmd.todo).step # "join"
  PROVE  told.what = None
<1> SUFFICES ASSUME told.what # None PROVE FALSE
  OBVIOUS
<1>1. cmd.verb = "install" /\ Done >= Verified
  BY DEF ServiceInv, ReportIsOfTheLast
<1>2. IsNext(Done, Head(cmd.todo)) /\ Done \in Nat
  BY NextStep DEF ServiceInv
<1>3. Svc!Must("join").step = "join"
  BY DEF Svc!Must
<1>4. Head(cmd.todo) # Svc!Must("join")
  BY <1>3
<1>5. CASE kind = "systemd"
  <2>1. Verified = 6
    <3>1. Len(Svc!InstallPlan) = 4
      BY <1>5, PlansAreSteps
    <3> QED
      BY <3>1 DEF Verified
  <2> QED
    BY <1>1, <1>2, <1>4, <1>5, <2>1 DEF IsNext
<1>6. CASE kind = "launchd"
  <2>1. Verified = 4
    <3>1. Len(Svc!InstallPlan) = 2
      BY <1>6, PlansAreSteps
    <3> QED
      BY <3>1 DEF Verified
  <2> QED
    BY <1>1, <1>2, <1>4, <1>6, <2>1 DEF IsNext
<1>7. CASE kind = "task"
  <2>1. Verified = 5
    <3>1. Len(Svc!InstallPlan) = 3
      BY <1>7, PlansAreSteps
    <3> QED
      BY <3>1 DEF Verified
  <2> QED
    BY <1>1, <1>2, <1>4, <1>7, <2>1 DEF IsNext
<1> QED
  BY <1>5, <1>6, <1>7, Kinds DEF ServiceInv

LEMMA StepKeeps ==
  ASSUME ServiceInv, Svc!Step
  PROVE  ServiceInv'
<1> DEFINE s == Head(cmd.todo)
<1>1. /\ cmd # Svc!Idle /\ cmd.todo # <<>> /\ s.step \notin {"verify", "join"}
      /\ ~Svc!Impossible(s.step) /\ Svc!Performed(s.step) /\ Svc!Onward
      /\ told' = [told EXCEPT !.lingers = @ \/ s.step = "linger"]
      /\ UNCHANGED <<kind, session, usable, count>>
  BY DEF Svc!Step
<1>2. ServiceTypes /\ InProgress /\ StepsTook /\ HoldsWhatRuns /\ ReportIsOfTheLast
  BY DEF ServiceInv
<1>3. IsNext(Done, s) /\ Done \in Nat
  BY <1>1, <1>2, NextStep
<1>4. /\ cmd' \in CommandRecord /\ cmd' # Svc!Idle /\ Done' = Done + 1 /\ InProgress'
      /\ cmd'.verb = cmd.verb /\ cmd'.inv = cmd.inv
  BY <1>1, <1>2, CommandGoesOn
<1>5. told.what = None
  BY <1>1, NotYetTold
<1>6. /\ session /\ cmd.verb \in {"install", "uninstall"}
      /\ cmd.verb = "install" => cmd.inv # None /\ Installing(Done)
      /\ cmd.verb = "uninstall" => Removing(Done)
  BY <1>1, <1>2 DEF InProgress, StepsTook
<1>7. kind \in {"systemd", "launchd", "task"}
  BY <1>2, Kinds
<1>8. \A x : Svc!Must(x).step = x /\ Svc!Noted(x).step = x /\ Svc!Deaf(x).step = x
  BY DEF Svc!Must, Svc!Noted, Svc!Deaf
<1> HIDE DEF s
<1>9. s.step = "bootstrap" => unit # None
  BY <1>3, <1>6, <1>7, <1>8 DEF IsNext, Installing
<1>10. Effects(s.step) /\ SupervisorTypes'
  BY <1>1, <1>2, <1>9, StepsHaveTheirEffects
<1>11. /\ told'.what = None /\ told'.joined = None /\ told' \in ReportRecord
       /\ told'.lingers => told.lingers \/ s.step = "linger"
  BY <1>1, <1>2, <1>5 DEF ServiceTypes, ReportRecord, ReportIsOfTheLast
<1>12. ServiceTypes'
  BY <1>1, <1>2, <1>4, <1>10, <1>11 DEF ServiceTypes, SupervisorTypes
<1>13. agents' = agents => Svc!Served' = Svc!Served
  BY DEF Svc!Served
<1>14. count' = count
  BY <1>1
<1>15. ASSUME cmd.verb = "install", kind = "systemd"
       PROVE  StepsTook' /\ (Hearing' /\ loaded' = None => NoneServes')
  <2>1. \/ Done = 0 /\ s.step = "write"
        \/ Done = 1 /\ s.step = "reload"
        \/ Done = 2 /\ s.step = "enable_now"
        \/ Done = 3 /\ s.step = "restart"
        \/ Done = 4 /\ s.step = "linger"
    BY <1>1, <1>3, <1>8, <1>15 DEF IsNext
  <2>2. Installing(Done) /\ cmd.inv # None
    BY <1>6, <1>15
  <2>3. /\ Installing(Done)' => StepsTook'
        /\ Done' = Done + 1 /\ cmd'.inv = cmd.inv /\ kind' = kind
    BY <1>1, <1>4, <1>15 DEF StepsTook
  <2>4. ASSUME Done = 0, s.step = "write"
        PROVE  StepsTook' /\ (Hearing' /\ loaded' = None => NoneServes')
    <3>1. Effects("write")
      BY <1>10, <2>4
    <3> QED
      BY <1>2, <1>13, <1>14, <1>15, <2>2, <2>3, <2>4, <3>1
      DEF Effects, Installing, Serving, NoneServes, Hearing, HoldsWhatRuns
  <2>5. ASSUME Done = 1, s.step = "reload"
        PROVE  StepsTook' /\ (Hearing' /\ loaded' = None => NoneServes')
    <3>1. Effects("reload")
      BY <1>10, <2>5
    <3> QED
      BY <1>2, <1>13, <1>14, <1>15, <2>2, <2>3, <2>5, <3>1
      DEF Effects, Installing, Serving, NoneServes, Hearing, HoldsWhatRuns
  <2>6. ASSUME Done = 2, s.step = "enable_now"
        PROVE  StepsTook' /\ (Hearing' /\ loaded' = None => NoneServes')
    <3>1. Effects("enable_now")
      BY <1>10, <2>6
    <3> QED
      BY <1>2, <1>13, <1>14, <1>15, <2>2, <2>3, <2>6, <3>1
      DEF Effects, Installing, Serving, NoneServes, Hearing, HoldsWhatRuns
  <2>7. ASSUME Done = 3, s.step = "restart"
        PROVE  StepsTook' /\ (Hearing' /\ loaded' = None => NoneServes')
    <3>1. Effects("restart")
      BY <1>10, <2>7
    <3> QED
      BY <1>2, <1>13, <1>14, <1>15, <2>2, <2>3, <2>7, <3>1
      DEF Effects, Installing, Serving, NoneServes, Hearing, HoldsWhatRuns
  <2>8. ASSUME Done = 4, s.step = "linger"
        PROVE  StepsTook' /\ (Hearing' /\ loaded' = None => NoneServes')
    <3>1. Effects("linger")
      BY <1>10, <2>8
    <3> QED
      BY <1>2, <1>13, <1>14, <1>15, <2>2, <2>3, <2>8, <3>1
      DEF Effects, Installing, Serving, NoneServes, Hearing, HoldsWhatRuns
  <2> QED
    BY <2>1, <2>4, <2>5, <2>6, <2>7, <2>8
<1>16. ASSUME cmd.verb = "install", kind = "launchd"
       PROVE  StepsTook' /\ (Hearing' /\ loaded' = None => NoneServes')
  <2>1. \/ Done = 0 /\ s.step = "write"
        \/ Done = 1 /\ s.step = "bootout"
        \/ Done = 2 /\ s.step = "bootstrap"
    BY <1>1, <1>3, <1>8, <1>16 DEF IsNext
  <2>2. Installing(Done) /\ cmd.inv # None
    BY <1>6, <1>16
  <2>3. /\ Installing(Done)' => StepsTook'
        /\ Done' = Done + 1 /\ cmd'.inv = cmd.inv /\ kind' = kind
    BY <1>1, <1>4, <1>16 DEF StepsTook
  <2>4. ASSUME Done = 0, s.step = "write"
        PROVE  StepsTook' /\ (Hearing' /\ loaded' = None => NoneServes')
    <3>1. Effects("write")
      BY <1>10, <2>4
    <3> QED
      BY <1>2, <1>13, <1>14, <1>16, <2>2, <2>3, <2>4, <3>1
      DEF Effects, Installing, Serving, NoneServes, Hearing, HoldsWhatRuns
  <2>5. ASSUME Done = 1, s.step = "bootout"
        PROVE  StepsTook' /\ (Hearing' /\ loaded' = None => NoneServes')
    <3>1. Effects("bootout")
      BY <1>10, <2>5
    <3> QED
      BY <1>2, <1>13, <1>14, <1>16, <2>2, <2>3, <2>5, <3>1
      DEF Effects, Installing, Serving, NoneServes, Hearing, HoldsWhatRuns
  <2>6. ASSUME Done = 2, s.step = "bootstrap"
        PROVE  StepsTook' /\ (Hearing' /\ loaded' = None => NoneServes')
    <3>1. Effects("bootstrap")
      BY <1>10, <2>6
    <3> QED
      BY <1>2, <1>13, <1>14, <1>16, <2>2, <2>3, <2>6, <3>1
      DEF Effects, Installing, Serving, NoneServes, Hearing, HoldsWhatRuns
  <2> QED
    BY <2>1, <2>4, <2>5, <2>6
<1>17. ASSUME cmd.verb = "install", kind = "task"
       PROVE  StepsTook' /\ (Hearing' /\ loaded' = None => NoneServes')
  <2>1. \/ Done = 0 /\ s.step = "write"
        \/ Done = 1 /\ s.step = "stop"
        \/ Done = 2 /\ s.step = "register"
        \/ Done = 3 /\ s.step = "start"
    BY <1>1, <1>3, <1>8, <1>17 DEF IsNext
  <2>2. Installing(Done) /\ cmd.inv # None
    BY <1>6, <1>17
  <2>3. /\ Installing(Done)' => StepsTook'
        /\ Done' = Done + 1 /\ cmd'.inv = cmd.inv /\ kind' = kind
    BY <1>1, <1>4, <1>17 DEF StepsTook
  <2>4. ASSUME Done = 0, s.step = "write"
        PROVE  StepsTook' /\ (Hearing' /\ loaded' = None => NoneServes')
    <3>1. Effects("write")
      BY <1>10, <2>4
    <3> QED
      BY <1>2, <1>13, <1>14, <1>17, <2>2, <2>3, <2>4, <3>1
      DEF Effects, Installing, Serving, NoneServes, Hearing, HoldsWhatRuns
  <2>5. ASSUME Done = 1, s.step = "stop"
        PROVE  StepsTook' /\ (Hearing' /\ loaded' = None => NoneServes')
    <3>1. Effects("stop")
      BY <1>10, <2>5
    <3> QED
      BY <1>2, <1>13, <1>14, <1>17, <2>2, <2>3, <2>5, <3>1
      DEF Effects, Installing, Serving, NoneServes, Hearing, HoldsWhatRuns
  <2>6. ASSUME Done = 2, s.step = "register"
        PROVE  StepsTook' /\ (Hearing' /\ loaded' = None => NoneServes')
    <3>1. Effects("register")
      BY <1>10, <2>6
    <3> QED
      BY <1>2, <1>13, <1>14, <1>17, <2>2, <2>3, <2>6, <3>1
      DEF Effects, Installing, Serving, NoneServes, Hearing, HoldsWhatRuns
  <2>7. ASSUME Done = 3, s.step = "start"
        PROVE  StepsTook' /\ (Hearing' /\ loaded' = None => NoneServes')
    <3>1. Effects("start")
      BY <1>10, <2>7
    <3> QED
      BY <1>2, <1>13, <1>14, <1>17, <2>2, <2>3, <2>7, <3>1
      DEF Effects, Installing, Serving, NoneServes, Hearing, HoldsWhatRuns
  <2> QED
    BY <2>1, <2>4, <2>5, <2>6, <2>7
<1>18. ASSUME cmd.verb = "uninstall"
       PROVE  StepsTook' /\ (Hearing' /\ loaded' = None => NoneServes')
  BY <1>1, <1>3, <1>4, <1>6, <1>7, <1>8, <1>10, <1>13, <1>14, <1>18
  DEF IsNext, Effects, StepsTook, Removing, NoneServes, Hearing
<1>19. StepsTook' /\ (Hearing' /\ loaded' = None => NoneServes')
  BY <1>6, <1>7, <1>15, <1>16, <1>17, <1>18
<1>20. HoldsWhatRuns'
  BY <1>1, <1>6, <1>19 DEF HoldsWhatRuns
<1>21. told'.lingers => Lingers'
  <2>1. s.step = "linger" => kind = "systemd" /\ linger'
    BY <1>3, <1>6, <1>7, <1>8, <1>10 DEF IsNext, Effects
  <2>2. linger => linger'
    BY <1>10 DEF Effects
  <2> QED
    BY <1>1, <1>2, <1>11, <2>1, <2>2 DEF Lingers, ReportIsOfTheLast
<1>22. ReportIsOfTheLast' /\ InstalledStands' /\ RemovedStands'
  BY <1>11, <1>21, MachineAssumption
  DEF ReportIsOfTheLast, InstalledStands, RemovedStands, Svc!ServiceAssumption
<1> QED
  BY <1>4, <1>12, <1>19, <1>20, <1>22 DEF ServiceInv

\* A command that is over leaves what it has done.
LEMMA OverKeeps ==
  ASSUME ServiceInv, cmd' = Svc!Idle, told' \in ReportRecord,
         UNCHANGED <<kind, unit, loaded, enabled, linger, session, agents, again, usable>>,
         count' \in [commands : Nat, failures : Nat, deaf : BOOLEAN],
         count.deaf => count'.deaf,
         count'.deaf => told'.what = None,
         told'.what = None => told'.joined = None,
         told'.lingers => Lingers,
         \/ told'.what = None
         \/ told' = told
         \/ told'.what = "removed" /\ NoneServes /\ loaded = None /\ unit = None
  PROVE  ServiceInv'
<1>1. ServiceTypes'
  <2>1. Svc!Idle \in CommandRecord
    BY DEF Svc!Idle, CommandRecord
  <2> QED
    BY <2>1 DEF ServiceInv, ServiceTypes
<1>2. InProgress' /\ StepsTook'
  BY DEF InProgress, StepsTook, Svc!Idle
<1>3. Svc!Served' = Svc!Served
  BY DEF Svc!Served
<1>4. HoldsWhatRuns' /\ ReportIsOfTheLast'
  BY <1>3 DEF ServiceInv, HoldsWhatRuns, ReportIsOfTheLast, Hearing, NoneServes, Lingers
<1>5. told'.what = "installed" => told' = told
  BY MachineAssumption DEF Svc!ServiceAssumption
<1>6. told'.what = "removed" => NoneServes /\ loaded = None /\ unit = None
  BY MachineAssumption DEF ServiceInv, RemovedStands, Svc!ServiceAssumption
<1>7. InstalledStands'
  BY <1>3, <1>5 DEF ServiceInv, InstalledStands, Serving, Lingers, Svc!Resolve
<1>8. RemovedStands'
  BY <1>3, <1>6 DEF RemovedStands, NoneServes
<1> QED
  BY <1>1, <1>2, <1>4, <1>7, <1>8 DEF ServiceInv

LEMMA StepFailsKeeps ==
  ASSUME ServiceInv, Svc!StepFails
  PROVE  ServiceInv'
<1> DEFINE s == Head(cmd.todo)
           able == ~Svc!Impossible(s.step)
<1>1. /\ cmd # Svc!Idle /\ cmd.todo # <<>> /\ s.step \notin {"verify", "join"}
      /\ count' = IF ~able THEN count
                  ELSE [count EXCEPT !.failures = @ + 1, !.deaf = @ \/ s.fails = "nothing"]
      /\ IF s.fails = "ends" THEN cmd' = Svc!Idle ELSE Svc!Onward
      /\ UNCHANGED <<kind, unit, loaded, enabled, linger, session, agents, again, usable, told>>
  BY DEF Svc!StepFails, Svc!Over, Svc!svc
<1>2. ServiceTypes /\ InProgress /\ StepsTook /\ HoldsWhatRuns /\ ReportIsOfTheLast
  BY DEF ServiceInv
<1>3. told.what = None
  BY <1>1, NotYetTold
<1>4. /\ told.joined = None /\ told \in ReportRecord /\ (told.lingers => Lingers)
      /\ count \in [commands : Nat, failures : Nat, deaf : BOOLEAN]
  BY <1>2, <1>3 DEF ReportIsOfTheLast, ServiceTypes
<1>5. /\ count' \in [commands : Nat, failures : Nat, deaf : BOOLEAN]
      /\ count.deaf => count'.deaf
      /\ ~count'.deaf /\ s.fails = "nothing" => Svc!Impossible(s.step)
  <2> HIDE DEF s
  <2>1. CASE ~able
    BY <1>1, <1>4, <2>1
  <2>2. CASE able
    <3> DEFINE deaf == count.deaf \/ s.fails = "nothing"
    <3>1. count.failures + 1 \in Nat /\ count.commands \in Nat /\ deaf \in BOOLEAN
      BY <1>4
    <3>2. count' = [commands |-> count.commands, failures |-> count.failures + 1, deaf |-> deaf]
      BY <1>1, <1>4, <2>2
    <3> HIDE DEF deaf
    <3>3. count'.deaf = deaf /\ count' \in [commands : Nat, failures : Nat, deaf : BOOLEAN]
      BY <3>1, <3>2
    <3> QED
      BY <3>3 DEF deaf
  <2> QED
    BY <2>1, <2>2
<1>6. CASE s.fails = "ends"
  BY <1>1, <1>3, <1>4, <1>5, <1>6, OverKeeps
<1>7. CASE s.fails # "ends"
  <2>1. Svc!Onward
    BY <1>1, <1>7
  <2>2. /\ cmd' \in CommandRecord /\ cmd' # Svc!Idle /\ Done' = Done + 1 /\ InProgress'
        /\ cmd'.verb = cmd.verb /\ cmd'.inv = cmd.inv
    BY <1>1, <1>2, <2>1, CommandGoesOn
  <2>3. IsNext(Done, s) /\ Done \in Nat
    BY <1>1, <1>2, NextStep
  <2>4. /\ session /\ cmd.verb \in {"install", "uninstall"}
        /\ cmd.verb = "install" => cmd.inv # None /\ Installing(Done)
        /\ cmd.verb = "uninstall" => Removing(Done)
    BY <1>1, <1>2 DEF InProgress, StepsTook
  <2>5. kind \in {"systemd", "launchd", "task"}
    BY <1>2, Kinds
  <2>6. \A x : /\ Svc!Must(x).fails = "ends" /\ Svc!Must(x).step = x
               /\ Svc!Noted(x).fails = "noted" /\ Svc!Noted(x).step = x
               /\ Svc!Deaf(x).fails = "nothing" /\ Svc!Deaf(x).step = x
    BY DEF Svc!Must, Svc!Noted, Svc!Deaf
  <2>7. Svc!Served' = Svc!Served
    BY <1>1 DEF Svc!Served
  <2> HIDE DEF s
  <2>8. ASSUME cmd.verb = "install" PROVE StepsTook'
    <3>1. \/ kind = "systemd" /\ Done = 4
          \/ kind = "launchd" /\ Done = 1 /\ s.step = "bootout" /\ s.fails = "nothing"
          \/ kind = "task" /\ Done = 1 /\ s.step = "stop" /\ s.fails = "nothing"
      BY <1>7, <2>3, <2>4, <2>5, <2>6, <2>8 DEF IsNext
    <3>2. ~Svc!Impossible("stop")
      BY DEF Svc!Impossible
    <3>3. Svc!Impossible("bootout") => loaded = None
      BY DEF Svc!Impossible
    <3> QED
      BY <1>1, <1>2, <1>5, <2>2, <2>4, <2>7, <2>8, <3>1, <3>2, <3>3
      DEF StepsTook, Installing, HoldsWhatRuns, Serving, NoneServes, Hearing
  <2>9. ASSUME cmd.verb = "uninstall" PROVE StepsTook'
    <3>1. /\ s.fails = "nothing"
          /\ \/ kind = "systemd" /\ Done = 0 /\ s.step = "disable_now"
             \/ kind = "systemd" /\ Done = 2 /\ s.step = "reload"
             \/ kind = "launchd" /\ Done = 0 /\ s.step = "bootout"
             \/ kind = "task" /\ Done = 0 /\ s.step = "stop"
             \/ kind = "task" /\ Done = 1 /\ s.step = "unregister"
      BY <1>7, <2>3, <2>4, <2>5, <2>6, <2>9 DEF IsNext
    <3>2. /\ ~Svc!Impossible("stop") /\ ~Svc!Impossible("reload")
          /\ Svc!Impossible("bootout") => loaded = None
          /\ Svc!Impossible("disable_now") => loaded = None
          /\ Svc!Impossible("unregister") => loaded = None
      BY DEF Svc!Impossible
    <3> QED
      BY <1>1, <1>2, <1>5, <2>2, <2>4, <2>7, <2>9, <3>1, <3>2
      DEF StepsTook, Removing, HoldsWhatRuns, NoneServes, Hearing
  <2>10. StepsTook'
    BY <2>4, <2>8, <2>9
  <2>11. ServiceTypes'
    BY <1>1, <1>2, <1>5, <2>2 DEF ServiceTypes
  <2>12. HoldsWhatRuns' /\ ReportIsOfTheLast'
    BY <1>1, <1>2, <1>3, <1>4, <1>5, <2>7
    DEF HoldsWhatRuns, ReportIsOfTheLast, NoneServes, Hearing, Lingers
  <2>13. InstalledStands' /\ RemovedStands'
    BY <1>1, <1>3, MachineAssumption DEF InstalledStands, RemovedStands, Svc!ServiceAssumption
  <2> QED
    BY <2>2, <2>10, <2>11, <2>12, <2>13 DEF ServiceInv
<1> QED
  BY <1>6, <1>7

LEMMA VerifyKeeps ==
  ASSUME ServiceInv, Svc!Verify
  PROVE  ServiceInv'
<1>1. /\ cmd # Svc!Idle /\ cmd.todo # <<>> /\ Head(cmd.todo).step = "verify" /\ Svc!Onward
      /\ UNCHANGED <<kind, unit, loaded, enabled, linger, session, agents, again, usable, count>>
      /\ \/ told' = Svc!Nothing
         \/ ~count.deaf /\ told' = [told EXCEPT !.what = "installed", !.inv = cmd.inv]
  BY DEF Svc!Verify, Svc!Now, Svc!svc
<1>2. ServiceTypes /\ InProgress /\ StepsTook /\ HoldsWhatRuns /\ ReportIsOfTheLast
  BY DEF ServiceInv
<1>3. IsNext(Done, Head(cmd.todo)) /\ Done \in Nat
  BY <1>1, <1>2, NextStep
<1>4. /\ cmd' \in CommandRecord /\ cmd' # Svc!Idle /\ Done' = Done + 1 /\ InProgress'
      /\ cmd'.verb = cmd.verb /\ cmd'.inv = cmd.inv /\ Verified' = Verified
  BY <1>1, <1>2, CommandGoesOn
<1>5. told.what = None /\ told.joined = None /\ (told.lingers => Lingers)
  BY <1>1, <1>2, NotYetTold DEF ReportIsOfTheLast
<1>6. /\ session /\ cmd.verb \in {"install", "uninstall"}
      /\ cmd.verb = "install" => cmd.inv # None /\ Installing(Done)
  BY <1>1, <1>2 DEF InProgress, StepsTook
<1>7. kind \in {"systemd", "launchd", "task"}
  BY <1>2, Kinds
<1>8. \A x : Svc!Must(x).step = x /\ Svc!Noted(x).step = x /\ Svc!Deaf(x).step = x
  BY DEF Svc!Must, Svc!Noted, Svc!Deaf
<1>9. /\ cmd.verb = "install"
      /\ \/ kind = "systemd" /\ Done = 5
         \/ kind = "launchd" /\ Done = 3
         \/ kind = "task" /\ Done = 4
  BY <1>1, <1>3, <1>6, <1>7, <1>8 DEF IsNext
<1>10. Done' = Verified
  <2> DEFINE n == Len(Svc!InstallPlan)
  <2>1. /\ kind = "systemd" => n = 4
        /\ kind = "launchd" => n = 2
        /\ kind = "task" => n = 3
    BY PlansAreSteps
  <2>2. Verified = n + 2
    BY DEF Verified
  <2> HIDE DEF n
  <2>3. \/ Done = 5 /\ n = 4
        \/ Done = 3 /\ n = 2
        \/ Done = 4 /\ n = 3
    BY <1>9, <2>1
  <2>4. Done' = Done + 1
    BY <1>4
  <2> QED
    BY <2>2, <2>3, <2>4
<1>11. Svc!Served' = Svc!Served
  BY <1>1 DEF Svc!Served
<1>12. /\ told' \in ReportRecord /\ told'.joined = None /\ (told'.lingers => Lingers)
       /\ \/ told'.what = None
          \/ ~count.deaf /\ told'.what = "installed" /\ told'.inv = cmd.inv
  <2>1. cmd.inv \in Svc!Invocation \cup {None} /\ told \in ReportRecord
    BY <1>2 DEF ServiceTypes, CommandRecord
  <2>2. CASE told' = Svc!Nothing
    BY <2>2 DEF ReportRecord, Svc!Nothing
  <2>3. CASE ~count.deaf /\ told' = [told EXCEPT !.what = "installed", !.inv = cmd.inv]
    BY <1>5, <2>1, <2>3 DEF ReportRecord
  <2> QED
    BY <1>1, <2>2, <2>3
<1>13. ServiceTypes'
  BY <1>1, <1>2, <1>4, <1>12 DEF ServiceTypes
<1>14. StepsTook'
  BY <1>1, <1>4, <1>6, <1>9, <1>11 DEF StepsTook, Installing, Serving, NoneServes, Hearing
<1>15. HoldsWhatRuns'
  BY <1>1, <1>2, <1>11 DEF HoldsWhatRuns, NoneServes, Hearing, Lingers
<1>16. ReportIsOfTheLast'
  <2>1. Done' >= Verified'
    BY <1>3, <1>4, <1>10
  <2> QED
    BY <1>1, <1>4, <1>9, <1>12, <2>1 DEF ReportIsOfTheLast, Lingers
<1>17. InstalledStands'
  <2>1. Hearing => /\ unit = cmd.inv /\ loaded = cmd.inv /\ cmd.inv # None
                   /\ \A a \in Svc!Served : a.inv = cmd.inv
                   /\ kind = "systemd" => enabled
    BY <1>6, <1>9 DEF Installing, Serving
  <2>2. told'.what = "installed" => told'.inv = cmd.inv /\ Hearing
    BY <1>12, MachineAssumption DEF Hearing, Svc!ServiceAssumption
  <2> QED
    BY <1>1, <1>11, <1>12, <2>1, <2>2 DEF InstalledStands, Serving
<1>18. RemovedStands'
  BY <1>12, MachineAssumption DEF RemovedStands, Svc!ServiceAssumption
<1> QED
  BY <1>4, <1>13, <1>14, <1>15, <1>16, <1>17, <1>18 DEF ServiceInv

LEMMA JoinKeeps ==
  ASSUME ServiceInv, Svc!Join
  PROVE  ServiceInv'
<1>1. /\ cmd # Svc!Idle /\ cmd.todo # <<>> /\ Head(cmd.todo).step = "join" /\ Svc!Onward
      /\ UNCHANGED <<kind, unit, loaded, enabled, linger, session, agents, again, usable, count>>
      /\ \/ told' = told
         \/ told.what # None /\ told' = [told EXCEPT !.joined = cmd.dir]
  BY DEF Svc!Join, Svc!Now, Svc!svc
<1>2. ServiceTypes /\ InProgress /\ StepsTook /\ HoldsWhatRuns /\ ReportIsOfTheLast /\ InstalledStands
  BY DEF ServiceInv
<1>3. IsNext(Done, Head(cmd.todo)) /\ Done \in Nat
  BY <1>1, <1>2, NextStep
<1>4. /\ cmd' \in CommandRecord /\ cmd' # Svc!Idle /\ Done' = Done + 1 /\ InProgress'
      /\ cmd'.verb = cmd.verb /\ cmd'.inv = cmd.inv /\ Verified' = Verified
  BY <1>1, <1>2, CommandGoesOn
<1>5. /\ session /\ cmd.verb \in {"install", "uninstall"}
      /\ cmd.verb = "install" => cmd.dir = Svc!Resolve(cmd.inv.dir) /\ Installing(Done)
  BY <1>1, <1>2 DEF InProgress, StepsTook
<1>6. kind \in {"systemd", "launchd", "task"}
  BY <1>2, Kinds
<1>7. \A x : Svc!Must(x).step = x /\ Svc!Noted(x).step = x /\ Svc!Deaf(x).step = x
  BY DEF Svc!Must, Svc!Noted, Svc!Deaf
<1>8. /\ cmd.verb = "install"
      /\ \/ kind = "systemd" /\ Done = 6
         \/ kind = "launchd" /\ Done = 4
         \/ kind = "task" /\ Done = 5
  BY <1>1, <1>3, <1>5, <1>6, <1>7 DEF IsNext
<1>9. Svc!Served' = Svc!Served
  BY <1>1 DEF Svc!Served
<1>10. /\ told' \in ReportRecord /\ told'.what = told.what /\ told'.inv = told.inv
       /\ told'.lingers = told.lingers
       /\ \/ told'.joined = told.joined
          \/ told.what # None /\ told'.joined = cmd.dir
  <2>1. cmd.dir \in Dir \cup {None} /\ told \in ReportRecord
    BY <1>2 DEF ServiceTypes, CommandRecord
  <2>2. CASE told.what # None /\ told' = [told EXCEPT !.joined = cmd.dir]
    BY <2>1, <2>2 DEF ReportRecord
  <2>3. CASE told' = told
    BY <2>1, <2>3
  <2> QED
    BY <1>1, <2>2, <2>3
<1>11. ServiceTypes'
  BY <1>1, <1>2, <1>4, <1>10 DEF ServiceTypes
<1>12. StepsTook'
  BY <1>1, <1>4, <1>5, <1>8, <1>9 DEF StepsTook, Installing, Serving, NoneServes, Hearing
<1>13. HoldsWhatRuns'
  BY <1>1, <1>2, <1>9 DEF HoldsWhatRuns, NoneServes, Hearing, Lingers
<1>14. ReportIsOfTheLast'
  <2>1. Done >= Verified => Done' >= Verified'
    <3>1. Verified \in Nat
      BY <1>2, <1>6, PlansAreSteps DEF Verified
    <3> QED
      BY <1>3, <1>4, <3>1
  <2> QED
    BY <1>1, <1>2, <1>4, <1>10, <2>1 DEF ReportIsOfTheLast, Lingers
<1>15. told.what # None => told.what = "installed" /\ told.inv = cmd.inv
  BY <1>1, <1>2 DEF ReportIsOfTheLast
<1>16. InstalledStands'
  BY <1>1, <1>2, <1>5, <1>8, <1>9, <1>10, <1>15
  DEF InstalledStands, Serving, Lingers, Svc!Resolve
<1>17. RemovedStands'
  BY <1>10, <1>15, MachineAssumption DEF RemovedStands, Svc!ServiceAssumption
<1> QED
  BY <1>4, <1>11, <1>12, <1>13, <1>14, <1>16, <1>17 DEF ServiceInv

LEMMA EndsKeeps ==
  ASSUME ServiceInv, Svc!Ends \/ Svc!Interrupted
  PROVE  ServiceInv'
<1>1. /\ cmd # Svc!Idle /\ cmd' = Svc!Idle
      /\ UNCHANGED <<kind, unit, loaded, enabled, linger, session, agents, again, usable, count>>
  BY DEF Svc!Ends, Svc!Interrupted, Svc!Over, Svc!svc
<1>2. ServiceTypes /\ InProgress /\ StepsTook /\ ReportIsOfTheLast
  BY DEF ServiceInv
<1>3. /\ told \in ReportRecord /\ count \in [commands : Nat, failures : Nat, deaf : BOOLEAN]
      /\ count.deaf => told.what = None
      /\ told.what = None => told.joined = None
      /\ told.lingers => Lingers
  BY <1>2 DEF ServiceTypes, ReportIsOfTheLast
<1>4. CASE told' = told
  BY <1>1, <1>3, <1>4, OverKeeps
<1>5. CASE told' = Svc!Nothing
  <2>1. Svc!Nothing \in ReportRecord /\ Svc!Nothing.what = None /\ Svc!Nothing.joined = None
        /\ ~Svc!Nothing.lingers
    BY DEF Svc!Nothing, ReportRecord
  <2> QED
    BY <1>1, <1>3, <1>5, <2>1, OverKeeps
<1>6. CASE /\ cmd.todo = <<>> /\ cmd.verb = "uninstall" /\ ~count.deaf
           /\ told' = [Svc!Nothing EXCEPT !.what = "removed"]
  <2>1. told' \in ReportRecord /\ told'.what = "removed" /\ told'.joined = None /\ ~told'.lingers
    BY <1>6 DEF Svc!Nothing, ReportRecord
  <2>2. Whole = Svc!Teardown
    BY <1>6 DEF Whole, Program
  <2>3. Len(cmd.todo) = 0
    BY <1>6
  <2>4. Removing(Done)
    BY <1>1, <1>2, <1>6 DEF StepsTook
  <2>5. kind \in {"systemd", "launchd", "task"}
    BY <1>2, Kinds
  <2>6. NoneServes /\ loaded = None /\ unit = None
    <3>1. CASE kind = "systemd"
      <4>1. Len(Svc!Teardown) = 3
        BY <3>1, TeardownSteps
      <4>2. Done = 3
        BY <2>2, <2>3, <4>1 DEF Done
      <4> QED
        BY <1>6, <2>4, <3>1, <4>2 DEF Removing, Hearing
    <3>2. CASE kind = "launchd"
      <4>1. Len(Svc!Teardown) = 2
        BY <3>2, TeardownSteps
      <4>2. Done = 2
        BY <2>2, <2>3, <4>1 DEF Done
      <4> QED
        BY <1>6, <2>4, <3>2, <4>2 DEF Removing, Hearing
    <3>3. CASE kind = "task"
      <4>1. Len(Svc!Teardown) = 3
        BY <3>3, TeardownSteps
      <4>2. Done = 3
        BY <2>2, <2>3, <4>1 DEF Done
      <4> QED
        BY <1>6, <2>4, <3>3, <4>2 DEF Removing, Hearing
    <3> QED
      BY <2>5, <3>1, <3>2, <3>3
  <2>7. told'.what # None
    BY <2>1, MachineAssumption DEF Svc!ServiceAssumption
  <2> QED
    BY <1>1, <1>3, <1>6, <2>1, <2>6, <2>7, OverKeeps
<1> QED
  BY <1>4, <1>5, <1>6 DEF Svc!Ends, Svc!Interrupted

\* A command from its first step, whatever it is.
LEMMA BeginKeeps ==
  ASSUME ServiceInv, NEW verb \in {"install", "uninstall"}, NEW join \in BOOLEAN,
         NEW inv \in Svc!Invocation \cup {None}, NEW dir \in Dir \cup {None},
         verb = "install" => inv # None /\ dir = Svc!Resolve(inv.dir),
         Svc!Begin(verb, inv, join, dir, Program(verb, join))
  PROVE  ServiceInv'
<1>1. /\ session /\ told' = Svc!Nothing
      /\ cmd' = [verb |-> verb, inv |-> inv, join |-> join, dir |-> dir,
                 todo |-> Program(verb, join)]
      /\ count' = [count EXCEPT !.commands = @ + 1]
      /\ UNCHANGED <<kind, unit, loaded, enabled, linger, session, agents, again, usable>>
  BY DEF Svc!Begin, Svc!svc
<1>2. ServiceTypes /\ HoldsWhatRuns
  BY DEF ServiceInv
<1>3. Program(verb, join) \in Seq(StepRecord) /\ Len(Program(verb, join)) \in Nat
  BY <1>2, WholeIsSteps
<1>4. /\ cmd' \in CommandRecord /\ cmd'.verb = verb /\ cmd'.inv = inv /\ cmd'.join = join
      /\ cmd'.dir = dir /\ cmd'.todo = Program(verb, join)
  BY <1>1, <1>3 DEF CommandRecord
<1>5. Svc!InstallPlan' = Svc!InstallPlan /\ Svc!Teardown' = Svc!Teardown
  BY <1>1 DEF Svc!InstallPlan, Svc!Teardown, Svc!SystemdPlan, Svc!LaunchdPlan, Svc!TaskPlan,
              Svc!TaskDeactivate
<1>6. Whole' = Program(verb, join)
  BY <1>4, <1>5 DEF Whole, Program
<1>7. Done' = 0
  <2>1. Done' = Len(Whole') - Len(cmd'.todo)
    BY DEF Done
  <2> QED
    BY <1>3, <1>4, <1>6, <2>1
<1>8. InProgress'
  <2> DEFINE W == Program(verb, join)
  <2>1. W \in Seq(StepRecord) /\ Len(W) \in Nat
    BY <1>3
  <2> HIDE DEF W
  <2>2. SubSeq(W, 1, Len(W)) = W
    BY <2>1, SubSeqFull
  <2>3. SubSeq(W, Done' + 1, Len(W)) = W
    BY <1>7, <2>2
  <2>4. Done' \in 0..Len(W)
    BY <1>7, <2>1
  <2>5. Whole' = W /\ cmd'.todo = W
    BY <1>4, <1>6 DEF W
  <2> QED
    BY <1>1, <1>4, <2>3, <2>4, <2>5 DEF InProgress, Svc!Resolve
<1>9. StepsTook'
  BY <1>7 DEF StepsTook, Installing, Removing
<1>10. /\ Svc!Nothing \in ReportRecord /\ Svc!Nothing.what = None /\ Svc!Nothing.joined = None
       /\ ~Svc!Nothing.lingers
  BY DEF Svc!Nothing, ReportRecord
<1>11. /\ count' \in [commands : Nat, failures : Nat, deaf : BOOLEAN]
       /\ count'.deaf = count.deaf
  BY <1>1, <1>2 DEF ServiceTypes
<1>12. ServiceTypes'
  BY <1>1, <1>2, <1>4, <1>10, <1>11 DEF ServiceTypes
<1>13. Svc!Served' = Svc!Served
  BY <1>1 DEF Svc!Served
<1>14. HoldsWhatRuns'
  BY <1>1, <1>2, <1>11, <1>13 DEF HoldsWhatRuns, Hearing, NoneServes, Lingers
<1>15. ReportIsOfTheLast' /\ InstalledStands' /\ RemovedStands'
  BY <1>1, <1>10, MachineAssumption
  DEF ReportIsOfTheLast, InstalledStands, RemovedStands, Svc!ServiceAssumption
<1> QED
  BY <1>8, <1>9, <1>12, <1>14, <1>15 DEF ServiceInv

LEMMA CommandsBeginKeep ==
  ASSUME ServiceInv,
         \/ Svc!Uninstall
         \/ \E port \in Port \cup {None}, named \in Dir \cup {None}, join \in BOOLEAN :
              Svc!Install(port, named, join)
  PROVE  ServiceInv'
<1>1. CASE Svc!Uninstall
  <2>1. Program("uninstall", FALSE) = Svc!Teardown
    BY DEF Program
  <2>2. Svc!Begin("uninstall", None, FALSE, None, Program("uninstall", FALSE))
    BY <1>1, <2>1 DEF Svc!Uninstall
  <2> QED
    BY <2>2, BeginKeeps
<1>2. ASSUME NEW port \in Port \cup {None}, NEW named \in Dir \cup {None}, NEW join \in BOOLEAN,
             Svc!Install(port, named, join)
      PROVE  ServiceInv'
  <2> DEFINE inv == Svc!InvocationOf(port, named)
  <2>1. inv \in Svc!Invocation /\ inv.dir = named
    BY DEF Svc!InvocationOf, Svc!Invocation
  <2>2. inv # None
    BY <2>1, MachineAssumption DEF Svc!ServiceAssumption, Svc!Invocation
  <2>3. Svc!Resolve(named) \in Dir
    BY MachineAssumption DEF Svc!Resolve, Svc!ServiceAssumption
  <2>4. Svc!Begin("install", inv, join, Svc!Resolve(named), Program("install", join))
    BY <1>2 DEF Svc!Install, Program
  <2> HIDE DEF inv
  <2>5. inv \in Svc!Invocation \cup {None} /\ Svc!Resolve(named) \in Dir \cup {None}
        /\ inv # None /\ Svc!Resolve(named) = Svc!Resolve(inv.dir)
    BY <2>1, <2>2, <2>3
  <2> QED
    BY <2>4, <2>5, BeginKeeps
<1> QED
  BY <1>1, <1>2

\* Agents that come and go without a command: those the supervisor runs are of
\* what it ran before, or of what it holds.
LEMMA AgentsComeAndGo ==
  ASSUME ServiceInv, UNCHANGED <<kind, unit, loaded, enabled, linger, session, usable, cmd, told>>,
         agents' \subseteq AgentRecord, again' \in BOOLEAN,
         count' \in [commands : Nat, failures : Nat, deaf : BOOLEAN], count'.deaf = count.deaf,
         \/ /\ \A a \in Svc!Served' : \E b \in Svc!Served : a.inv = b.inv
            /\ NoneServes => (again' => again)
         \/ again /\ loaded # None /\ \A a \in Svc!Served' : a.inv = loaded
  PROVE  ServiceInv'
<1>1. ServiceTypes'
  BY DEF ServiceInv, ServiceTypes
<1>2. /\ Svc!InstallPlan' = Svc!InstallPlan /\ Svc!Teardown' = Svc!Teardown
  BY DEF Svc!InstallPlan, Svc!Teardown, Svc!SystemdPlan, Svc!LaunchdPlan, Svc!TaskPlan,
         Svc!TaskDeactivate
<1>3. Whole' = Whole /\ Done' = Done /\ Verified' = Verified
  BY <1>2 DEF Whole, Program, Done, Verified
<1>4. InProgress'
  BY <1>3 DEF ServiceInv, InProgress, Svc!Resolve
<1>5. CASE /\ \A a \in Svc!Served' : \E b \in Svc!Served : a.inv = b.inv
           /\ NoneServes => (again' => again)
  <2>1. NoneServes => NoneServes' /\ (again' => again)
    BY <1>5 DEF NoneServes
  <2>2. \A i : (\A b \in Svc!Served : b.inv = i) => (\A a \in Svc!Served' : a.inv = i)
    BY <1>5
  <2>3. StepsTook'
    <3>1. Installing(Done) => Installing(Done)'
      BY <1>3, <2>1, <2>2 DEF Installing, Serving, Hearing
    <3>2. Removing(Done) => Removing(Done)'
      BY <1>3, <2>1 DEF Removing, Hearing
    <3> QED
      BY <3>1, <3>2 DEF ServiceInv, StepsTook
  <2>4. HoldsWhatRuns' /\ ReportIsOfTheLast'
    BY <1>3, <2>1 DEF ServiceInv, HoldsWhatRuns, ReportIsOfTheLast, Hearing, Lingers
  <2>5. InstalledStands' /\ RemovedStands'
    BY <2>1, <2>2 DEF ServiceInv, InstalledStands, RemovedStands, Serving, Lingers, Svc!Resolve
  <2> QED
    BY <1>1, <1>4, <2>3, <2>4, <2>5 DEF ServiceInv
<1>6. CASE again /\ loaded # None /\ \A a \in Svc!Served' : a.inv = loaded
  <2>1. StepsTook'
    <3>1. Done \in Nat => (Installing(Done) => Installing(Done)')
      BY <1>3, <1>6 DEF Installing, Serving, Hearing, NoneServes
    <3>2. Removing(Done) => Removing(Done)'
      BY <1>3, <1>6 DEF Removing, Hearing, NoneServes
    <3>3. cmd # Svc!Idle => Done \in Nat
      <4>1. ASSUME cmd # Svc!Idle PROVE Done \in Nat
        <5>1. Done \in 0..Len(Whole)
          BY <4>1 DEF ServiceInv, InProgress
        <5> QED
          BY <5>1
      <4> QED
        BY <4>1
    <3> QED
      BY <3>1, <3>2, <3>3 DEF ServiceInv, StepsTook
  <2>2. HoldsWhatRuns' /\ ReportIsOfTheLast'
    BY <1>3, <1>6 DEF ServiceInv, HoldsWhatRuns, ReportIsOfTheLast, Hearing, Lingers
  <2>3. InstalledStands'
    BY <1>6 DEF ServiceInv, HoldsWhatRuns, InstalledStands, Serving, Lingers, Svc!Resolve
  <2>4. RemovedStands'
    BY <1>6 DEF ServiceInv, RemovedStands
  <2> QED
    BY <1>1, <1>4, <2>1, <2>2, <2>3, <2>4 DEF ServiceInv
<1> QED
  BY <1>5, <1>6

LEMMA RunsKeeps ==
  ASSUME ServiceInv, NEW a \in agents, Svc!Runs(a) \/ Svc!Dies(a)
  PROVE  ServiceInv'
<1>1. /\ agents \subseteq AgentRecord /\ again \in BOOLEAN
      /\ count \in [commands : Nat, failures : Nat, deaf : BOOLEAN]
  BY DEF ServiceInv, ServiceTypes
<1>2. UNCHANGED <<kind, unit, loaded, enabled, linger, session, usable, cmd, told, count>>
  BY DEF Svc!Runs, Svc!Dies, Svc!svc
<1>3. \/ Svc!Fails(a)
      \/ again' = again /\ \E at \in {"bind", "serving"} : Svc!Becomes(a, at)
  BY DEF Svc!Runs, Svc!Dies, Svc!Checks, Svc!Bind
<1>4. CASE Svc!Fails(a)
  <2>1. /\ agents' \subseteq AgentRecord /\ again' \in BOOLEAN
        /\ \A x \in Svc!Served' : \E b \in Svc!Served : x.inv = b.inv
    BY <1>1, <1>4 DEF Svc!Fails, Svc!Served
  <2>2. NoneServes => (again' => again)
    BY <1>1, <1>4 DEF Svc!Fails, Svc!Served, NoneServes
  <2> QED
    BY <1>1, <1>2, <2>1, <2>2, AgentsComeAndGo
<1>5. ASSUME again' = again, NEW at \in {"bind", "serving"}, Svc!Becomes(a, at)
      PROVE  ServiceInv'
  <2> DEFINE m == [a EXCEPT !.at = at]
  <2>1. m \in AgentRecord /\ m.by = a.by /\ m.inv = a.inv
    BY <1>1 DEF AgentRecord
  <2>2. agents' = (agents \ {a}) \cup {m}
    BY <1>5 DEF Svc!Becomes
  <2> HIDE DEF m
  <2>3. /\ agents' \subseteq AgentRecord
        /\ \A x \in Svc!Served' : \E b \in Svc!Served : x.inv = b.inv
    BY <1>1, <2>1, <2>2 DEF Svc!Served
  <2> QED
    BY <1>1, <1>2, <1>5, <2>3, AgentsComeAndGo
<1> QED
  BY <1>3, <1>4, <1>5

LEMMA HandsKeep ==
  ASSUME ServiceInv,
         \/ Svc!CtrlC
         \/ \E port \in Port, named \in Dir \cup {None} : Svc!RunByHand(port, named)
  PROVE  ServiceInv'
<1>1. /\ agents \subseteq AgentRecord /\ again \in BOOLEAN
      /\ count \in [commands : Nat, failures : Nat, deaf : BOOLEAN]
  BY DEF ServiceInv, ServiceTypes
<1>2. CASE Svc!CtrlC
  <2>1. UNCHANGED <<kind, unit, loaded, enabled, linger, session, again, usable, cmd, told, count>>
    BY <1>2 DEF Svc!CtrlC, Svc!svc
  <2>2. /\ agents' \subseteq AgentRecord
        /\ \A x \in Svc!Served' : \E b \in Svc!Served : x.inv = b.inv
    BY <1>1, <1>2 DEF Svc!CtrlC, Svc!Served
  <2> QED
    BY <1>1, <2>1, <2>2, AgentsComeAndGo
<1>3. ASSUME NEW port \in Port, NEW named \in Dir \cup {None}, Svc!RunByHand(port, named)
      PROVE  ServiceInv'
  <2>1. /\ UNCHANGED <<kind, unit, loaded, enabled, linger, session, again, usable, cmd, told>>
        /\ count' = [count EXCEPT !.commands = @ + 1]
        /\ agents' = agents \cup {Svc!Agent("hand", [port |-> port, dir |-> named])}
    BY <1>3 DEF Svc!RunByHand, Svc!svc
  <2>2. /\ Svc!Agent("hand", [port |-> port, dir |-> named]) \in AgentRecord
        /\ Svc!Agent("hand", [port |-> port, dir |-> named]).by # "service"
    BY DEF Svc!Agent, AgentRecord, Svc!Invocation
  <2>3. /\ agents' \subseteq AgentRecord
        /\ \A x \in Svc!Served' : \E b \in Svc!Served : x.inv = b.inv
    BY <1>1, <2>1, <2>2 DEF Svc!Served
  <2>4. /\ count' \in [commands : Nat, failures : Nat, deaf : BOOLEAN]
        /\ count'.deaf = count.deaf
    BY <1>1, <2>1
  <2> QED
    BY <1>1, <2>1, <2>3, <2>4, AgentsComeAndGo
<1> QED
  BY <1>2, <1>3

LEMMA RespawnKeeps ==
  ASSUME ServiceInv, Svc!Respawn
  PROVE  ServiceInv'
<1>1. /\ UNCHANGED <<kind, unit, loaded, enabled, linger, session, usable, cmd, told, count>>
      /\ again /\ loaded # None /\ Svc!Begun(loaded)
  BY DEF Svc!Respawn, Svc!svc
<1>2. /\ agents \subseteq AgentRecord /\ loaded \in Svc!Invocation \cup {None}
      /\ count \in [commands : Nat, failures : Nat, deaf : BOOLEAN]
  BY DEF ServiceInv, ServiceTypes
<1>3. /\ agents' \subseteq AgentRecord /\ again' \in BOOLEAN
      /\ \A a \in Svc!Served' : a.inv = loaded
  BY <1>1, <1>2, BegunServes
<1> QED
  BY <1>1, <1>2, <1>3, AgentsComeAndGo

LEMMA LogOutKeeps ==
  ASSUME ServiceInv, Svc!LogOut
  PROVE  ServiceInv'
<1>1. /\ session /\ session' = FALSE /\ cmd' = Svc!Idle
      /\ told' = IF cmd = Svc!Idle THEN told ELSE Svc!Nothing
      /\ UNCHANGED <<kind, unit, enabled, linger, usable, count>>
  BY DEF Svc!LogOut
<1>2. \/ Lingers /\ agents' = Svc!Served /\ UNCHANGED <<again, loaded>>
      \/ /\ ~Lingers /\ agents' = {} /\ again' = FALSE
         /\ loaded' = IF kind = "task" THEN loaded ELSE None
  BY DEF Svc!LogOut, Lingers
<1>3. ServiceTypes /\ HoldsWhatRuns /\ ReportIsOfTheLast /\ InstalledStands /\ RemovedStands
  BY DEF ServiceInv
<1>4. /\ \A a \in Svc!Served' : a \in Svc!Served
      /\ ~Lingers => Svc!Served' = {}
      /\ Svc!Served = {} => Svc!Served' = {}
  BY <1>2 DEF Svc!Served
<1>5. /\ Svc!Nothing \in ReportRecord /\ Svc!Nothing.what = None /\ Svc!Nothing.joined = None
      /\ ~Svc!Nothing.lingers
  BY DEF Svc!Nothing, ReportRecord
<1>6. Svc!Idle \in CommandRecord
  BY DEF Svc!Idle, CommandRecord
<1>7. agents' \subseteq AgentRecord
  BY <1>2, <1>3 DEF ServiceTypes, Svc!Served
<1>8. ServiceTypes'
  <2>1. told' \in ReportRecord
    BY <1>1, <1>3, <1>5 DEF ServiceTypes
  <2>2. loaded' \in Svc!Invocation \cup {None} /\ again' \in BOOLEAN
    BY <1>2, <1>3 DEF ServiceTypes
  <2> QED
    BY <1>1, <1>3, <1>6, <1>7, <2>1, <2>2 DEF ServiceTypes
<1>9. InProgress' /\ StepsTook'
  BY <1>1 DEF InProgress, StepsTook, Svc!Idle
<1>10. HoldsWhatRuns'
  BY <1>1, <1>2, <1>3, <1>4 DEF HoldsWhatRuns, Hearing, NoneServes, Lingers
<1>11. CASE told' = Svc!Nothing
  <2>1. ReportIsOfTheLast' /\ InstalledStands' /\ RemovedStands'
    BY <1>1, <1>5, <1>11, MachineAssumption
    DEF ReportIsOfTheLast, InstalledStands, RemovedStands, Svc!ServiceAssumption
  <2> QED
    BY <1>8, <1>9, <1>10, <2>1 DEF ServiceInv
<1>12. CASE told' = told
  <2>1. ReportIsOfTheLast'
    BY <1>1, <1>3, <1>12 DEF ReportIsOfTheLast, Lingers
  <2>2. InstalledStands'
    BY <1>1, <1>2, <1>3, <1>4, <1>12 DEF InstalledStands, Serving, Lingers, Svc!Resolve
  <2>3. RemovedStands'
    BY <1>1, <1>2, <1>3, <1>4, <1>12 DEF RemovedStands, NoneServes
  <2> QED
    BY <1>8, <1>9, <1>10, <2>1, <2>2, <2>3 DEF ServiceInv
<1> QED
  BY <1>1, <1>11, <1>12

LEMMA LogInKeeps ==
  ASSUME ServiceInv, Svc!LogIn
  PROVE  ServiceInv'
<1>1. /\ ~session /\ session' = TRUE
      /\ loaded' = IF kind = "task" \/ Lingers THEN loaded ELSE unit
      /\ UNCHANGED <<kind, unit, enabled, linger, usable, cmd, told, count>>
      /\ \/ /\ \/ loaded' = None
               \/ Svc!Served # {}
               \/ kind = "systemd" /\ ~enabled
            /\ UNCHANGED <<agents, again>>
         \/ loaded' # None /\ Svc!Begun(loaded')
  BY DEF Svc!LogIn, Lingers
<1>2. ServiceTypes /\ InProgress /\ HoldsWhatRuns /\ ReportIsOfTheLast /\ InstalledStands /\ RemovedStands
  BY DEF ServiceInv
<1>3. cmd = Svc!Idle /\ cmd' = Svc!Idle
  BY <1>1, <1>2 DEF InProgress
<1>4. loaded' \in Svc!Invocation \cup {None} /\ agents \subseteq AgentRecord /\ again \in BOOLEAN
  BY <1>1, <1>2 DEF ServiceTypes
<1>5. /\ agents' \subseteq AgentRecord /\ again' \in BOOLEAN
      /\ \/ Svc!Served' = Svc!Served
         \/ loaded' # None /\ \A a \in Svc!Served' : a.inv = loaded'
  <2>1. CASE UNCHANGED <<agents, again>>
    BY <1>4, <2>1 DEF Svc!Served
  <2>2. CASE loaded' # None /\ Svc!Begun(loaded')
    BY <1>4, <2>2, BegunServes
  <2> QED
    BY <1>1, <2>1, <2>2
<1>6. ServiceTypes'
  BY <1>1, <1>2, <1>4, <1>5 DEF ServiceTypes
<1>7. InProgress' /\ StepsTook'
  BY <1>3 DEF InProgress, StepsTook
<1>8. HoldsWhatRuns'
  BY <1>1, <1>2, <1>5 DEF HoldsWhatRuns, Hearing, NoneServes, Lingers
<1>9. ReportIsOfTheLast'
  BY <1>1, <1>2, <1>3 DEF ReportIsOfTheLast, Lingers
<1>10. told.what = "installed" => loaded' = told.inv
  BY <1>1, <1>2 DEF InstalledStands
<1>11. InstalledStands'
  BY <1>1, <1>2, <1>5, <1>10 DEF InstalledStands, Serving, Lingers, Svc!Resolve
<1>12. RemovedStands'
  BY <1>1, <1>2, <1>5 DEF RemovedStands, NoneServes
<1> QED
  BY <1>6, <1>7, <1>8, <1>9, <1>11, <1>12 DEF ServiceInv

LEMMA ServiceInvInit == Svc!Init => ServiceInv
<1> SUFFICES ASSUME Svc!Init PROVE ServiceInv
  OBVIOUS
<1>1. /\ kind \in Supervisor /\ unit = None /\ loaded = None /\ enabled = FALSE /\ linger = FALSE
      /\ session = TRUE /\ agents = {} /\ again = FALSE /\ usable \in SUBSET Dir
      /\ cmd = Svc!Idle /\ told = Svc!Nothing
      /\ count = [commands |-> 0, failures |-> 0, deaf |-> FALSE]
  BY DEF Svc!Init
<1>2. /\ Svc!Nothing \in ReportRecord /\ Svc!Nothing.what = None /\ Svc!Nothing.joined = None
      /\ ~Svc!Nothing.lingers
  BY DEF Svc!Nothing, ReportRecord
<1>3. Svc!Idle \in CommandRecord
  BY DEF Svc!Idle, CommandRecord
<1>4. Svc!Served = {}
  BY <1>1 DEF Svc!Served
<1>5. ServiceTypes
  BY <1>1, <1>2, <1>3 DEF ServiceTypes
<1>6. InProgress /\ StepsTook
  BY <1>1 DEF InProgress, StepsTook
<1>7. HoldsWhatRuns /\ ReportIsOfTheLast
  BY <1>1, <1>2, <1>4 DEF HoldsWhatRuns, ReportIsOfTheLast, NoneServes
<1>8. InstalledStands /\ RemovedStands
  BY <1>1, <1>2, MachineAssumption DEF InstalledStands, RemovedStands, Svc!ServiceAssumption
<1> QED
  BY <1>5, <1>6, <1>7, <1>8 DEF ServiceInv

LEMMA ServiceInvNext == ServiceInv /\ [Svc!Next]_(Svc!vars) => ServiceInv'
<1> SUFFICES ASSUME ServiceInv, [Svc!Next]_(Svc!vars) PROVE ServiceInv'
  OBVIOUS
<1>1. CASE UNCHANGED (Svc!vars)
  <2>1. /\ UNCHANGED <<kind, unit, loaded, enabled, linger, session, agents, again, usable, cmd,
                        told, count>>
    BY <1>1 DEF Svc!vars, Svc!svc
  <2>2. Svc!Served' = Svc!Served
    BY <2>1 DEF Svc!Served
  <2>3. /\ agents \subseteq AgentRecord /\ again \in BOOLEAN
        /\ count \in [commands : Nat, failures : Nat, deaf : BOOLEAN]
    BY DEF ServiceInv, ServiceTypes
  <2> QED
    BY <2>1, <2>2, <2>3, AgentsComeAndGo
<1>2. CASE Svc!Next
  BY <1>2, HandsKeep, CommandsBeginKeep, StepKeeps, StepFailsKeeps, VerifyKeeps, JoinKeeps,
     EndsKeeps, RunsKeeps, RespawnKeeps, LogOutKeeps, LogInKeeps
  DEF Svc!Next
<1> QED
  BY <1>1, <1>2

\* What an install or an uninstall has reported goes on being true, through
\* crashes, restarts, logins and interrupted commands before and after it, on
\* any of the three supervisors (service.rs, service/plan.rs, commands/service.rs).
THEOREM ReportsStand == Svc!Spec => []ReportStands
<1>1. ServiceInv => ReportStands
  <2> SUFFICES ASSUME ServiceInv PROVE ReportStands
    OBVIOUS
  <2>1. Svc!AgentRunsAsInstalled
    BY DEF ServiceInv, InstalledStands, ReportIsOfTheLast, Lingers, Serving, Svc!AgentRunsAsInstalled,
           Svc!Resolve
  <2>2. Svc!RemovedIsGone
    BY DEF ServiceInv, RemovedStands, NoneServes, Svc!RemovedIsGone
  <2> QED
    BY <2>1, <2>2 DEF ReportStands, Svc!ReportStands
<1> QED
  BY <1>1, ServiceInvInit, ServiceInvNext, PTL DEF Svc!Spec

-----------------------------------------------------------------------------
(* Launches and stops: LocalLaunch *)

RequestShape ==
  /\ req = [q \in Requests |-> req[q]]
  /\ \A q \in Requests : {"at", "before", "todo", "unheard"} \subseteq DOMAIN req[q]
  /\ \A q \in Requests :
       req[q].at \in {"pulling", "clearing", "running"} => "plan" \in DOMAIN req[q]
ContainerShape ==
  \A n \in DOMAIN containers : {"plan", "by", "up"} \subseteq DOMAIN containers[n]

\* A request whose container runs, or ran, starts no other.
HasLaunched(q) == req[q].at \in {"lingering", "started", "died"}
LaunchedOnce ==
  /\ \A n \in DOMAIN containers :
       containers[n].by \in Requests => HasLaunched(containers[n].by)
  /\ \A q \in Requests : \A x \in req[q].before :
       x[2] \in Requests => HasLaunched(x[2])

\* What of what ran a stop has still before it.
StopIsOnItsWay(q) ==
  /\ req[q].at = "stopping" => \A n \in StillUp(q) : <<n, containers[n].by>> \in req[q].todo
  /\ req[q].at = "stopping_each" /\ ~req[q].unheard => StillUp(q) \subseteq req[q].todo
  /\ req[q].at = "stopping_name" => StillUp(q) = {}
  /\ req[q].at = "stopped" /\ ~req[q].unheard => StillUp(q) = {}

\* Docker takes away only what the operator's own launch let it.
MayGo(q) == ~Remote(q) /\ ~asked[q].no_rm
GoneOnlyByLeave ==
  /\ \A q \in Requests :
       "plan" \in DOMAIN req[q] /\ req[q].plan.auto_remove => MayGo(q)
  /\ \A n \in DOMAIN containers :
       containers[n].plan.auto_remove =>
         containers[n].by \in Requests /\ MayGo(containers[n].by)

LaunchInv ==
  /\ RequestShape /\ ContainerShape /\ LaunchedOnce
  /\ \A q \in Requests : StopIsOnItsWay(q)
  /\ GoneOnlyByLeave

LEMMA LoadedIsOfTheName ==
  ASSUME NEW registry, NEW name, NEW r \in Load(registry, name)
  PROVE  r.name = name
  BY DEF Load, Parse

LEMMA ResolvedIsOfTheName ==
  ASSUME NEW ref, NEW r \in Resolve(ref)
  PROVE  r.name = ref.name
<1>1. ASSUME NEW x \in ResolveBare(ref.name) PROVE x.name = ref.name
  <2>1. \E registry : x \in Load(registry, ref.name)
    BY DEF ResolveBare
  <2> QED
    BY <2>1, LoadedIsOfTheName
<1>2. r \in ResolveBare(ref.name) \/ r \in Load(ref.registry, ref.name)
  BY DEF Resolve
<1> QED
  BY <1>1, <1>2, LoadedIsOfTheName

LEMMA LabelIsTheName == \A ref : LabelOf(ref) = ref.name
<1> SUFFICES ASSUME NEW ref PROVE LabelOf(ref) = ref.name
  OBVIOUS
<1>1. CASE Resolve(ref) = {}
  BY <1>1 DEF LabelOf
<1>2. CASE Resolve(ref) # {}
  <2> DEFINE c == CHOOSE r \in Resolve(ref) : TRUE
  <2>1. c \in Resolve(ref)
    BY <1>2
  <2>2. LabelOf(ref) = c.name
    BY <1>2 DEF LabelOf
  <2> HIDE DEF c
  <2> QED
    BY <2>1, <2>2, ResolvedIsOfTheName
<1> QED
  BY <1>1, <1>2

\* A container that is still the one it was, if it still runs; and one that a
\* request has just started.
Remains(n) ==
  /\ n \in DOMAIN containers /\ containers'[n].plan = containers[n].plan
  /\ containers'[n].by = containers[n].by /\ (containers'[n].up => containers[n].up)
IsNewOf(n, q) ==
  /\ containers'[n].by = q /\ ~HasLaunched(q) /\ HasLaunched(q)'
  /\ "plan" \in DOMAIN req[q] /\ containers'[n].plan = req[q].plan

LEMMA EndedRemain ==
  ASSUME ContainerShape, NEW names \in SUBSET DOMAIN containers, containers' = Ended(names)
  PROVE  /\ ContainerShape'
         /\ \A n \in DOMAIN containers' : Remains(n) /\ (containers'[n].up => n \notin names)
         /\ \A n \in DOMAIN containers : n \notin DOMAIN containers' => containers[n].plan.auto_remove
<1> DEFINE gone == {n \in names : containers[n].plan.auto_remove}
<1>1. containers' = [n \in DOMAIN containers \ gone |->
                       IF n \in names THEN [containers[n] EXCEPT !.up = FALSE] ELSE containers[n]]
  BY DEF Ended
<1>2. DOMAIN containers' = DOMAIN containers \ gone
  BY <1>1
<1>3. \A n \in DOMAIN containers' :
        containers'[n] = IF n \in names THEN [containers[n] EXCEPT !.up = FALSE] ELSE containers[n]
  BY <1>1, <1>2
<1>4. ASSUME NEW n \in DOMAIN containers'
      PROVE  /\ Remains(n) /\ (containers'[n].up => n \notin names)
             /\ {"plan", "by", "up"} \subseteq DOMAIN containers'[n]
  <2>1. n \in DOMAIN containers /\ {"plan", "by", "up"} \subseteq DOMAIN containers[n]
    BY <1>2 DEF ContainerShape
  <2>2. CASE n \in names
    <3>1. containers'[n] = [containers[n] EXCEPT !.up = FALSE]
      BY <1>3, <2>2
    <3> QED
      BY <2>1, <2>2, <3>1 DEF Remains
  <2>3. CASE n \notin names
    BY <1>3, <2>1, <2>3 DEF Remains
  <2> QED
    BY <2>2, <2>3
<1> QED
  BY <1>2, <1>4 DEF ContainerShape

LEMMA WithoutRemain ==
  ASSUME ContainerShape, NEW names, containers' = Without(containers, names)
  PROVE  /\ ContainerShape' /\ \A n \in DOMAIN containers' : Remains(n)
         /\ DOMAIN containers' = DOMAIN containers \ names
  BY DEF ContainerShape, Without, Remains

LEMMA StartedIsNew ==
  ASSUME ContainerShape, NEW name, name \notin DOMAIN containers, NEW plan, NEW q,
         containers' = With(containers, name, [plan |-> plan, by |-> q, up |-> TRUE])
  PROVE  /\ ContainerShape' /\ DOMAIN containers' = DOMAIN containers \cup {name}
         /\ containers'[name].by = q /\ containers'[name].plan = plan
         /\ \A n \in DOMAIN containers : Remains(n)
<1>1. /\ DOMAIN containers' = DOMAIN containers \cup {name}
      /\ \A n \in DOMAIN containers : containers'[n] = containers[n]
      /\ containers'[name] = [plan |-> plan, by |-> q, up |-> TRUE]
  BY DEF With
<1>2. \A n \in DOMAIN containers : Remains(n)
  BY <1>1 DEF Remains
<1>3. ContainerShape'
  <2> SUFFICES ASSUME NEW n \in DOMAIN containers'
               PROVE  {"plan", "by", "up"} \subseteq DOMAIN containers'[n]
    BY DEF ContainerShape
  <2>1. CASE n = name
    BY <1>1, <2>1
  <2>2. CASE n \in DOMAIN containers
    BY <1>1, <2>2 DEF ContainerShape
  <2> QED
    BY <1>1, <2>1, <2>2
<1> QED
  BY <1>1, <1>2, <1>3

\* A request that goes on is the same request; the others are as they were.
GoesOnTo(q, place) ==
  /\ req'[q].at = place /\ DOMAIN req'[q] = DOMAIN req[q]
  /\ req'[q].before = req[q].before /\ req'[q].todo = req[q].todo
  /\ req'[q].unheard = req[q].unheard
  /\ "plan" \in DOMAIN req[q] => req'[q].plan = req[q].plan
OthersStay(q) ==
  /\ req' = [p \in Requests |-> req'[p]]
  /\ \A o \in Requests : o # q => req'[o] = req[o]

LEMMA GoesIsToGoOn ==
  ASSUME RequestShape, NEW q \in Requests, NEW place, Goes(q, place)
  PROVE  GoesOnTo(q, place) /\ OthersStay(q)
<1>1. {"at", "before", "todo", "unheard"} \subseteq DOMAIN req[q]
  BY DEF RequestShape
<1>2. req'[q] = [req[q] EXCEPT !.at = place]
  BY DEF Goes, RequestShape
<1>3. OthersStay(q)
  BY DEF Goes, RequestShape, OthersStay
<1> QED
  BY <1>1, <1>2, <1>3 DEF GoesOnTo

\* Of what ran when a stop arrived, no step makes more run: what a request
\* starts is new.
LEMMA LessIsUp ==
  ASSUME LaunchInv, NEW q \in Requests, asked' = asked,
         \A n \in DOMAIN containers' : Remains(n) \/ IsNewOf(n, q),
         NEW o \in Requests, req'[o].before = req[o].before
  PROVE  /\ StillUp(o)' \subseteq StillUp(o)
         /\ \A n \in StillUp(o)' :
              containers'[n].by = containers[n].by /\ Remains(n)
<1> SUFFICES ASSUME NEW n \in StillUp(o)'
             PROVE  n \in StillUp(o) /\ Remains(n)
  BY DEF Remains
<1>1. /\ n \in DOMAIN containers' /\ containers'[n].up
      /\ <<n, containers'[n].by>> \in req[o].before
      /\ asked[o].verb = "stop_all" \/ containers'[n].plan.label = asked[o].ref.name
  BY DEF StillUp, Up, Managed
<1>2. ~IsNewOf(n, q)
  <2> SUFFICES ASSUME IsNewOf(n, q) PROVE FALSE
    OBVIOUS
  <2>1. <<n, q>> \in req[o].before /\ ~HasLaunched(q)
    BY <1>1 DEF IsNewOf
  <2>2. \A x \in req[o].before : x[2] \in Requests => HasLaunched(x[2])
    BY DEF LaunchInv, LaunchedOnce
  <2>3. <<n, q>>[2] = q
    OBVIOUS
  <2> QED
    BY <2>1, <2>2, <2>3
<1>3. Remains(n)
  BY <1>1, <1>2
<1> QED
  BY <1>1, <1>3 DEF Remains, StillUp, Up, Managed

LEMMA StepOfOne ==
  ASSUME LaunchInv, NEW q \in Requests, OthersStay(q), asked' = asked, ContainerShape',
         {"at", "before", "todo", "unheard"} \subseteq DOMAIN req'[q],
         req'[q].at \in {"pulling", "clearing", "running"} => "plan" \in DOMAIN req'[q],
         req'[q].before = req[q].before,
         HasLaunched(q) => HasLaunched(q)',
         "plan" \in DOMAIN req'[q] /\ req'[q].plan.auto_remove => MayGo(q),
         \A n \in DOMAIN containers' : Remains(n) \/ IsNewOf(n, q),
         StopIsOnItsWay(q)'
  PROVE  LaunchInv'
<1>1. Requests' = Requests /\ \A o \in Requests : o # q => req'[o] = req[o]
  BY DEF Requests, OthersStay
<1>2. RequestShape /\ LaunchedOnce /\ GoneOnlyByLeave /\ \A o \in Requests : StopIsOnItsWay(o)
  BY DEF LaunchInv
<1>3. RequestShape'
  BY <1>1, <1>2 DEF RequestShape, OthersStay
<1>4. \A o \in Requests : req'[o].before = req[o].before /\ (HasLaunched(o) => HasLaunched(o)')
  BY <1>1 DEF HasLaunched
<1>5. LaunchedOnce'
  <2> DEFINE Has(o) == req'[o].at \in {"lingering", "started", "died"}
  <2>1. \A o \in Requests : HasLaunched(o) => Has(o)
    BY <1>4 DEF HasLaunched
  <2>2. HasLaunched(q)' => Has(q)
    BY DEF HasLaunched
  <2>3. ASSUME NEW n \in DOMAIN containers', containers'[n].by \in Requests
        PROVE  Has(containers'[n].by)
    <3>1. CASE Remains(n)
      <4>1. n \in DOMAIN containers /\ containers'[n].by = containers[n].by
        BY <3>1 DEF Remains
      <4> QED
        BY <1>2, <2>1, <2>3, <4>1 DEF LaunchedOnce
    <3>2. CASE IsNewOf(n, q)
      BY <2>2, <3>2 DEF IsNewOf
    <3> QED
      BY <3>1, <3>2
  <2>4. ASSUME NEW o \in Requests, NEW x \in req'[o].before, x[2] \in Requests
        PROVE  Has(x[2])
    BY <1>2, <1>4, <2>1, <2>4 DEF LaunchedOnce
  <2> QED
    BY <1>1, <2>3, <2>4 DEF LaunchedOnce, HasLaunched
<1>6. ASSUME NEW o \in Requests PROVE StopIsOnItsWay(o)'
  <2>1. CASE o = q
    BY <2>1 DEF StopIsOnItsWay, StillUp, Up, Managed
  <2>2. CASE o # q
    <3>1. req'[o] = req[o] /\ StopIsOnItsWay(o)
      BY <1>1, <1>2, <2>2
    <3>2. /\ StillUp(o)' \subseteq StillUp(o)
          /\ \A n \in StillUp(o)' : containers'[n].by = containers[n].by
      BY <1>4, LessIsUp
    <3> QED
      BY <3>1, <3>2 DEF StopIsOnItsWay
  <2> QED
    BY <2>1, <2>2
<1>7. GoneOnlyByLeave'
  <2>0. \A o : MayGo(o)' = MayGo(o)
    BY DEF MayGo, Remote
  <2>1. \A o \in Requests :
          "plan" \in DOMAIN req'[o] /\ req'[o].plan.auto_remove => MayGo(o)
    BY <1>1, <1>2 DEF GoneOnlyByLeave
  <2>2. \A n \in DOMAIN containers' : containers'[n].plan.auto_remove =>
          containers'[n].by \in Requests /\ MayGo(containers'[n].by)
    BY <1>2 DEF GoneOnlyByLeave, Remains, IsNewOf
  <2> QED
    BY <1>1, <2>0, <2>1, <2>2 DEF GoneOnlyByLeave, MayGo, Remote
<1> QED
  BY <1>1, <1>3, <1>5, <1>6, <1>7 DEF LaunchInv, StopIsOnItsWay, StillUp, Up, Managed

LEMMA ContainersOnlyEnd ==
  ASSUME LaunchInv, asked' = asked, req' = req, ContainerShape',
         \A n \in DOMAIN containers' : Remains(n)
  PROVE  LaunchInv'
<1>1. RequestShape /\ LaunchedOnce /\ GoneOnlyByLeave /\ \A o \in Requests : StopIsOnItsWay(o)
  BY DEF LaunchInv
<1>2. ASSUME NEW o \in Requests
      PROVE  /\ StillUp(o)' \subseteq StillUp(o)
             /\ \A n \in StillUp(o)' : containers'[n].by = containers[n].by
  BY DEF StillUp, Up, Managed, Remains
<1>3. RequestShape' /\ LaunchedOnce'
  BY <1>1 DEF RequestShape, LaunchedOnce, HasLaunched, Requests, Remains
<1>4. \A o \in Requests : StopIsOnItsWay(o)'
  BY <1>1, <1>2 DEF StopIsOnItsWay
<1>5. GoneOnlyByLeave'
  BY <1>1 DEF GoneOnlyByLeave, Remains, MayGo, Remote, Requests
<1> QED
  BY <1>3, <1>4, <1>5 DEF LaunchInv, Requests, StopIsOnItsWay, StillUp, Up, Managed

\* A request that only goes on, whatever happens to the containers meanwhile.
LEMMA GoingOnKeeps ==
  ASSUME LaunchInv, NEW q \in Requests, NEW place, Goes(q, place), asked' = asked,
         ContainerShape', \A n \in DOMAIN containers' : Remains(n) \/ IsNewOf(n, q),
         place \in {"pulling", "clearing", "running"} => "plan" \in DOMAIN req[q],
         HasLaunched(q) => place \in {"lingering", "started", "died"},
         \/ place \notin {"stopping", "stopping_each", "stopping_name", "stopped"}
         \/ place = "stopped" /\ StillUp(q)' = {}
  PROVE  LaunchInv'
<1>1. RequestShape /\ GoneOnlyByLeave
  BY DEF LaunchInv
<1>2. GoesOnTo(q, place) /\ OthersStay(q)
  BY <1>1, GoesIsToGoOn
<1>3. /\ req'[q].at = place /\ DOMAIN req'[q] = DOMAIN req[q]
      /\ req'[q].before = req[q].before
      /\ "plan" \in DOMAIN req[q] => req'[q].plan = req[q].plan
  BY <1>2 DEF GoesOnTo
<1>4. {"at", "before", "todo", "unheard"} \subseteq DOMAIN req'[q]
  BY <1>1, <1>3 DEF RequestShape
<1>5. HasLaunched(q) => HasLaunched(q)'
  BY <1>3 DEF HasLaunched
<1>6. "plan" \in DOMAIN req'[q] /\ req'[q].plan.auto_remove => MayGo(q)
  BY <1>1, <1>3 DEF GoneOnlyByLeave
<1>7. StopIsOnItsWay(q)'
  BY <1>3 DEF StopIsOnItsWay
<1> QED
  BY <1>2, <1>3, <1>4, <1>5, <1>6, <1>7, StepOfOne

LEMMA AllRemain ==
  ASSUME ContainerShape, containers' = containers
  PROVE  ContainerShape' /\ \A n \in DOMAIN containers' : Remains(n)
  BY DEF ContainerShape, Remains

LEMMA SessionKeeps ==
  ASSUME LaunchInv, NEW q \in Requests, Upgrade(q) \/ Hello(q)
  PROVE  LaunchInv'
<1>1. ContainerShape' /\ \A n \in DOMAIN containers' : Remains(n)
  BY AllRemain DEF LaunchInv, Upgrade, Hello
<1>2. asked' = asked
  BY DEF Upgrade, Hello
<1>3. PICK place \in {"closed", "awaiting_hello", "ready"} : Goes(q, place)
  BY DEF Upgrade, Hello
<1>4. ~HasLaunched(q)
  BY DEF Upgrade, Hello, At, HasLaunched
<1> QED
  BY <1>1, <1>2, <1>3, <1>4, GoingOnKeeps

LEMMA ArrivesKeeps ==
  ASSUME LaunchInv, NEW q \in Requests, Arrives(q)
  PROVE  LaunchInv'
<1>1. RequestShape /\ ContainerShape /\ LaunchedOnce /\ GoneOnlyByLeave
      /\ \A o \in Requests : StopIsOnItsWay(o)
  BY DEF LaunchInv
<1> DEFINE now_up == {<<n, containers[n].by>> : n \in Up(Managed)}
<1>2. /\ asked' = asked /\ containers' = containers
      /\ req' = [req EXCEPT ![q].at = "asked", ![q].before = now_up]
  BY DEF Arrives
<1>3. req[q].at \in {"ready", "new"}
  BY DEF Arrives, At
<1>4. \A x \in now_up : x[2] \in Requests => HasLaunched(x[2])
  BY <1>1 DEF LaunchedOnce, Up, Managed
<1> HIDE DEF now_up
<1>5. req'[q] = [req[q] EXCEPT !.at = "asked", !.before = now_up]
  BY <1>1, <1>2 DEF RequestShape
<1>6. {"at", "before", "todo", "unheard"} \subseteq DOMAIN req[q]
  BY <1>1 DEF RequestShape
<1>7. /\ req'[q].at = "asked" /\ req'[q].before = now_up /\ DOMAIN req'[q] = DOMAIN req[q]
      /\ "plan" \in DOMAIN req[q] => req'[q].plan = req[q].plan
  BY <1>5, <1>6
<1>8. /\ req' = [o \in Requests |-> req'[o]] /\ Requests' = Requests
      /\ \A o \in Requests : o # q => req'[o] = req[o]
  BY <1>1, <1>2 DEF RequestShape, Requests
<1>9. \A o \in Requests : HasLaunched(o) => req'[o].at \in {"lingering", "started", "died"}
  BY <1>3, <1>8 DEF HasLaunched
<1>10. RequestShape'
  BY <1>1, <1>7, <1>8 DEF RequestShape
<1>11. ContainerShape'
  BY <1>1, <1>2 DEF ContainerShape
<1>12. LaunchedOnce'
  <2>1. ASSUME NEW o \in Requests, NEW x \in req'[o].before, x[2] \in Requests
        PROVE  HasLaunched(x[2])
    BY <1>1, <1>4, <1>7, <1>8, <2>1 DEF LaunchedOnce
  <2> QED
    BY <1>1, <1>2, <1>8, <1>9, <2>1 DEF LaunchedOnce, HasLaunched
<1>13. ASSUME NEW o \in Requests PROVE StopIsOnItsWay(o)'
  <2>1. CASE o = q
    BY <1>7, <2>1 DEF StopIsOnItsWay
  <2>2. CASE o # q
    BY <1>1, <1>2, <1>8, <2>2 DEF StopIsOnItsWay, StillUp, Up, Managed
  <2> QED
    BY <2>1, <2>2
<1>14. GoneOnlyByLeave'
  <2>1. \A o \in Requests :
          "plan" \in DOMAIN req'[o] /\ req'[o].plan.auto_remove => MayGo(o)
    BY <1>1, <1>7, <1>8 DEF GoneOnlyByLeave
  <2> QED
    BY <1>1, <1>2, <1>8, <2>1 DEF GoneOnlyByLeave, MayGo, Remote
<1> QED
  BY <1>8, <1>10, <1>11, <1>12, <1>13, <1>14 DEF LaunchInv

LEMMA AgentPlanIsKept ==
  \A recipe, overrides : ~AgentPlan(recipe, overrides).auto_remove
  BY DEF AgentPlan, Translate

LEMMA CliPlanAsks ==
  \A a, recipe : CliPlan(a, recipe).auto_remove = ~a.no_rm
  BY DEF CliPlan, Translate

LEMMA LaunchKeeps ==
  ASSUME LaunchInv, NEW q \in Requests, AgentLaunch(q) \/ CliRun(q)
  PROVE  LaunchInv'
<1>1. ContainerShape' /\ \A n \in DOMAIN containers' : Remains(n)
  BY AllRemain DEF LaunchInv, AgentLaunch, CliRun
<1>2. asked' = asked /\ ~HasLaunched(q)
  BY DEF AgentLaunch, CliRun, At, HasLaunched
<1>3. CASE Goes(q, "refused")
  BY <1>1, <1>2, <1>3, GoingOnKeeps
<1>4. ASSUME NEW place \in {"clearing", "pulling"}, NEW plan, plan.auto_remove => MayGo(q),
             req' = [req EXCEPT ![q] =
                       [at |-> place, before |-> @.before, todo |-> {},
                        unheard |-> FALSE, plan |-> plan]]
      PROVE  LaunchInv'
  <2>1. RequestShape
    BY DEF LaunchInv
  <2>2. req'[q] = [at |-> place, before |-> req[q].before, todo |-> {},
                   unheard |-> FALSE, plan |-> plan]
    BY <1>4, <2>1 DEF RequestShape
  <2>3. OthersStay(q)
    BY <1>4, <2>1 DEF RequestShape, OthersStay
  <2>4. /\ {"at", "before", "todo", "unheard"} \subseteq DOMAIN req'[q]
        /\ "plan" \in DOMAIN req'[q] /\ req'[q].plan = plan
        /\ req'[q].before = req[q].before /\ req'[q].at = place
    BY <2>2
  <2>5. StopIsOnItsWay(q)'
    BY <2>4 DEF StopIsOnItsWay
  <2> QED
    BY <1>1, <1>2, <1>4, <2>3, <2>4, <2>5, StepOfOne
<1>5. CASE AgentLaunch(q) /\ ~Goes(q, "refused")
  BY <1>4, <1>5, AgentPlanIsKept DEF AgentLaunch
<1>6. CASE CliRun(q) /\ ~Goes(q, "refused")
  <2>1. PICK recipe \in Resolve(asked[q].ref) :
          req' = [req EXCEPT ![q] =
            [at |-> IF asked[q].no_pull THEN "clearing" ELSE "pulling",
             before |-> @.before, todo |-> {}, unheard |-> FALSE,
             plan |-> CliPlan(asked[q], recipe)]]
    BY <1>6 DEF CliRun
  <2>2. CliPlan(asked[q], recipe).auto_remove => MayGo(q)
    BY <1>6, CliPlanAsks DEF CliRun, MayGo, Remote
  <2> QED
    BY <1>4, <2>1, <2>2
<1> QED
  BY <1>3, <1>5, <1>6

LEMMA PullKeeps ==
  ASSUME LaunchInv, NEW q \in Requests, Pull(q)
  PROVE  LaunchInv'
<1>1. ContainerShape' /\ \A n \in DOMAIN containers' : Remains(n)
  BY AllRemain DEF LaunchInv, Pull
<1>2. asked' = asked /\ ~HasLaunched(q) /\ "plan" \in DOMAIN req[q]
  BY DEF LaunchInv, RequestShape, Pull, At, HasLaunched
<1>3. Goes(q, "clearing") \/ Goes(q, "failed")
  BY DEF Pull
<1> QED
  BY <1>1, <1>2, <1>3, GoingOnKeeps

LEMMA ClearKeeps ==
  ASSUME LaunchInv, NEW q \in Requests, ClearName(q)
  PROVE  LaunchInv'
<1>1. ContainerShape' /\ \A n \in DOMAIN containers' : Remains(n)
  BY AllRemain, WithoutRemain DEF LaunchInv, ClearName
<1>2. asked' = asked /\ ~HasLaunched(q) /\ "plan" \in DOMAIN req[q]
  BY DEF LaunchInv, RequestShape, ClearName, At, HasLaunched
<1>3. Goes(q, "running")
  BY DEF ClearName
<1> QED
  BY <1>1, <1>2, <1>3, GoingOnKeeps

LEMMA RunKeeps ==
  ASSUME LaunchInv, NEW q \in Requests, RunContainer(q)
  PROVE  LaunchInv'
<1>1. RequestShape /\ ContainerShape
  BY DEF LaunchInv
<1>2. asked' = asked /\ ~HasLaunched(q) /\ "plan" \in DOMAIN req[q]
  BY <1>1 DEF RequestShape, RunContainer, At, HasLaunched
<1>3. CASE Goes(q, "failed") /\ UNCHANGED containers
  <2>1. ContainerShape' /\ \A n \in DOMAIN containers' : Remains(n)
    BY <1>1, <1>3, AllRemain
  <2> QED
    BY <1>2, <1>3, <2>1, GoingOnKeeps
<1>4. CASE ~(Goes(q, "failed") /\ UNCHANGED containers)
  <2> DEFINE name == req[q].plan.name
             plan == req[q].plan
  <2>1. /\ name \notin DOMAIN containers
        /\ containers' = With(containers, name, [plan |-> plan, by |-> q, up |-> TRUE])
    BY <1>4 DEF RunContainer
  <2>2. PICK place \in {"started", "lingering"} : Goes(q, place)
    BY <1>4 DEF RunContainer
  <2> HIDE DEF name, plan
  <2>3. /\ ContainerShape' /\ DOMAIN containers' = DOMAIN containers \cup {name}
        /\ containers'[name].by = q /\ containers'[name].plan = plan
        /\ \A n \in DOMAIN containers : Remains(n)
    BY <1>1, <2>1, StartedIsNew
  <2>4. req'[q].at = place
    BY <1>1, <2>2, GoesIsToGoOn DEF GoesOnTo
  <2>5. HasLaunched(q)'
    BY <2>4 DEF HasLaunched
  <2>6. IsNewOf(name, q)
    BY <1>2, <2>3, <2>5 DEF IsNewOf, plan
  <2>7. \A n \in DOMAIN containers' : Remains(n) \/ IsNewOf(n, q)
    BY <2>3, <2>6
  <2> QED
    BY <1>2, <2>2, <2>3, <2>7, GoingOnKeeps
<1> QED
  BY <1>3, <1>4

LEMMA LooksKeeps ==
  ASSUME LaunchInv, NEW q \in Requests, DiedImmediately(q)
  PROVE  LaunchInv'
<1>1. ContainerShape' /\ \A n \in DOMAIN containers' : Remains(n)
  BY AllRemain DEF LaunchInv, DiedImmediately
<1>2. asked' = asked
  BY DEF DiedImmediately
<1>3. Goes(q, "died") \/ Goes(q, "started")
  BY DEF DiedImmediately
<1> QED
  BY <1>1, <1>2, <1>3, GoingOnKeeps

\* A stop that has listed what runs: what it found is before it.
LEMMA ListedKeeps ==
  ASSUME LaunchInv, NEW q \in Requests, NEW place, NEW found, NEW heard,
         req[q].at = "asked",
         UNCHANGED <<asked, containers>>, OthersStay(q),
         /\ req'[q].at = place /\ DOMAIN req'[q] = DOMAIN req[q]
         /\ req'[q].before = req[q].before /\ req'[q].todo = found
         /\ req'[q].unheard = heard
         /\ "plan" \in DOMAIN req[q] => req'[q].plan = req[q].plan,
         place \in {"stopping", "stopping_name", "stopping_each", "stopped", "failed"},
         place = "stopping" => \A n \in StillUp(q) : <<n, containers[n].by>> \in found,
         place = "stopping_each" /\ ~heard => StillUp(q) \subseteq found,
         place = "stopping_name" => StillUp(q) = {},
         place = "stopped" /\ ~heard => StillUp(q) = {}
  PROVE  LaunchInv'
<1>1. ContainerShape' /\ \A n \in DOMAIN containers' : Remains(n)
  BY AllRemain DEF LaunchInv
<1>2. RequestShape /\ GoneOnlyByLeave
  BY DEF LaunchInv
<1>3. {"at", "before", "todo", "unheard"} \subseteq DOMAIN req'[q]
  BY <1>2 DEF RequestShape
<1>4. "plan" \in DOMAIN req'[q] /\ req'[q].plan.auto_remove => MayGo(q)
  BY <1>2 DEF GoneOnlyByLeave
<1>5. StillUp(q)' = StillUp(q)
  BY DEF StillUp, Up, Managed
<1>6. StopIsOnItsWay(q)'
  BY <1>5 DEF StopIsOnItsWay, StillUp, Up, Managed
<1>7. ~HasLaunched(q)
  BY DEF HasLaunched
<1> QED
  BY <1>1, <1>3, <1>4, <1>6, <1>7, StepOfOne

LEMMA AgentListsKeeps ==
  ASSUME LaunchInv, NEW q \in Requests, AgentStopLists(q)
  PROVE  LaunchInv'
<1> DEFINE found == StopTargets(asked[q].ref.name)
           listed == {<<n, containers[n].by>> : n \in found}
           place == IF found = {} THEN "stopping_name" ELSE "stopping"
<1>1. /\ req[q].at = "asked" /\ asked[q].verb = "stop" /\ UNCHANGED <<asked, containers>>
      /\ \/ req' = [req EXCEPT ![q].at = place, ![q].todo = listed]
         \/ Goes(q, "failed")
  BY DEF AgentStopLists, At
<1>2. StillUp(q) \subseteq found
  BY <1>1 DEF StillUp, StopTargets, Labelled, Up, Managed
<1>3. \A n \in StillUp(q) : <<n, containers[n].by>> \in listed
  BY <1>2
<1>4. place = "stopping_name" => StillUp(q) = {}
  BY <1>2
<1>5. place \in {"stopping_name", "stopping"}
  OBVIOUS
<1> HIDE DEF found, listed, place
<1>6. RequestShape
  BY DEF LaunchInv
<1>7. CASE Goes(q, "failed")
  <2>1. ContainerShape' /\ \A n \in DOMAIN containers' : Remains(n)
    BY <1>1, AllRemain DEF LaunchInv
  <2>2. ~HasLaunched(q)
    BY <1>1 DEF HasLaunched
  <2> QED
    BY <1>1, <1>7, <2>1, <2>2, GoingOnKeeps
<1>8. CASE req' = [req EXCEPT ![q].at = place, ![q].todo = listed]
  <2>1. req'[q] = [req[q] EXCEPT !.at = place, !.todo = listed] /\ OthersStay(q)
    BY <1>6, <1>8 DEF RequestShape, OthersStay
  <2>2. /\ req'[q].at = place /\ DOMAIN req'[q] = DOMAIN req[q]
        /\ req'[q].before = req[q].before /\ req'[q].todo = listed
        /\ req'[q].unheard = req[q].unheard
        /\ "plan" \in DOMAIN req[q] => req'[q].plan = req[q].plan
    BY <1>6, <2>1 DEF RequestShape
  <2> QED
    BY <1>1, <1>3, <1>4, <1>5, <2>1, <2>2, ListedKeeps
<1> QED
  BY <1>1, <1>7, <1>8

LEMMA CliListsKeeps ==
  ASSUME LaunchInv, NEW q \in Requests, CliStopLists(q)
  PROVE  LaunchInv'
<1> DEFINE all == asked[q].verb = "stop_all"
           found == IF all THEN Up(Managed) ELSE Up(Labelled(LabelOf(asked[q].ref)))
<1>1. PICK none \in {"stopped", "failed"} :
        \/ req' = [req EXCEPT ![q].at = IF found = {} THEN none ELSE "stopping_each",
                              ![q].todo = found]
        \/ req' = [req EXCEPT ![q].at = IF all THEN "failed" ELSE none,
                              ![q].unheard = TRUE]
  <2> DEFINE none == IF all \/ Resolve(asked[q].ref) # {} THEN "stopped" ELSE "failed"
  <2>1. \/ req' = [req EXCEPT ![q].at = IF found = {} THEN none ELSE "stopping_each",
                              ![q].todo = found]
        \/ req' = [req EXCEPT ![q].at = IF all THEN "failed" ELSE none,
                              ![q].unheard = TRUE]
    BY DEF CliStopLists
  <2>2. none \in {"stopped", "failed"}
    OBVIOUS
  <2> HIDE DEF none, found, all
  <2> QED
    BY <2>1, <2>2
<1>2. /\ req[q].at = "asked" /\ asked[q].verb \in {"stop", "stop_all"}
      /\ UNCHANGED <<asked, containers>>
  BY DEF CliStopLists, At
<1>3. StillUp(q) \subseteq found
  BY <1>2, LabelIsTheName DEF StillUp, Labelled, Up, Managed
<1> DEFINE there == IF found = {} THEN none ELSE "stopping_each"
           silently == IF all THEN "failed" ELSE none
<1>4. /\ there \in {"stopping_each", "stopped", "failed"}
      /\ there = "stopped" => StillUp(q) = {}
      /\ silently \in {"stopped", "failed"}
  BY <1>3
<1>5. \/ req' = [req EXCEPT ![q].at = there, ![q].todo = found]
      \/ req' = [req EXCEPT ![q].at = silently, ![q].unheard = TRUE]
  BY <1>1
<1> HIDE DEF found, all, there, silently
<1>6. RequestShape
  BY DEF LaunchInv
<1>7. CASE req' = [req EXCEPT ![q].at = there, ![q].todo = found]
  <2>1. req'[q] = [req[q] EXCEPT !.at = there, !.todo = found] /\ OthersStay(q)
    BY <1>6, <1>7 DEF RequestShape, OthersStay
  <2>2. /\ req'[q].at = there /\ DOMAIN req'[q] = DOMAIN req[q]
        /\ req'[q].before = req[q].before /\ req'[q].todo = found
        /\ req'[q].unheard = req[q].unheard
        /\ "plan" \in DOMAIN req[q] => req'[q].plan = req[q].plan
    BY <1>6, <2>1 DEF RequestShape
  <2> QED
    BY <1>2, <1>3, <1>4, <2>1, <2>2, ListedKeeps
<1>8. CASE req' = [req EXCEPT ![q].at = silently, ![q].unheard = TRUE]
  <2>1. req'[q] = [req[q] EXCEPT !.at = silently, !.unheard = TRUE] /\ OthersStay(q)
    BY <1>6, <1>8 DEF RequestShape, OthersStay
  <2>2. /\ req'[q].at = silently /\ DOMAIN req'[q] = DOMAIN req[q]
        /\ req'[q].before = req[q].before /\ req'[q].todo = req[q].todo
        /\ req'[q].unheard = TRUE
        /\ "plan" \in DOMAIN req[q] => req'[q].plan = req[q].plan
    BY <1>6, <2>1 DEF RequestShape
  <2>3. silently \notin {"stopping", "stopping_each", "stopping_name"}
    BY <1>4
  <2> QED
    BY <1>2, <1>4, <2>1, <2>2, <2>3, ListedKeeps
<1> QED
  BY <1>5, <1>7, <1>8

LEMMA StopIdsKeeps ==
  ASSUME LaunchInv, NEW q \in Requests, StopIds(q)
  PROVE  LaunchInv'
<1> DEFINE here == {n \in DOMAIN containers : <<n, containers[n].by>> \in req[q].todo}
<1>1. ContainerShape /\ StopIsOnItsWay(q)
  BY DEF LaunchInv
<1>2. /\ req[q].at = "stopping" /\ asked' = asked
      /\ \/ /\ containers' = Ended(here)
            /\ Goes(q, "stopped") \/ Goes(q, "failed")
         \/ Goes(q, "failed") /\ UNCHANGED containers
  BY DEF StopIds, At
<1>3. StillUp(q) \subseteq here
  BY <1>1, <1>2 DEF StopIsOnItsWay, StillUp, Up, Managed
<1>4. here \in SUBSET DOMAIN containers
  OBVIOUS
<1> HIDE DEF here
<1>5. ~HasLaunched(q)
  BY <1>2 DEF HasLaunched
<1>6. CASE Goes(q, "failed") /\ UNCHANGED containers
  <2>1. ContainerShape' /\ \A n \in DOMAIN containers' : Remains(n)
    BY <1>1, <1>6, AllRemain
  <2> QED
    BY <1>2, <1>5, <1>6, <2>1, GoingOnKeeps
<1>7. CASE containers' = Ended(here) /\ (Goes(q, "stopped") \/ Goes(q, "failed"))
  <2>1. /\ ContainerShape'
        /\ \A n \in DOMAIN containers' : Remains(n) /\ (containers'[n].up => n \notin here)
    BY <1>1, <1>4, <1>7, EndedRemain
  <2>2. PICK place \in {"stopped", "failed"} : Goes(q, place)
    BY <1>7
  <2>3. req'[q].before = req[q].before
    BY <2>2, GoesIsToGoOn DEF LaunchInv, GoesOnTo
  <2>4. StillUp(q)' \subseteq StillUp(q)
    BY <1>2, <2>1, <2>3, LessIsUp
  <2>5. \A n \in StillUp(q)' : n \notin here
    BY <2>1 DEF StillUp, Up, Managed
  <2>6. StillUp(q)' = {}
    BY <1>3, <2>4, <2>5
  <2> QED
    BY <1>2, <1>5, <2>1, <2>2, <2>6, GoingOnKeeps
<1> QED
  BY <1>2, <1>6, <1>7

LEMMA StopNameKeeps ==
  ASSUME LaunchInv, NEW q \in Requests, StopName(q)
  PROVE  LaunchInv'
<1> DEFINE name == <<asked[q].ref.name>>
<1>1. ContainerShape /\ StopIsOnItsWay(q)
  BY DEF LaunchInv
<1>2. /\ req[q].at = "stopping_name" /\ asked' = asked
      /\ \/ /\ name \in DOMAIN containers
            /\ containers' = Ended({name})
            /\ Goes(q, "stopped")
         \/ Goes(q, "failed") /\ UNCHANGED containers
  BY DEF StopName, At
<1> HIDE DEF name
<1>3. StillUp(q) = {} /\ ~HasLaunched(q)
  BY <1>1, <1>2 DEF StopIsOnItsWay, HasLaunched
<1>4. CASE Goes(q, "failed") /\ UNCHANGED containers
  <2>1. ContainerShape' /\ \A n \in DOMAIN containers' : Remains(n)
    BY <1>1, <1>4, AllRemain
  <2> QED
    BY <1>2, <1>3, <1>4, <2>1, GoingOnKeeps
<1>5. CASE name \in DOMAIN containers /\ containers' = Ended({name}) /\ Goes(q, "stopped")
  <2>0. {name} \in SUBSET DOMAIN containers
    BY <1>5
  <2>1. ContainerShape' /\ \A n \in DOMAIN containers' : Remains(n)
    BY <1>1, <1>5, <2>0, EndedRemain
  <2>2. req'[q].before = req[q].before
    BY <1>5, GoesIsToGoOn DEF LaunchInv, GoesOnTo
  <2>3. StillUp(q)' \subseteq StillUp(q)
    BY <1>2, <2>1, <2>2, LessIsUp
  <2>4. StillUp(q)' = {}
    BY <1>3, <2>3
  <2> QED
    BY <1>2, <1>3, <1>5, <2>1, <2>4, GoingOnKeeps
<1> QED
  BY <1>2, <1>4, <1>5

LEMMA StopNextKeeps ==
  ASSUME LaunchInv, NEW q \in Requests, StopNext(q)
  PROVE  LaunchInv'
<1>1. RequestShape /\ ContainerShape /\ GoneOnlyByLeave /\ StopIsOnItsWay(q)
  BY DEF LaunchInv
<1>2. req[q].at = "stopping_each" /\ asked' = asked
  BY DEF StopNext, At
<1>3. ~req[q].unheard => StillUp(q) \subseteq req[q].todo
  BY <1>1, <1>2 DEF StopIsOnItsWay
<1>4. PICK name \in req[q].todo :
        \/ /\ containers' = Ended({name} \cap DOMAIN containers)
           /\ req' = [req EXCEPT ![q].todo = req[q].todo \ {name},
                ![q].at = IF req[q].todo \ {name} # {} THEN @
                          ELSE IF req[q].unheard THEN "failed" ELSE "stopped"]
        \/ /\ req' = [req EXCEPT ![q].todo = req[q].todo \ {name}, ![q].unheard = TRUE,
                ![q].at = IF req[q].todo \ {name} # {} THEN @ ELSE "failed"]
           /\ UNCHANGED containers
  BY Zenon DEF StopNext
<1> DEFINE rest == req[q].todo \ {name}
           done == IF rest # {} THEN req[q].at
                   ELSE IF req[q].unheard THEN "failed" ELSE "stopped"
           lost == IF rest # {} THEN req[q].at ELSE "failed"
<1>5. \/ /\ containers' = Ended({name} \cap DOMAIN containers)
         /\ OthersStay(q) /\ req'[q] = [req[q] EXCEPT !.todo = rest, !.at = done]
      \/ /\ UNCHANGED containers
         /\ OthersStay(q)
         /\ req'[q] = [req[q] EXCEPT !.todo = rest, !.unheard = TRUE, !.at = lost]
  BY <1>1, <1>4 DEF RequestShape, OthersStay
<1>6. /\ done \in {"stopping_each", "failed", "stopped"}
      /\ done = "stopped" => rest = {} /\ ~req[q].unheard
      /\ lost \in {"stopping_each", "failed"}
  BY <1>2
<1>7. {"at", "before", "todo", "unheard"} \subseteq DOMAIN req[q]
  BY <1>1 DEF RequestShape
<1>8. ~HasLaunched(q)
  BY <1>2 DEF HasLaunched
<1>9. ASSUME req'[q].before = req[q].before, DOMAIN req'[q] = DOMAIN req[q],
             "plan" \in DOMAIN req[q] => req'[q].plan = req[q].plan
      PROVE  /\ {"at", "before", "todo", "unheard"} \subseteq DOMAIN req'[q]
             /\ "plan" \in DOMAIN req'[q] /\ req'[q].plan.auto_remove => MayGo(q)
  BY <1>1, <1>7, <1>9 DEF GoneOnlyByLeave
<1>10. StillUp(q) \ {name} \subseteq rest \/ req[q].unheard
  BY <1>3
<1>11. \A n : n \notin rest /\ n # name => n \notin req[q].todo
  OBVIOUS
<1> HIDE DEF rest, done, lost
<1>12. CASE /\ containers' = Ended({name} \cap DOMAIN containers)
            /\ OthersStay(q) /\ req'[q] = [req[q] EXCEPT !.todo = rest, !.at = done]
  <2>1. /\ req'[q].before = req[q].before /\ DOMAIN req'[q] = DOMAIN req[q]
        /\ "plan" \in DOMAIN req[q] => req'[q].plan = req[q].plan
        /\ req'[q].todo = rest /\ req'[q].at = done /\ req'[q].unheard = req[q].unheard
    BY <1>7, <1>12
  <2>2. {name} \cap DOMAIN containers \in SUBSET DOMAIN containers
    OBVIOUS
  <2>3. /\ ContainerShape'
        /\ \A n \in DOMAIN containers' :
             Remains(n) /\ (containers'[n].up => n \notin {name} \cap DOMAIN containers)
    BY <1>1, <1>12, <2>2, EndedRemain
  <2>4. StillUp(q)' \subseteq StillUp(q)
    BY <1>2, <2>1, <2>3, LessIsUp
  <2>5. name \notin StillUp(q)'
    BY <2>3 DEF StillUp, Up, Managed, Remains
  <2>6. StopIsOnItsWay(q)'
    BY <1>6, <1>10, <2>1, <2>4, <2>5 DEF StopIsOnItsWay
  <2> QED
    BY <1>2, <1>6, <1>8, <1>9, <1>12, <2>1, <2>3, <2>6, StepOfOne
<1>13. CASE /\ UNCHANGED containers
            /\ OthersStay(q)
            /\ req'[q] = [req[q] EXCEPT !.todo = rest, !.unheard = TRUE, !.at = lost]
  <2>1. /\ req'[q].before = req[q].before /\ DOMAIN req'[q] = DOMAIN req[q]
        /\ "plan" \in DOMAIN req[q] => req'[q].plan = req[q].plan
        /\ req'[q].todo = rest /\ req'[q].at = lost /\ req'[q].unheard = TRUE
    BY <1>7, <1>13
  <2>3. ContainerShape' /\ \A n \in DOMAIN containers' : Remains(n)
    BY <1>1, <1>13, AllRemain
  <2>6. StopIsOnItsWay(q)'
    BY <1>6, <2>1 DEF StopIsOnItsWay
  <2> QED
    BY <1>2, <1>6, <1>8, <1>9, <1>13, <2>1, <2>3, <2>6, StepOfOne
<1> QED
  BY <1>5, <1>12, <1>13

LEMMA ExitsKeeps ==
  ASSUME LaunchInv, NEW n \in DOMAIN containers, Exits(n)
  PROVE  LaunchInv'
<1>1. /\ asked' = asked /\ req' = req /\ containers' = Ended({n})
  BY DEF Exits
<1>2. {n} \in SUBSET DOMAIN containers
  OBVIOUS
<1>3. ContainerShape' /\ \A m \in DOMAIN containers' : Remains(m)
  BY <1>1, <1>2, EndedRemain DEF LaunchInv
<1> QED
  BY <1>1, <1>3, ContainersOnlyEnd

LEMMA LaunchInvInit == LocalInit => LaunchInv
<1> SUFFICES ASSUME LocalInit PROVE LaunchInv
  OBVIOUS
<1>1. PICK scene \in Scenes :
        /\ asked = scene.asked
        /\ containers = scene.containers
        /\ req = [q \in DOMAIN scene.asked |->
                    [at |-> "new", before |-> {}, todo |-> {}, unheard |-> FALSE]]
  BY DEF LocalInit
<1>2. /\ 0 \notin Requests
      /\ \A n \in DOMAIN containers :
           /\ {"plan", "by", "up"} \subseteq DOMAIN containers[n]
           /\ containers[n].by = 0 /\ containers[n].plan.auto_remove = FALSE
  BY <1>1, LocalAssumption DEF Requests
<1>3. \A q \in Requests :
        req[q] = [at |-> "new", before |-> {}, todo |-> {}, unheard |-> FALSE]
  BY <1>1 DEF Requests
<1>4. \A q \in Requests :
        /\ DOMAIN req[q] = {"at", "before", "todo", "unheard"}
        /\ req[q].at = "new" /\ req[q].before = {}
  BY <1>3
<1>5. RequestShape
  BY <1>1, <1>4 DEF RequestShape, Requests
<1>6. ContainerShape /\ LaunchedOnce /\ GoneOnlyByLeave
  BY <1>2, <1>4 DEF ContainerShape, LaunchedOnce, GoneOnlyByLeave
<1>7. \A q \in Requests : StopIsOnItsWay(q)
  BY <1>4 DEF StopIsOnItsWay
<1> QED
  BY <1>5, <1>6, <1>7 DEF LaunchInv

LEMMA LaunchInvNext == LaunchInv /\ [Next]_vars => LaunchInv'
<1> SUFFICES ASSUME LaunchInv, [Next]_vars PROVE LaunchInv'
  OBVIOUS
<1>1. CASE LocalNext
  <2>1. CASE \E n \in DOMAIN containers : Exits(n)
    BY <2>1, ExitsKeeps
  <2>2. CASE \E q \in Requests :
       \/ Upgrade(q) \/ Hello(q) \/ Arrives(q)
       \/ AgentLaunch(q) \/ CliRun(q) \/ Pull(q)
       \/ ClearName(q) \/ RunContainer(q) \/ DiedImmediately(q)
       \/ AgentStopLists(q) \/ StopIds(q) \/ StopName(q)
       \/ CliStopLists(q) \/ StopNext(q)
    BY <2>2, SessionKeeps, ArrivesKeeps, LaunchKeeps, PullKeeps, ClearKeeps, RunKeeps,
       LooksKeeps, AgentListsKeeps, StopIdsKeeps, StopNameKeeps, CliListsKeeps, StopNextKeeps
  <2> QED
    BY <1>1, <2>1, <2>2 DEF LocalNext
<1>2. CASE UNCHANGED localVars
  <2>1. UNCHANGED <<asked, req, containers>>
    BY <1>2 DEF localVars
  <2>2. ContainerShape' /\ \A n \in DOMAIN containers' : Remains(n)
    BY <2>1, AllRemain DEF LaunchInv
  <2> QED
    BY <2>1, <2>2, ContainersOnlyEnd
<1> QED
  BY <1>1, <1>2 DEF Next, vars, localVars

LEMMA LaunchInvHolds == Spec => []LaunchInv
<1>1. Init => LaunchInv
  BY LaunchInvInit DEF Init
<1> QED
  BY <1>1, LaunchInvNext, PTL DEF Spec

\* A stop answered with success has stopped whatever ran of the recipe when it
\* came, under whatever name, the ranks of a cluster too, while models exit and
\* other requests launch and stop beside it (launcher/docker.rs, stop;
\* lifecycle.rs, stop_each).
THEOREM StopsReachEverything == Spec => []StopReachesEveryContainer
<1>1. LaunchInv => StopReachesEveryContainer
  BY DEF LaunchInv, StopIsOnItsWay, StopReachesEveryContainer, SaidStopped
<1> QED
  BY <1>1, LaunchInvHolds, PTL

\* Of the containers that are to be kept, none goes in a step that ends some.
LEMMA KeptOutlive ==
  ASSUME LaunchInv, NEW names \in SUBSET DOMAIN containers, containers' = Ended(names),
         NEW n \in DOMAIN containers, ToBeKept(n)
  PROVE  n \in DOMAIN containers' /\ containers'[n].by = containers[n].by
<1>1. ~containers[n].plan.auto_remove
  BY DEF LaunchInv, GoneOnlyByLeave, MayGo, ToBeKept
<1>2. n \in DOMAIN containers'
  BY <1>1, EndedRemain DEF LaunchInv
<1> QED
  BY <1>2, EndedRemain DEF LaunchInv, Remains

\* What was started to be kept is taken away only by the launch that takes its
\* name: no stop and no exit takes the log of a dead model with it
\* (launcher/docker.rs:73-76).
THEOREM KeptIsKept == Spec => EvidenceStays
<1> DEFINE Gone(n) == n \in DOMAIN containers' => containers'[n].by # containers[n].by
           Takes(q, n) == /\ req[q].at = "clearing" /\ req'[q].at = "running"
                          /\ req[q].plan.name = n
           Stays == \A n \in DOMAIN containers :
                      ToBeKept(n) /\ Gone(n) => \E q \in Requests : Takes(q, n)
<1>1. ASSUME LaunchInv, [Next]_vars PROVE Stays
  <2> SUFFICES ASSUME NEW n \in DOMAIN containers, ToBeKept(n), Gone(n)
               PROVE  \E q \in Requests : Takes(q, n)
    OBVIOUS
  <2>1. ~UNCHANGED containers
    OBVIOUS
  <2>2. \A names \in SUBSET DOMAIN containers : containers' # Ended(names)
    BY <1>1, KeptOutlive
  <2>3. CASE \E m \in DOMAIN containers : Exits(m)
    BY <2>2, <2>3 DEF Exits
  <2>4. ASSUME NEW q \in Requests, ClearName(q) PROVE \E p \in Requests : Takes(p, n)
    <3>1. containers' = Without(containers, {req[q].plan.name}) /\ Goes(q, "running")
          /\ req[q].at = "clearing"
      BY <2>1, <2>4 DEF ClearName, At
    <3>2. req'[q].at = "running"
      BY <1>1, <3>1, GoesIsToGoOn DEF LaunchInv, GoesOnTo
    <3>3. n = req[q].plan.name
      BY <1>1, <3>1, WithoutRemain DEF LaunchInv, Remains
    <3> QED
      BY <3>1, <3>2, <3>3
  <2>5. ASSUME NEW q \in Requests, RunContainer(q) PROVE FALSE
    <3> DEFINE name == req[q].plan.name
               plan == req[q].plan
    <3>1. /\ name \notin DOMAIN containers
          /\ containers' = With(containers, name, [plan |-> plan, by |-> q, up |-> TRUE])
      BY <2>1, <2>5 DEF RunContainer
    <3> HIDE DEF name, plan
    <3>2. Remains(n) /\ n \in DOMAIN containers'
      BY <1>1, <3>1, StartedIsNew DEF LaunchInv
    <3> QED
      BY <3>2 DEF Remains
  <2>6. ASSUME NEW q \in Requests, StopIds(q) \/ StopName(q) \/ StopNext(q) PROVE FALSE
    <3>1. \E names \in SUBSET DOMAIN containers : containers' = Ended(names)
      <4>1. CASE StopIds(q)
        BY <2>1, <4>1 DEF StopIds
      <4>2. CASE StopName(q)
        BY <2>1, <4>2 DEF StopName
      <4>3. CASE StopNext(q)
        <5>1. PICK name \in req[q].todo : containers' = Ended({name} \cap DOMAIN containers)
          BY <2>1, <4>3 DEF StopNext
        <5> QED
          BY <5>1
      <4> QED
        BY <2>6, <4>1, <4>2, <4>3
    <3> QED
      BY <2>2, <3>1
  <2>7. ASSUME NEW q \in Requests,
               \/ Upgrade(q) \/ Hello(q) \/ Arrives(q) \/ AgentLaunch(q) \/ CliRun(q)
               \/ Pull(q) \/ DiedImmediately(q) \/ AgentStopLists(q) \/ CliStopLists(q)
        PROVE  FALSE
    BY <2>1, <2>7 DEF Upgrade, Hello, Arrives, AgentLaunch, CliRun, Pull, DiedImmediately,
                      AgentStopLists, CliStopLists
  <2>8. LocalNext
    BY <1>1, <2>1 DEF Next, vars, localVars
  <2> HIDE DEF Gone, Takes
  <2> QED
    BY <2>3, <2>4, <2>5, <2>6, <2>7, <2>8 DEF LocalNext
<1>2. LaunchInv /\ [Next]_vars =>
        [\A n \in DOMAIN containers :
           /\ ToBeKept(n)
           /\ n \in DOMAIN containers' => containers'[n].by # containers[n].by
           => \E q \in Requests : /\ req[q].at = "clearing"
                                  /\ req'[q].at = "running"
                                  /\ req[q].plan.name = n]_vars
  BY <1>1
<1>3. Init => LaunchInv
  BY LaunchInvInit DEF Init
<1> QED
  BY <1>2, <1>3, LaunchInvNext, PTL DEF Spec, EvidenceStays

-----------------------------------------------------------------------------
(* The command a launch comes to: Settings, LaunchCommand *)

LEMMA OverIs ==
  ASSUME NEW f, NEW g
  PROVE  /\ DOMAIN Over(f, g) = DOMAIN f \cup DOMAIN g
         /\ \A k \in DOMAIN f : Over(f, g)[k] = f[k]
         /\ \A k \in DOMAIN g \ DOMAIN f : Over(f, g)[k] = g[k]
  BY DEF Over

\* The keys of the tables.
EngineKeys ==
  {"port", "tensor_parallel", "ep_size", "max_batch_size", "max_num_seqs",
   "max_prefill_tokens", "max_num_batched_tokens", "scheduling_policy",
   "tbt_deadline_ms", "enable_prefix_caching",
   "gpu_memory_utilization", "max_model_len", "kv_cache_dtype",
   "kv_high_precision_layers", "block_size", "oom_guard_mb",
   "fp8_kv_calibration_tokens", "ssm_cache_slots", "ssm_checkpoint_interval",
   "speculative", "self_speculative", "ngram_speculative", "dflash", "num_drafts",
   "mtp_quantization", "dflash_gamma", "dflash_window_size",
   "tool_max_tokens", "disable_tool_grammar", "disable_thinking",
   "max_thinking_budget", "lm_head_dtype", "ssm_h_dtype", "gdn_fused_norm",
   "ssm_batched_recurrent", "ssm_tail_midchunk", "prefill_varlen_batch", "mtp_gate",
   "request_timeout"}

LEMMA SchemaKeys == DOMAIN Schema = EngineKeys
<1>1. DOMAIN Schema = (DOMAIN EXPOSED \cup DOMAIN EXPOSED_MEMORY) \cup
                      (DOMAIN EXPOSED_SPECULATIVE \cup DOMAIN EXPOSED_ENGINE)
  <2> DEFINE a == Over(EXPOSED, EXPOSED_MEMORY)
             b == Over(EXPOSED_SPECULATIVE, EXPOSED_ENGINE)
  <2>1. /\ DOMAIN a = DOMAIN EXPOSED \cup DOMAIN EXPOSED_MEMORY
        /\ DOMAIN b = DOMAIN EXPOSED_SPECULATIVE \cup DOMAIN EXPOSED_ENGINE
    BY OverIs
  <2>2. Schema = Over(a, b)
    BY DEF Schema
  <2> HIDE DEF a, b
  <2>3. DOMAIN Over(a, b) = DOMAIN a \cup DOMAIN b
    BY OverIs
  <2> QED
    BY <2>1, <2>2, <2>3
<1>2. DOMAIN EXPOSED = {"port", "tensor_parallel", "ep_size", "max_batch_size", "max_num_seqs",
   "max_prefill_tokens", "max_num_batched_tokens", "scheduling_policy",
   "tbt_deadline_ms", "enable_prefix_caching"}
  BY DEF EXPOSED
<1>3. DOMAIN EXPOSED_MEMORY = {"gpu_memory_utilization", "max_model_len", "kv_cache_dtype",
   "kv_high_precision_layers", "block_size", "oom_guard_mb",
   "fp8_kv_calibration_tokens", "ssm_cache_slots", "ssm_checkpoint_interval"}
  BY DEF EXPOSED_MEMORY
<1>4. DOMAIN EXPOSED_SPECULATIVE = {"speculative", "self_speculative", "ngram_speculative", "dflash", "num_drafts",
   "mtp_quantization", "dflash_gamma", "dflash_window_size"}
  BY DEF EXPOSED_SPECULATIVE
<1>5. DOMAIN EXPOSED_ENGINE = {"tool_max_tokens", "disable_tool_grammar", "disable_thinking",
   "max_thinking_budget", "lm_head_dtype", "ssm_h_dtype", "gdn_fused_norm",
   "ssm_batched_recurrent", "ssm_tail_midchunk", "prefill_varlen_batch", "mtp_gate",
   "request_timeout"}
  BY DEF EXPOSED_ENGINE
<1> QED
  BY <1>1, <1>2, <1>3, <1>4, <1>5 DEF EngineKeys

LEMMA KeysOfFlags ==
  /\ "auth_token" \notin FlagKeys /\ "api_key" \in FlagKeys
  /\ FlagOf("auth_token") = "auth_token" /\ FlagOf("api_key") = "auth_token"
  /\ DOMAIN Schema \cap DENIED = {}
  /\ \A k \in FlagKeys : FlagOf(k) \notin {"rank", "world_size", "master_addr", "master_port"}
  /\ \A k \in FlagKeys : FlagOf(k) = "port" <=> k = "port"
<1>1. DOMAIN Schema \cap DENIED = {}
  BY SchemaKeys DEF EngineKeys, DENIED
<1>2. ASSUME NEW k \in FlagKeys
      PROVE /\ FlagOf(k) \notin {"rank", "world_size", "master_addr", "master_port"}
            /\ FlagOf(k) = "port" <=> k = "port"
  <2>1. k \notin {"rank", "world_size", "master_addr", "master_port"}
    BY SchemaKeys DEF EngineKeys, DENIED, FlagKeys
  <2> QED
    BY <2>1 DEF FlagOf
<1>3. "auth_token" \notin FlagKeys /\ "api_key" \in FlagKeys
  BY SchemaKeys DEF EngineKeys, DENIED, FlagKeys
<1> QED
  BY <1>1, <1>2, <1>3 DEF FlagOf

LEMMA Layered ==
  ASSUME NEW defaults, NEW overrides
  PROVE  LET r == ResolvedConfig(defaults, overrides)
             all == DOMAIN defaults \cup DOMAIN overrides IN
         /\ "auth_token" \notin DOMAIN r
         /\ \A k \in DOMAIN r : k \in all \/ (k = "api_key" /\ "auth_token" \in all)
         /\ \A k \in DOMAIN overrides \ {"auth_token"} : k \in DOMAIN r /\ r[k] = overrides[k]
         /\ \A k \in DOMAIN defaults \ (DOMAIN overrides \cup {"auth_token"}) :
              k \in DOMAIN r /\ r[k] = defaults[k]
         /\ "api_key" \notin all /\ "auth_token" \in DOMAIN overrides =>
              "api_key" \in DOMAIN r /\ r["api_key"] = overrides["auth_token"]
         /\ "api_key" \notin all /\ "auth_token" \in DOMAIN defaults \ DOMAIN overrides =>
              "api_key" \in DOMAIN r /\ r["api_key"] = defaults["auth_token"]
<1> DEFINE m == Over(overrides, defaults)
           rest == [k \in DOMAIN m \ {"auth_token"} |-> m[k]]
           alias == [api_key |-> m["auth_token"]]
           r == ResolvedConfig(defaults, overrides)
<1>1. /\ DOMAIN m = DOMAIN overrides \cup DOMAIN defaults
      /\ \A k \in DOMAIN overrides : m[k] = overrides[k]
      /\ \A k \in DOMAIN defaults \ DOMAIN overrides : m[k] = defaults[k]
  BY OverIs
<1>2. r = IF "auth_token" \in DOMAIN m THEN Over(rest, alias) ELSE rest
  BY DEF ResolvedConfig, Normalize
<1>3. DOMAIN rest = DOMAIN m \ {"auth_token"} /\ \A k \in DOMAIN rest : rest[k] = m[k]
  OBVIOUS
<1>4. DOMAIN alias = {"api_key"} /\ alias["api_key"] = m["auth_token"]
  OBVIOUS
<1> HIDE DEF m, rest, alias, r
<1>5. CASE "auth_token" \in DOMAIN m
  <2>1. r = Over(rest, alias)
    BY <1>2, <1>5
  <2>2. DOMAIN r = DOMAIN rest \cup DOMAIN alias
    BY <2>1, OverIs
  <2>3. \A k \in DOMAIN rest : r[k] = rest[k]
    BY <2>1, OverIs
  <2>4. \A k \in DOMAIN alias \ DOMAIN rest : r[k] = alias[k]
    BY <2>1 DEF Over
  <2> QED
    BY <1>1, <1>3, <1>4, <1>5, <2>2, <2>3, <2>4 DEF r
<1>6. CASE "auth_token" \notin DOMAIN m
  BY <1>1, <1>2, <1>3, <1>6 DEF r
<1> QED
  BY <1>5, <1>6

LEMMA RankArguments ==
  ASSUME NEW p
  PROVE  /\ \A a \in RankFlags(p) :
              \/ a.flag \in {"rank", "world_size", "master_addr", "master_port"}
              \/ a = [key |-> "worker", flag |-> "port", value |-> "0"] /\ "port" \in Skipped(p)
         /\ \A x, y \in RankFlags(p) : x.flag = y.flag => x = y
         /\ "port" \in Skipped(p) =>
              [key |-> "worker", flag |-> "port", value |-> "0"] \in RankFlags(p)
         /\ Skipped(p) \subseteq {"port"}
<1> DEFINE own == {[key |-> f, flag |-> f, value |-> ToString(p[f])] :
                     f \in {"rank", "world_size", "master_addr"}}
           port == {[key |-> "master_port", flag |-> "master_port", value |-> "29500"]}
           worker == [key |-> "worker", flag |-> "port", value |-> "0"]
<1>1. CASE p.solo
  BY <1>1 DEF RankFlags, Skipped
<1>2. CASE ~p.solo
  <2>1. RankFlags(p) = own \cup port \cup (IF p.rank > 0 THEN {worker} ELSE {})
    BY <1>2 DEF RankFlags
  <2>2. Skipped(p) = IF p.rank > 0 THEN {"port"} ELSE {}
    BY <1>2 DEF Skipped
  <2>3. \A a \in own : a.flag \in {"rank", "world_size", "master_addr"}
    OBVIOUS
  <2>4. \A x, y \in own : x.flag = y.flag => x = y
    OBVIOUS
  <2>5. \A a \in port : a.flag = "master_port" /\ \A b \in port : a = b
    OBVIOUS
  <2>6. worker.flag = "port"
    OBVIOUS
  <2> HIDE DEF own, port, worker
  <2>7. \A a \in RankFlags(p) : a \in own \/ a \in port \/ (a = worker /\ p.rank > 0)
    BY <2>1
  <2>8. \A x, y \in RankFlags(p) : x.flag = y.flag => x = y
    BY <2>3, <2>4, <2>5, <2>6, <2>7
  <2> QED
    BY <2>1, <2>2, <2>3, <2>5, <2>7, <2>8 DEF worker
<1> QED
  BY <1>1, <1>2

\* With no two keys of one flag, the engine gets each flag once and with the
\* value its key has, but for what the placement decides.
LEMMA FlagsServe ==
  ASSUME NEW resolved, NEW p, ~AliasConflict(resolved)
  PROVE  LET args  == ServeFlags(resolved, Skipped(p)) \cup RankFlags(p)
             fixed == {a.flag : a \in RankFlags(p)}
             keys  == DOMAIN resolved \cap FlagKeys IN
         /\ \A x, y \in args : x.flag = y.flag => x = y
         /\ \A k \in keys : FlagOf(k) \notin fixed => Serves(args, k, resolved[k])
         /\ \A a \in args : a.flag \in fixed \/ \E k \in keys : a.flag = FlagOf(k)
<1> DEFINE serve == ServeFlags(resolved, Skipped(p))
           rank  == RankFlags(p)
           fixed == {a.flag : a \in rank}
           keys  == DOMAIN resolved \cap FlagKeys
           Arg(k) == [key |-> k, flag |-> FlagOf(k),
                      value |-> IF k \in TOGGLES THEN "" ELSE Render(resolved[k])]
           on    == {k \in keys \ Skipped(p) : k \in TOGGLES => Truthy(resolved[k])}
<1>1. serve = {Arg(k) : k \in on}
  BY DEF ServeFlags
<1>2. \A k : Arg(k).flag = FlagOf(k) /\ Arg(k).value = IF k \in TOGGLES THEN "" ELSE Render(resolved[k])
  OBVIOUS
<1>3. \A k1, k2 \in keys : FlagOf(k1) = FlagOf(k2) => k1 = k2
  BY DEF AliasConflict
<1>4. on \subseteq keys /\ \A k \in keys : k \notin Skipped(p) /\ (k \in TOGGLES => Truthy(resolved[k])) => k \in on
  OBVIOUS
<1>5. \A k \in on : k \in TOGGLES => Truthy(resolved[k])
  OBVIOUS
<1>6. \A a \in rank : a.flag \in fixed
  OBVIOUS
<1>7. \A k \in on : FlagOf(k) \notin fixed
  <2> SUFFICES ASSUME NEW k \in on, NEW a \in rank, a.flag = FlagOf(k) PROVE FALSE
    OBVIOUS
  <2>1. k \in FlagKeys /\ k \notin Skipped(p)
    OBVIOUS
  <2>2. a.flag = "port" /\ "port" \in Skipped(p)
    BY <2>1, KeysOfFlags, RankArguments
  <2> QED
    BY <2>1, <2>2, KeysOfFlags
<1>8. \A k \in keys : FlagOf(k) \notin fixed => k \notin Skipped(p)
  <2> SUFFICES ASSUME NEW k \in keys, k \in Skipped(p) PROVE FlagOf(k) \in fixed
    OBVIOUS
  <2>1. k = "port"
    BY RankArguments
  <2>2. [key |-> "worker", flag |-> "port", value |-> "0"] \in rank
    BY <2>1, RankArguments
  <2>3. "port" \in fixed
    BY <2>2, <1>6
  <2> QED
    BY <2>1, <2>3, KeysOfFlags
<1>9. \A x, y \in rank : x.flag = y.flag => x = y
  BY RankArguments
<1> HIDE DEF serve, rank, fixed, keys, Arg, on
<1>10. \A x, y \in serve \cup rank : x.flag = y.flag => x = y
  <2> SUFFICES ASSUME NEW x \in serve \cup rank, NEW y \in serve \cup rank, x.flag = y.flag
               PROVE  x = y
    OBVIOUS
  <2>1. \A z \in serve : z.flag \notin fixed /\ \E k \in on : z = Arg(k)
    BY <1>1, <1>2, <1>7
  <2> QED
    BY <1>2, <1>3, <1>4, <1>6, <1>9, <2>1
<1>11. ASSUME NEW k \in keys, FlagOf(k) \notin fixed PROVE Serves(serve \cup rank, k, resolved[k])
  <2>1. k \notin Skipped(p)
    BY <1>8, <1>11
  <2>2. k \in on => Arg(k) \in serve
    BY <1>1
  <2>3. \A a \in serve \cup rank : a.flag = FlagOf(k) => k \in on
    <3> SUFFICES ASSUME NEW a \in serve \cup rank, a.flag = FlagOf(k) PROVE k \in on
      OBVIOUS
    <3>1. a \in serve
      BY <1>6, <1>11
    <3>2. PICK j \in on : a = Arg(j)
      BY <1>1, <3>1
    <3> QED
      BY <1>2, <1>3, <1>4, <3>2
  <2>4. CASE k \in TOGGLES
    <3>1. k \in on <=> Truthy(resolved[k])
      BY <1>4, <1>5, <2>1, <2>4
    <3> QED
      BY <1>2, <2>2, <2>3, <2>4, <3>1 DEF Serves
  <2>5. CASE k \notin TOGGLES
    <3>1. k \in on
      BY <1>4, <2>1, <2>5
    <3> QED
      BY <1>2, <2>2, <2>5, <3>1 DEF Serves
  <2> QED
    BY <2>4, <2>5
<1>12. \A a \in serve \cup rank : a.flag \in fixed \/ \E k \in keys : a.flag = FlagOf(k)
  BY <1>1, <1>2, <1>4, <1>6
<1> QED
  BY <1>10, <1>11, <1>12 DEF serve, rank, fixed, keys

\* What was asked for is served, and the recipe's own where nothing was.
LEMMA LayersServe ==
  ASSUME NEW defaults, NEW want, NEW p, ~AliasConflict(ResolvedConfig(defaults, want))
  PROVE  LET args    == ServeFlags(ResolvedConfig(defaults, want), Skipped(p)) \cup RankFlags(p)
             fixed   == {a.flag : a \in RankFlags(p)}
             sought  == Spelled(want, defaults)
             shipped == Spelled(defaults, want)
             wanted  == {FlagOf(k) : k \in sought}
             given   == {FlagOf(k) : k \in shipped} IN
         /\ \A x, y \in args : x.flag = y.flag => x = y
         /\ \A k \in sought : FlagOf(k) \notin fixed => Serves(args, k, want[k])
         /\ \A k \in shipped :
              FlagOf(k) \notin fixed \cup wanted => Serves(args, k, defaults[k])
         /\ {a.flag : a \in args} \subseteq fixed \cup wanted \cup given
<1> DEFINE r     == ResolvedConfig(defaults, want)
           args  == ServeFlags(r, Skipped(p)) \cup RankFlags(p)
           fixed == {a.flag : a \in RankFlags(p)}
           keys  == DOMAIN r \cap FlagKeys
           all   == DOMAIN defaults \cup DOMAIN want
           sought  == Spelled(want, defaults)
           shipped == Spelled(defaults, want)
           wanted  == {FlagOf(k) : k \in sought}
           given   == {FlagOf(k) : k \in shipped}
<1>1. /\ \A k \in DOMAIN r : k \in all \/ (k = "api_key" /\ "auth_token" \in all)
      /\ \A k \in DOMAIN want \ {"auth_token"} : k \in DOMAIN r /\ r[k] = want[k]
      /\ \A k \in DOMAIN defaults \ (DOMAIN want \cup {"auth_token"}) :
           k \in DOMAIN r /\ r[k] = defaults[k]
      /\ "api_key" \notin all /\ "auth_token" \in DOMAIN want =>
           "api_key" \in DOMAIN r /\ r["api_key"] = want["auth_token"]
      /\ "api_key" \notin all /\ "auth_token" \in DOMAIN defaults \ DOMAIN want =>
           "api_key" \in DOMAIN r /\ r["api_key"] = defaults["auth_token"]
  BY Layered
<1>2. /\ \A x, y \in args : x.flag = y.flag => x = y
      /\ \A k \in keys : FlagOf(k) \notin fixed => Serves(args, k, r[k])
      /\ \A a \in args : a.flag \in fixed \/ \E k \in keys : a.flag = FlagOf(k)
  BY FlagsServe
<1>3. /\ \A k : k \in sought <=> /\ k \in DOMAIN want
                                 /\ k \in FlagKeys \/ (k = "auth_token" /\ "api_key" \notin all)
      /\ \A k : k \in shipped <=> /\ k \in DOMAIN defaults
                                  /\ k \in FlagKeys \/ (k = "auth_token" /\ "api_key" \notin all)
  BY DEF Spelled
<1>4. /\ \A k \in sought : FlagOf(k) \in wanted
      /\ \A k \in shipped : FlagOf(k) \in given
  OBVIOUS
<1>5. \A v : Serves(args, "api_key", v) <=> Serves(args, "auth_token", v)
  BY KeysOfFlags DEF Serves, TOGGLES
<1>6. "auth_token" \notin FlagKeys /\ "api_key" \in FlagKeys /\ FlagOf("auth_token") = FlagOf("api_key")
  BY KeysOfFlags
<1> HIDE DEF r, args, fixed, all, sought, shipped, wanted, given
<1>7. ASSUME NEW k \in sought, FlagOf(k) \notin fixed PROVE Serves(args, k, want[k])
  <2>1. CASE k \in FlagKeys
    BY <1>1, <1>2, <1>3, <1>6, <1>7, <2>1
  <2>2. CASE k \notin FlagKeys
    <3>1. k = "auth_token" /\ "api_key" \notin all /\ k \in DOMAIN want
      BY <1>3, <2>2
    <3>2. "api_key" \in keys /\ r["api_key"] = want["auth_token"]
      BY <1>1, <1>6, <3>1
    <3> QED
      BY <1>2, <1>5, <1>6, <1>7, <3>1, <3>2
  <2> QED
    BY <2>1, <2>2
<1>8. ASSUME NEW k \in shipped, FlagOf(k) \notin fixed, FlagOf(k) \notin wanted
      PROVE  Serves(args, k, defaults[k])
  <2>1. k \notin DOMAIN want
    BY <1>3, <1>4, <1>8
  <2>2. CASE k \in FlagKeys
    BY <1>1, <1>2, <1>3, <1>6, <1>8, <2>1, <2>2
  <2>3. CASE k \notin FlagKeys
    <3>1. k = "auth_token" /\ "api_key" \notin all /\ k \in DOMAIN defaults
      BY <1>3, <2>3
    <3>2. "api_key" \in keys /\ r["api_key"] = defaults["auth_token"]
      BY <1>1, <1>6, <2>1, <3>1
    <3> QED
      BY <1>2, <1>5, <1>6, <1>8, <3>1, <3>2
  <2> QED
    BY <2>2, <2>3
<1>9. ASSUME NEW a \in args PROVE a.flag \in fixed \cup wanted \cup given
  <2>1. CASE a.flag \in fixed
    BY <2>1
  <2>2. CASE \E k \in keys : a.flag = FlagOf(k)
    <3>1. PICK k \in keys : a.flag = FlagOf(k)
      BY <2>2
    <3>2. CASE k \in all
      BY <1>3, <1>4, <3>1, <3>2 DEF all
    <3>3. CASE k \notin all
      <4>1. k = "api_key" /\ "auth_token" \in all
        BY <1>1, <3>3
      <4>2. "auth_token" \in sought \/ "auth_token" \in shipped
        BY <1>3, <3>3, <4>1 DEF all
      <4> QED
        BY <1>4, <1>6, <3>1, <4>1, <4>2
    <3> QED
      BY <3>2, <3>3
  <2> QED
    BY <1>2, <2>1, <2>2
<1> QED
  BY <1>2, <1>7, <1>8, <1>9 DEF r, args, fixed, sought, shipped, wanted, given

\* The one setting that is no whole number is a share, below one.
LEMMA SharesAreSmall ==
  \A k \in DOMAIN Schema : Schema[k].kind = "float" => Schema[k].min = 10 /\ Schema[k].max = 95
<1> USE DEF IntBound, FloatBound, IntOrAutoBound, EnumBound, ToggleBound, BoolValueBound
<1> DEFINE Small(b) == b.kind = "float" => b.min = 10 /\ b.max = 95
           x == Over(EXPOSED, EXPOSED_MEMORY)
           y == Over(EXPOSED_SPECULATIVE, EXPOSED_ENGINE)
<1>1. \A k \in DOMAIN EXPOSED : Small(EXPOSED[k])
  BY DEF EXPOSED
<1>2. \A k \in DOMAIN EXPOSED_MEMORY : Small(EXPOSED_MEMORY[k])
  BY DEF EXPOSED_MEMORY
<1>3. \A k \in DOMAIN EXPOSED_SPECULATIVE : Small(EXPOSED_SPECULATIVE[k])
  BY DEF EXPOSED_SPECULATIVE
<1>4. \A k \in DOMAIN EXPOSED_ENGINE : Small(EXPOSED_ENGINE[k])
  BY DEF EXPOSED_ENGINE
<1>5. \A k \in DOMAIN x : Small(x[k])
  <2>1. /\ DOMAIN x = DOMAIN EXPOSED \cup DOMAIN EXPOSED_MEMORY
        /\ \A k \in DOMAIN EXPOSED : x[k] = EXPOSED[k]
        /\ \A k \in DOMAIN EXPOSED_MEMORY \ DOMAIN EXPOSED : x[k] = EXPOSED_MEMORY[k]
    BY OverIs
  <2> HIDE DEF Small, x
  <2> QED
    BY <1>1, <1>2, <2>1
<1>6. \A k \in DOMAIN y : Small(y[k])
  <2>1. /\ DOMAIN y = DOMAIN EXPOSED_SPECULATIVE \cup DOMAIN EXPOSED_ENGINE
        /\ \A k \in DOMAIN EXPOSED_SPECULATIVE : y[k] = EXPOSED_SPECULATIVE[k]
        /\ \A k \in DOMAIN EXPOSED_ENGINE \ DOMAIN EXPOSED_SPECULATIVE : y[k] = EXPOSED_ENGINE[k]
    BY OverIs
  <2> HIDE DEF Small, y
  <2> QED
    BY <1>3, <1>4, <2>1
<1>7. Schema = Over(x, y)
  BY DEF Schema
<1> HIDE DEF Small, x, y
<1>8. \A k \in DOMAIN Over(x, y) : Small(Over(x, y)[k])
  <2>1. /\ DOMAIN Over(x, y) = DOMAIN x \cup DOMAIN y
        /\ \A k \in DOMAIN x : Over(x, y)[k] = x[k]
        /\ \A k \in DOMAIN y \ DOMAIN x : Over(x, y)[k] = y[k]
    BY OverIs
  <2> QED
    BY <1>5, <1>6, <2>1
<1> QED
  BY <1>7, <1>8 DEF Small

\* A value that was found in order is served as it was sent.
LEMMA NormalizedIsTheSame ==
  ASSUME NEW s, Problems(s) = {},
         \A k \in DOMAIN s : s[k].kind = "int" => s[k].v \in Int
  PROVE  /\ DOMAIN Validated(s) = DOMAIN s /\ DOMAIN s \subseteq DOMAIN Schema
         /\ \A k \in DOMAIN s : /\ Validated(s)[k].kind = s[k].kind
                                /\ Validated(s)[k].v = s[k].v
<1>1. DOMAIN Validated(s) = DOMAIN s
  BY DEF Validated
<1>2. \A k \in DOMAIN s : k \in DOMAIN Schema /\ Accepts(Schema[k], s[k])
  BY DEF Problems
<1>3. ASSUME NEW k \in DOMAIN s
      PROVE  Validated(s)[k].kind = s[k].kind /\ Validated(s)[k].v = s[k].v
  <2>1. Validated(s)[k] = Normalized(Schema[k], s[k])
    BY DEF Validated
  <2>2. CASE Schema[k].kind # "float"
    BY <2>1, <2>2 DEF Normalized
  <2>3. CASE Schema[k].kind = "float"
    <3>1. s[k].kind \in {"int", "float"} /\ Within(Schema[k], Hundredths(s[k]))
      BY <1>2, <2>3 DEF Accepts
    <3>2. Schema[k].min = 10 /\ Schema[k].max = 95
      BY <1>2, <2>3, SharesAreSmall
    <3>3. s[k].kind = "float"
      <4> SUFFICES ASSUME s[k].kind = "int" PROVE FALSE
        BY <3>1
      <4>1. s[k].v \in Int /\ 10 <= 100 * s[k].v /\ 100 * s[k].v <= 95
        BY <3>1, <3>2 DEF Within, Hundredths
      <4> QED
        BY <4>1
    <3>4. Validated(s)[k] = FloatVal(s[k].v)
      BY <2>1, <2>3, <3>3 DEF Normalized, Hundredths
    <3> QED
      BY <3>3, <3>4 DEF FloatVal
  <2> QED
    BY <2>2, <2>3
<1> QED
  BY <1>1, <1>2, <1>3

LEMMA SameIsServedTheSame ==
  ASSUME NEW a, NEW b, a.kind = b.kind, a.v = b.v,
         a.kind \in {"bool", "int", "float", "str"}
  PROVE  Render(a) = Render(b) /\ (Truthy(a) <=> Truthy(b))
  BY DEF Render, Truthy

-----------------------------------------------------------------------------
(* A launch's command is the one it was accepted with *)

MadeByAgent(q, plan) ==
  \E recipe \in ResolveBare(asked[q].ref.name) :
    AgentAccepts(q, recipe) /\ plan = AgentPlan(recipe, Validated(asked[q].settings))
MadeByCli(q, plan) ==
  \E recipe \in Resolve(asked[q].ref) :
    CliAccepts(asked[q], recipe) /\ plan = CliPlan(asked[q], recipe)
MadeAsAccepted(q, plan) ==
  IF Remote(q) THEN MadeByAgent(q, plan) ELSE MadeByCli(q, plan)

CommandInv ==
  /\ \A q \in Requests : "plan" \in DOMAIN req[q] => MadeAsAccepted(q, req[q].plan)
  /\ \A q \in Requests : LET s == asked[q].settings IN
       \A k \in DOMAIN s : s[k].kind = "int" => s[k].v \in Int

\* Whatever a request does, it keeps its command or is given the one it was
\* accepted with.
LEMMA PlansStay ==
  ASSUME RequestShape, NEW q \in Requests,
         \/ Upgrade(q) \/ Hello(q) \/ Arrives(q)
         \/ AgentLaunch(q) \/ CliRun(q) \/ Pull(q)
         \/ ClearName(q) \/ RunContainer(q) \/ DiedImmediately(q)
         \/ AgentStopLists(q) \/ StopIds(q) \/ StopName(q)
         \/ CliStopLists(q) \/ StopNext(q),
         NEW o \in Requests, "plan" \in DOMAIN req'[o]
  PROVE  \/ "plan" \in DOMAIN req[o] /\ req'[o].plan = req[o].plan
         \/ o = q /\ MadeAsAccepted(q, req'[q].plan)
<1>0. req = [p \in Requests |-> req[p]]
  BY DEF RequestShape
<1>1. ASSUME NEW place, Goes(q, place)
      PROVE  "plan" \in DOMAIN req[o] /\ req'[o].plan = req[o].plan
  BY <1>0, <1>1 DEF Goes
<1>2. CASE AgentLaunch(q)
  <2>1. CASE Goes(q, "refused")
    BY <1>1, <2>1
  <2>2. CASE ~Goes(q, "refused")
    <3>1. PICK recipe \in ResolveBare(asked[q].ref.name) :
            /\ AgentAccepts(q, recipe)
            /\ req' = [req EXCEPT ![q] =
                 [at |-> "clearing", before |-> @.before, todo |-> {}, unheard |-> FALSE,
                  plan |-> AgentPlan(recipe, Validated(asked[q].settings))]]
      BY <1>2, <2>2 DEF AgentLaunch
    <3>2. req'[q].plan = AgentPlan(recipe, Validated(asked[q].settings))
      BY <1>0, <3>1
    <3>3. o # q => req'[o] = req[o]
      BY <1>0, <3>1
    <3>4. MadeByAgent(q, req'[q].plan)
      BY <3>1, <3>2 DEF MadeByAgent
    <3> QED
      BY <1>2, <3>3, <3>4 DEF AgentLaunch, MadeAsAccepted
  <2> QED
    BY <2>1, <2>2
<1>3. CASE CliRun(q)
  <2>1. CASE Goes(q, "refused")
    BY <1>1, <2>1
  <2>2. CASE ~Goes(q, "refused")
    <3>1. PICK recipe \in Resolve(asked[q].ref) :
            /\ CliAccepts(asked[q], recipe)
            /\ req' = [req EXCEPT ![q] =
                 [at |-> IF asked[q].no_pull THEN "clearing" ELSE "pulling",
                  before |-> @.before, todo |-> {}, unheard |-> FALSE,
                  plan |-> CliPlan(asked[q], recipe)]]
      BY <1>3, <2>2 DEF CliRun
    <3>2. req'[q].plan = CliPlan(asked[q], recipe)
      BY <1>0, <3>1
    <3>3. o # q => req'[o] = req[o]
      BY <1>0, <3>1
    <3>4. MadeByCli(q, req'[q].plan)
      BY <3>1, <3>2 DEF MadeByCli
    <3>5. ~Remote(q)
      BY <1>3 DEF CliRun, Remote
    <3> QED
      BY <3>3, <3>4, <3>5 DEF MadeAsAccepted
  <2> QED
    BY <2>1, <2>2
<1>4. CASE Arrives(q)
  <2> DEFINE now_up == {<<n, containers[n].by>> : n \in Up(Managed)}
  <2>0. req' = [req EXCEPT ![q].at = "asked", ![q].before = now_up]
    BY <1>4 DEF Arrives
  <2> HIDE DEF now_up
  <2>1. /\ req'[q] = [req[q] EXCEPT !.at = "asked", !.before = now_up]
        /\ \A p \in Requests : p # q => req'[p] = req[p]
    BY <1>0, <2>0
  <2>2. DOMAIN req'[q] = DOMAIN req[q]
    BY <2>1
  <2>3. "plan" \in DOMAIN req[q] => req'[q].plan = req[q].plan
    BY <2>1
  <2> QED
    BY <2>1, <2>2, <2>3
<1>5. CASE AgentStopLists(q)
  BY <1>0, <1>1, <1>5 DEF AgentStopLists
<1>6. CASE CliStopLists(q)
  BY <1>0, <1>6 DEF CliStopLists
<1>7. CASE StopNext(q)
  <2>1. PICK name \in req[q].todo :
          LET rest == req[q].todo \ {name} IN
          \/ req' = [req EXCEPT ![q].todo = rest,
                ![q].at = IF rest # {} THEN @
                          ELSE IF req[q].unheard THEN "failed" ELSE "stopped"]
          \/ req' = [req EXCEPT ![q].todo = rest, ![q].unheard = TRUE,
                ![q].at = IF rest # {} THEN @ ELSE "failed"]
    BY <1>7, Zenon DEF StopNext
  <2>2. /\ \A p \in Requests : p # q => req'[p] = req[p]
        /\ DOMAIN req'[q] = DOMAIN req[q]
        /\ "plan" \in DOMAIN req[q] => req'[q].plan = req[q].plan
    BY <1>0, <2>1
  <2> QED
    BY <2>2
<1>8. CASE Upgrade(q) \/ Hello(q) \/ Pull(q) \/ ClearName(q)
  <2>1. \E place : Goes(q, place)
    BY <1>8 DEF Upgrade, Hello, Pull, ClearName
  <2> QED
    BY <1>1, <2>1
<1>9. CASE RunContainer(q) \/ DiedImmediately(q) \/ StopIds(q) \/ StopName(q)
  <2>1. \E place : Goes(q, place)
    BY <1>9 DEF RunContainer, DiedImmediately, StopIds, StopName
  <2> QED
    BY <1>1, <2>1
<1> QED
  BY <1>2, <1>3, <1>4, <1>5, <1>6, <1>7, <1>8, <1>9

LEMMA CommandInvInit == LocalInit => CommandInv
<1> SUFFICES ASSUME LocalInit PROVE CommandInv
  OBVIOUS
<1>1. PICK scene \in Scenes :
        /\ asked = scene.asked
        /\ req = [q \in DOMAIN scene.asked |->
                    [at |-> "new", before |-> {}, todo |-> {}, unheard |-> FALSE]]
  BY DEF LocalInit
<1>2. \A q \in Requests : DOMAIN req[q] = {"at", "before", "todo", "unheard"}
  BY <1>1 DEF Requests
<1>3. \A q \in Requests : LET s == asked[q].settings IN
        \A k \in DOMAIN s : s[k].kind = "int" => s[k].v \in Int
  BY <1>1, LocalAssumption DEF Requests
<1> QED
  BY <1>2, <1>3 DEF CommandInv

LEMMA CommandInvNext == LaunchInv /\ CommandInv /\ [Next]_vars => CommandInv'
<1> SUFFICES ASSUME LaunchInv, CommandInv, [Next]_vars PROVE CommandInv'
  OBVIOUS
<1>1. asked' = asked
  <2>1. ASSUME NEW q \in Requests,
               \/ Upgrade(q) \/ Hello(q) \/ Arrives(q) \/ AgentLaunch(q) \/ CliRun(q)
               \/ Pull(q) \/ ClearName(q)
        PROVE  asked' = asked
    BY <2>1 DEF Upgrade, Hello, Arrives, AgentLaunch, CliRun, Pull, ClearName
  <2>2. ASSUME NEW q \in Requests,
               \/ RunContainer(q) \/ DiedImmediately(q) \/ AgentStopLists(q) \/ StopIds(q)
               \/ StopName(q) \/ CliStopLists(q)
        PROVE  asked' = asked
    BY <2>2 DEF RunContainer, DiedImmediately, AgentStopLists, StopIds, StopName, CliStopLists
  <2>3. \A q \in Requests : StopNext(q) => asked' = asked
    BY Zenon DEF StopNext
  <2> QED
    BY <2>1, <2>2, <2>3 DEF Next, vars, localVars, LocalNext, Exits
<1>2. ASSUME NEW o \in Requests, "plan" \in DOMAIN req'[o]
      PROVE  MadeAsAccepted(o, req'[o].plan)
  <2>1. CASE \E q \in Requests :
         \/ Upgrade(q) \/ Hello(q) \/ Arrives(q)
         \/ AgentLaunch(q) \/ CliRun(q) \/ Pull(q)
         \/ ClearName(q) \/ RunContainer(q) \/ DiedImmediately(q)
         \/ AgentStopLists(q) \/ StopIds(q) \/ StopName(q)
         \/ CliStopLists(q) \/ StopNext(q)
    BY <1>2, <2>1, PlansStay DEF LaunchInv, CommandInv
  <2>2. CASE req' = req
    BY <1>2, <2>2 DEF CommandInv
  <2> QED
    BY <2>1, <2>2 DEF Next, vars, localVars, LocalNext, Exits
<1> QED
  BY <1>1, <1>2 DEF CommandInv, Requests, MadeAsAccepted, MadeByAgent, MadeByCli, Remote, AgentAccepts

\* What is denied cannot be sent, and what is past the caution is not taken.
LEMMA RemoteIsRestrained ==
  ASSUME NEW s, Problems(s) = {}, ~CautionRefuses(Validated(s)),
         \A k \in DOMAIN s : s[k].kind = "int" => s[k].v \in Int
  PROVE  DOMAIN s \cap DENIED = {} /\ ~CautionRefuses(s)
<1>1. /\ DOMAIN Validated(s) = DOMAIN s /\ DOMAIN s \subseteq DOMAIN Schema
      /\ \A k \in DOMAIN s : Validated(s)[k].kind = s[k].kind /\ Validated(s)[k].v = s[k].v
  BY NormalizedIsTheSame
<1>2. DOMAIN s \cap DENIED = {}
  BY <1>1, KeysOfFlags
<1>3. \A k \in DOMAIN s : Cautioned(k, s[k], Host.accelerator)
                            => Cautioned(k, Validated(s)[k], Host.accelerator)
  BY <1>1 DEF Cautioned
<1> QED
  BY <1>1, <1>2, <1>3 DEF CautionRefuses

\* A recipe that became a command names no way out of its own.
LEMMA HubStaysOut ==
  ASSUME NEW recipe, NEW over, NEW p, TranslateErrors(recipe, over, p) = {}
  PROVE  /\ ~AliasConflict(ResolvedConfig(recipe.defaults, over))
         /\ \A e \in EGRESS_ENV : BuildEnv(recipe, p)[e] = "1"
<1> DEFINE own  == [k \in DOMAIN recipe.env |-> ExpandAllowed(recipe.env[k])]
           base == [HF_HOME |-> "/cache", HF_HUB_OFFLINE |-> "1",
                    TRANSFORMERS_OFFLINE |-> "1"]
           mid  == IF p.solo THEN <<>> ELSE ClusterEnv
           rest == Over(mid, base)
<1>1. "alias" \notin TranslateErrors(recipe, over, p) /\ "egress" \notin TranslateErrors(recipe, over, p)
  OBVIOUS
<1>2. ~AliasConflict(ResolvedConfig(recipe.defaults, over))
  BY <1>1 DEF TranslateErrors
<1>3. DOMAIN recipe.env \cap EGRESS_ENV = {}
  BY <1>1 DEF TranslateErrors
<1>4. \A e \in EGRESS_ENV : e \notin DOMAIN mid
  BY DEF EGRESS_ENV, ClusterEnv
<1>5. \A e \in EGRESS_ENV : e \in DOMAIN base /\ base[e] = "1"
  BY DEF EGRESS_ENV
<1>6. DOMAIN own = DOMAIN recipe.env
  OBVIOUS
<1>7. BuildEnv(recipe, p) = Over(own, rest)
  BY DEF BuildEnv
<1> HIDE DEF own, base, mid
<1>8. \A e \in EGRESS_ENV : e \in DOMAIN rest /\ rest[e] = "1"
  <2>1. /\ DOMAIN rest = DOMAIN mid \cup DOMAIN base
        /\ \A k \in DOMAIN base \ DOMAIN mid : rest[k] = base[k]
    BY OverIs
  <2> HIDE DEF rest
  <2> QED
    BY <1>4, <1>5, <2>1
<1> HIDE DEF rest
<1>9. \A e \in EGRESS_ENV : Over(own, rest)[e] = "1"
  <2>1. \A k \in DOMAIN rest \ DOMAIN own : Over(own, rest)[k] = rest[k]
    BY OverIs
  <2> QED
    BY <1>3, <1>6, <1>8, <2>1
<1> QED
  BY <1>2, <1>7, <1>9

\* A launch gives the engine what was asked for, the recipe's own settings
\* where nothing was, and nothing else; the hub stays out of reach, and nobody
\* but the operator changes what is denied or goes past the caution.
LEMMA MadeIsWhatWasAsked == LaunchInv /\ CommandInv => CommandIsWhatWasAsked
<1> SUFFICES ASSUME LaunchInv, CommandInv, NEW q \in Requests, "plan" \in DOMAIN req[q]
             PROVE  \E recipe \in Meant(q) :
      LET plan   == req[q].plan
          want   == WhatWasAsked(q)
          put    == IF Remote(q) THEN Solo ELSE asked[q].placement
          fixed  == {a.flag : a \in RankFlags(put)}
          sought == Spelled(want, recipe.defaults)
          shipped == Spelled(recipe.defaults, want)
          wanted == {FlagOf(k) : k \in sought}
          given  == {FlagOf(k) : k \in shipped}
      IN
      /\ \A x, y \in plan.args : x.flag = y.flag => x = y
      /\ \A k \in sought :
           FlagOf(k) \notin fixed => Serves(plan.args, k, want[k])
      /\ \A k \in shipped :
           FlagOf(k) \notin fixed \cup wanted
             => Serves(plan.args, k, recipe.defaults[k])
      /\ {a.flag : a \in plan.args} \subseteq fixed \cup wanted \cup given
      /\ \A e \in EGRESS_ENV : plan.env[e] = "1"
      /\ Remote(q) => /\ DOMAIN want \cap DENIED = {}
                      /\ ~CautionRefuses(want)
  BY DEF CommandIsWhatWasAsked
<1> DEFINE plan == req[q].plan
           want == WhatWasAsked(q)
           put  == IF Remote(q) THEN Solo ELSE asked[q].placement
<1>1. MadeAsAccepted(q, plan)
  BY DEF CommandInv
\* What the command was rendered from: the request's settings, or the same ones
\* re-rendered.
<1>2. ASSUME NEW recipe, NEW over, TranslateErrors(recipe, over, put) = {},
             plan.args = Translate(recipe, over, put).args,
             plan.env = Translate(recipe, over, put).env,
             DOMAIN over = DOMAIN want,
             \A k \in DOMAIN want : \A args : Serves(args, k, over[k]) <=> Serves(args, k, want[k])
      PROVE  LET fixed  == {a.flag : a \in RankFlags(put)}
                 sought == Spelled(want, recipe.defaults)
                 shipped == Spelled(recipe.defaults, want)
                 wanted == {FlagOf(k) : k \in sought}
                 given  == {FlagOf(k) : k \in shipped}
             IN
             /\ \A x, y \in plan.args : x.flag = y.flag => x = y
             /\ \A k \in sought :
                  FlagOf(k) \notin fixed => Serves(plan.args, k, want[k])
             /\ \A k \in shipped :
                  FlagOf(k) \notin fixed \cup wanted
                    => Serves(plan.args, k, recipe.defaults[k])
             /\ {a.flag : a \in plan.args} \subseteq fixed \cup wanted \cup given
             /\ \A e \in EGRESS_ENV : plan.env[e] = "1"
  <2> DEFINE resolved == ResolvedConfig(recipe.defaults, over)
             args     == ServeFlags(resolved, Skipped(put)) \cup RankFlags(put)
  <2>1. plan.args = args /\ plan.env = BuildEnv(recipe, put)
    BY <1>2 DEF Translate
  <2>2. ~AliasConflict(resolved) /\ \A e \in EGRESS_ENV : plan.env[e] = "1"
    BY <1>2, <2>1, HubStaysOut
  <2>3. /\ Spelled(over, recipe.defaults) = Spelled(want, recipe.defaults)
        /\ Spelled(recipe.defaults, over) = Spelled(recipe.defaults, want)
    BY <1>2 DEF Spelled
  <2>4. Spelled(want, recipe.defaults) \subseteq DOMAIN want
    BY DEF Spelled
  <2> HIDE DEF resolved, args, put, want, plan
  <2>5. /\ \A x, y \in args : x.flag = y.flag => x = y
        /\ \A k \in Spelled(over, recipe.defaults) :
             FlagOf(k) \notin {a.flag : a \in RankFlags(put)} => Serves(args, k, over[k])
        /\ \A k \in Spelled(recipe.defaults, over) :
             FlagOf(k) \notin {a.flag : a \in RankFlags(put)}
                                \cup {FlagOf(j) : j \in Spelled(over, recipe.defaults)}
               => Serves(args, k, recipe.defaults[k])
        /\ {a.flag : a \in args} \subseteq
             {a.flag : a \in RankFlags(put)}
               \cup {FlagOf(j) : j \in Spelled(over, recipe.defaults)}
               \cup {FlagOf(j) : j \in Spelled(recipe.defaults, over)}
    BY <2>2, LayersServe DEF resolved, args
  <2> QED
    BY <1>2, <2>1, <2>2, <2>3, <2>4, <2>5
<1>3. CASE Remote(q)
  <2> DEFINE over == Validated(asked[q].settings)
  <2>1. PICK recipe \in ResolveBare(asked[q].ref.name) :
          AgentAccepts(q, recipe) /\ plan = AgentPlan(recipe, over)
    BY <1>1, <1>3 DEF MadeAsAccepted, MadeByAgent
  <2>2. want = asked[q].settings /\ put = Solo /\ recipe \in Meant(q)
    BY <1>3, <2>1 DEF WhatWasAsked, Meant
  <2>3. /\ Problems(want) = {} /\ ~CautionRefuses(over)
        /\ TranslateErrors(recipe, over, Solo) = {}
    BY <2>1, <2>2 DEF AgentAccepts, CheckSettings
  <2>4. \A k \in DOMAIN want : want[k].kind = "int" => want[k].v \in Int
    BY <2>2 DEF CommandInv
  <2>5. plan.args = Translate(recipe, over, Solo).args /\ plan.env = Translate(recipe, over, Solo).env
    BY <2>1 DEF AgentPlan, Translate
  <2>6. over = Validated(want)
    BY <2>2
  <2> HIDE DEF over, want, plan, put
  <2>7. /\ DOMAIN over = DOMAIN want /\ DOMAIN want \subseteq DOMAIN Schema
        /\ \A k \in DOMAIN want : over[k].kind = want[k].kind /\ over[k].v = want[k].v
    BY <2>3, <2>4, <2>6, NormalizedIsTheSame
  <2>8. ASSUME NEW k \in DOMAIN want
        PROVE  \A args : Serves(args, k, over[k]) <=> Serves(args, k, want[k])
    <3>1. want[k].kind \in {"bool", "int", "float", "str"}
      BY <2>3, <2>7 DEF Problems, Accepts
    <3>2. Render(over[k]) = Render(want[k]) /\ (Truthy(over[k]) <=> Truthy(want[k]))
      BY <2>7, <3>1, SameIsServedTheSame
    <3> QED
      BY <3>2 DEF Serves
  <2>9. DOMAIN want \cap DENIED = {} /\ ~CautionRefuses(want)
    BY <2>3, <2>4, <2>6, RemoteIsRestrained
  <2> QED
    BY <1>2, <2>2, <2>3, <2>5, <2>7, <2>8, <2>9 DEF want, plan, put
<1>4. CASE ~Remote(q)
  <2>1. PICK recipe \in Resolve(asked[q].ref) :
          CliAccepts(asked[q], recipe) /\ plan = CliPlan(asked[q], recipe)
    BY <1>1, <1>4 DEF MadeAsAccepted, MadeByCli
  <2>2. want = BuildOverrides(asked[q]) /\ put = asked[q].placement /\ recipe \in Meant(q)
    BY <1>4, <2>1 DEF WhatWasAsked, Meant
  <2>3. TranslateErrors(recipe, want, put) = {}
    BY <2>1, <2>2 DEF CliAccepts
  <2>4. plan.args = Translate(recipe, want, put).args /\ plan.env = Translate(recipe, want, put).env
    BY <2>1, <2>2 DEF CliPlan, Translate
  <2> QED
    BY <1>2, <1>4, <2>2, <2>3, <2>4
<1> QED
  BY <1>3, <1>4

\* The command a launch comes to, from the page, a peer or the keyboard, is what
\* was asked for over the recipe's own, whatever the recipes ship, the settings
\* and the placement (chain.rs, flags/mod.rs, control.rs).
THEOREM CommandsAreAsAsked == Spec => []CommandIsWhatWasAsked
<1>1. Init => CommandInv
  BY CommandInvInit DEF Init
<1> QED
  BY <1>1, CommandInvNext, LaunchInvHolds, MadeIsWhatWasAsked, PTL DEF Spec

-----------------------------------------------------------------------------
(* The plan of a cluster: ClusterPlan *)

Planned == preview.at \in {"asking", "rendered", "answered"}
Rendered == preview.at \in {"rendered", "answered"}

\* A plan is of what the fleet view listed when it was made, and its commands
\* are the ones its ranks agreed to render.
PlanInv ==
  /\ fleet \in Listings
  /\ Planned =>
       /\ preview.sel \in Selections /\ preview.seen \in Listings
       /\ Selectable(preview.sel, preview.seen)
       /\ preview.ranks = Assignments(preview.sel, preview.seen)
       /\ "commands" \in DOMAIN preview <=> Rendered
  /\ Rendered =>
       /\ preview.commands = [a \in preview.ranks |-> PlanFor(a, preview.seen[a.node])]
       /\ \A a \in preview.ranks : PlanForRefusals(a, preview.seen[a.node]) = {}

LEMMA PlanInvInit == PlanInit => PlanInv
  BY DEF PlanInit, PlanInv, NoPreview, Planned, Rendered

LEMMA PlanInvNext == PlanInv /\ [Next]_vars => PlanInv'
<1> SUFFICES ASSUME PlanInv, [Next]_vars PROVE PlanInv'
  OBVIOUS
<1>1. CASE FleetChanges
  <2>1. fleet' \in Listings /\ preview' = preview
    BY <1>1 DEF FleetChanges
  <2> QED
    BY <2>1 DEF PlanInv, Planned, Rendered
<1>2. ASSUME NEW sel \in Selections, ResolvePlan(sel) PROVE PlanInv'
  <2>1. fleet' = fleet
    BY <1>2 DEF ResolvePlan
  <2>2. CASE preview' = [at |-> "refused", sel |-> sel, seen |-> fleet]
    <3>1. ~Planned' /\ ~Rendered'
      BY <2>2 DEF Planned, Rendered
    <3> QED
      BY <2>1, <3>1 DEF PlanInv
  <2>3. CASE /\ Selectable(sel, fleet)
             /\ preview' = [at |-> "asking", sel |-> sel, seen |-> fleet,
                            ranks |-> Assignments(sel, fleet)]
    <3>1. /\ preview'.at = "asking" /\ preview'.sel = sel /\ preview'.seen = fleet
          /\ preview'.ranks = Assignments(sel, fleet) /\ "commands" \notin DOMAIN preview'
      BY <2>3
    <3>2. Planned' /\ ~Rendered'
      BY <3>1 DEF Planned, Rendered
    <3> QED
      BY <2>1, <2>3, <3>1, <3>2 DEF PlanInv
  <2> QED
    BY <1>2, <2>2, <2>3 DEF ResolvePlan
<1>3. CASE RenderRanks
  <2>1. fleet' = fleet /\ preview.at = "asking"
    BY <1>3 DEF RenderRanks
  <2>2. CASE \E a \in preview.ranks : PlanForRefusals(a, preview.seen[a.node]) # {}
    <3>1. preview' = [at |-> "refused", sel |-> preview.sel, seen |-> preview.seen]
      BY <1>3, <2>2 DEF RenderRanks
    <3>2. ~Planned' /\ ~Rendered'
      BY <3>1 DEF Planned, Rendered
    <3> QED
      BY <2>1, <3>2 DEF PlanInv
  <2>3. CASE \A a \in preview.ranks : PlanForRefusals(a, preview.seen[a.node]) = {}
    <3>1. preview' = [at |-> "rendered", sel |-> preview.sel, seen |-> preview.seen,
                      ranks |-> preview.ranks,
                      commands |-> [a \in preview.ranks |-> PlanFor(a, preview.seen[a.node])]]
      BY <1>3, <2>3 DEF RenderRanks
    <3>2. /\ preview'.at = "rendered" /\ preview'.sel = preview.sel /\ preview'.seen = preview.seen
          /\ preview'.ranks = preview.ranks /\ "commands" \in DOMAIN preview'
          /\ preview'.commands = [a \in preview.ranks |-> PlanFor(a, preview.seen[a.node])]
      BY <3>1
    <3>3. Planned /\ Planned' /\ Rendered'
      BY <2>1, <3>2 DEF Planned, Rendered
    <3> QED
      BY <2>1, <2>3, <3>2, <3>3 DEF PlanInv
  <2> QED
    BY <2>2, <2>3
<1>4. CASE LinkWarning
  <2>1. fleet' = fleet /\ preview.at = "rendered"
    BY <1>4 DEF LinkWarning
  <2>2. /\ preview'.at = "answered" /\ preview'.sel = preview.sel /\ preview'.seen = preview.seen
        /\ preview'.ranks = preview.ranks /\ "commands" \in DOMAIN preview'
        /\ preview'.commands = preview.commands
    BY <1>4 DEF LinkWarning
  <2>3. Planned /\ Rendered /\ Planned' /\ Rendered'
    BY <2>1, <2>2 DEF Planned, Rendered
  <2> QED
    BY <2>1, <2>2, <2>3 DEF PlanInv
<1>5. CASE UNCHANGED planVars
  BY <1>5 DEF planVars, PlanInv, Planned, Rendered
<1> QED
  BY <1>1, <1>2, <1>3, <1>4, <1>5 DEF Next, PlanNext, vars, planVars

\* The machines asked for are finitely many, and numbered.
LEMMA PickedAreCounted ==
  ASSUME NEW sel \in Selections, NEW listing \in Listings, Selectable(sel, listing)
  PROVE  /\ IsFiniteSet(Picked(sel)) /\ Picked(sel) \subseteq Nat
         /\ Cardinality(Picked(sel)) = Len(sel.nodes) /\ Len(sel.nodes) \in Nat
         /\ sel.head \in Picked(sel)
<1>1. sel.nodes \in Seq(Nat) /\ Picked(sel) \subseteq Nat
  BY PlanAssumption DEF Selectable
<1>2. Len(sel.nodes) \in Nat /\ DOMAIN sel.nodes = 1..Len(sel.nodes)
  BY <1>1
<1>3. IsFiniteSet(1..Len(sel.nodes))
  <2>1. 1 \in Int /\ Len(sel.nodes) \in Int
    BY <1>2
  <2>2. \A a, b \in Int : IsFiniteSet(a..b)
    BY FS_Interval
  <2> QED
    BY <2>1, <2>2
<1>4. sel.nodes \in Surjection(1..Len(sel.nodes), Picked(sel))
  <2>1. sel.nodes \in [1..Len(sel.nodes) -> Picked(sel)]
    BY <1>1, <1>2 DEF Picked
  <2> QED
    BY <1>2, <2>1 DEF Picked, Surjection
<1>5. IsFiniteSet(Picked(sel))
  BY <1>3, <1>4, FS_Surjection
<1> QED
  BY <1>1, <1>2, <1>5 DEF Selectable

\* The ranks of n machines are 0 to n-1, one each, and the head's is the first.
LEMMA RanksAreOneEach ==
  ASSUME NEW sel, IsFiniteSet(Picked(sel)), Picked(sel) \subseteq Nat, sel.head \in Picked(sel)
  PROVE  /\ \A n \in Picked(sel) : RankIn(sel, n) = 0 <=> n = sel.head
         /\ \A n \in Picked(sel) : RankIn(sel, n) \in 0..(Cardinality(Picked(sel)) - 1)
         /\ \A m, n \in Picked(sel) : RankIn(sel, m) = RankIn(sel, n) => m = n
         /\ {RankIn(sel, n) : n \in Picked(sel)} = 0..(Cardinality(Picked(sel)) - 1)
<1> DEFINE P == Picked(sel)
           W == P \ {sel.head}
           R(n) == RankIn(sel, n)
           B(n) == {m \in W : m <= n}
           c == Cardinality(P)
<1>1. IsFiniteSet(W) /\ Cardinality(W) = c - 1 /\ c \in Nat /\ Cardinality(W) \in Nat
  BY FS_RemoveElement, FS_CardinalityType
<1>2. c \in Nat \ {0}
  BY <1>1
<1>3. R(sel.head) = 0 /\ \A n \in W : R(n) = Cardinality(B(n))
  BY DEF RankIn
<1>4. ASSUME NEW n \in W
      PROVE  /\ IsFiniteSet(B(n)) /\ Cardinality(B(n)) \in Nat
             /\ Cardinality(B(n)) <= c - 1 /\ Cardinality(B(n)) # 0
  <2>1. IsFiniteSet(B(n)) /\ Cardinality(B(n)) <= Cardinality(W)
    BY <1>1, FS_Subset
  <2>2. n \in B(n)
    OBVIOUS
  <2> QED
    BY <1>1, <2>1, <2>2, FS_CardinalityType, FS_EmptySet
<1>5. ASSUME NEW m \in W, NEW n \in W, m < n PROVE R(m) # R(n)
  <2>1. B(m) \in SUBSET B(n) /\ n \in B(n) /\ n \notin B(m)
    BY <1>5
  <2>2. IsFiniteSet(B(n))
    BY <1>4
  <2> HIDE DEF B
  <2>3. Cardinality(B(m)) # Cardinality(B(n))
    BY <2>1, <2>2, FS_Subset
  <2> QED
    BY <1>3, <2>3
<1>6. \A n \in P : n = sel.head \/ n \in W
  OBVIOUS
<1> HIDE DEF B, c
<1>7. \A n \in P : R(n) = 0 <=> n = sel.head
  BY <1>3, <1>4, <1>6
<1>8. \A n \in P : R(n) \in 0..(c - 1)
  BY <1>2, <1>3, <1>4, <1>6
<1>9. ASSUME NEW m \in P, NEW n \in P, R(m) = R(n) PROVE m = n
  <2>1. CASE m = sel.head \/ n = sel.head
    BY <1>7, <1>9, <2>1
  <2>2. CASE m \in W /\ n \in W
    <3>1. m \in Nat /\ n \in Nat
      OBVIOUS
    <3>2. ~(m < n) /\ ~(n < m)
      BY <1>5, <1>9, <2>2
    <3> QED
      BY <3>1, <3>2
  <2> QED
    BY <1>6, <2>1, <2>2
<1>10. {R(n) : n \in P} = 0..(c - 1)
  <2> DEFINE f == [n \in P |-> R(n)]
  <2> HIDE DEF R
  <2>1. f \in Injection(P, 0..(c - 1))
    BY <1>8, <1>9 DEF Injection, IsInjective
  <2>2. IsFiniteSet(0..(c - 1)) /\ Cardinality(0..(c - 1)) = c
    BY <1>2, FS_Interval
  <2>3. f \in Surjection(P, 0..(c - 1))
    BY <2>1, <2>2, FS_Injection DEF c
  <2>4. \A r \in 0..(c - 1) : \E n \in P : f[n] = r
    BY <2>3 DEF Surjection
  <2> QED
    BY <1>8, <2>4
<1> QED
  BY <1>7, <1>8, <1>9, <1>10 DEF c

\* Of some addresses the best is one of them.
LEMMA BestIsOneOf ==
  ASSUME NEW addresses, NEW eligible
  PROVE  \A b \in Best(addresses, eligible) : \E i \in eligible : b = addresses[i]
  BY DEF Best

\* What every rank is told, whoever it is.
LEMMA AssignmentsAgree ==
  ASSUME NEW sel, NEW listing
  PROVE  /\ {a.node : a \in Assignments(sel, listing)} = Picked(sel)
         /\ \A a \in Assignments(sel, listing) :
              /\ a.node \in Picked(sel) /\ a.rank = RankIn(sel, a.node)
              /\ a.world_size = Len(sel.nodes)
              /\ a.master = (CHOOSE x \in RendezvousAddress(sel, listing) : TRUE)
              /\ a.recipe = sel.recipe /\ a.settings = sel.settings
              /\ a.recipe_hash = (CHOOSE h \in HashOf(sel.recipe) : TRUE)
         /\ \A a, b \in Assignments(sel, listing) : a.node = b.node => a = b
<1> DEFINE master == CHOOSE x \in RendezvousAddress(sel, listing) : TRUE
           hash == CHOOSE h \in HashOf(sel.recipe) : TRUE
           A(n) == [node |-> n, rank |-> RankIn(sel, n), world_size |-> Len(sel.nodes),
                    master |-> master, recipe |-> sel.recipe, settings |-> sel.settings,
                    recipe_hash |-> hash]
<1>1. Assignments(sel, listing) = {A(n) : n \in Picked(sel)}
  BY DEF Assignments
<1>2. \A n : /\ A(n).node = n /\ A(n).rank = RankIn(sel, n) /\ A(n).world_size = Len(sel.nodes)
             /\ A(n).master = master /\ A(n).recipe = sel.recipe /\ A(n).settings = sel.settings
             /\ A(n).recipe_hash = hash
  OBVIOUS
<1> HIDE DEF A, master, hash
<1> QED
  BY <1>1, <1>2 DEF master, hash

LEMMA OneAssignmentEach ==
  ASSUME NEW sel, NEW listing, IsFiniteSet(Picked(sel))
  PROVE  Cardinality(Assignments(sel, listing)) = Cardinality(Picked(sel))
<1> DEFINE S == Assignments(sel, listing)
           f == [n \in Picked(sel) |-> CHOOSE a \in S : a.node = n]
<1>1. /\ {a.node : a \in S} = Picked(sel)
      /\ \A a, b \in S : a.node = b.node => a = b
  BY AssignmentsAgree
<1> HIDE DEF S
<1>2. \A n \in Picked(sel) : f[n] \in S /\ f[n].node = n
  BY <1>1
<1>3. f \in [Picked(sel) -> S]
  BY <1>2
<1>4. \A a \in S : a.node \in Picked(sel) /\ f[a.node] = a
  BY <1>1, <1>2
<1> HIDE DEF f
<1>5. f \in Surjection(Picked(sel), S)
  BY <1>3, <1>4 DEF Surjection
<1>6. f \in Injection(Picked(sel), S)
  BY <1>2, <1>3 DEF Injection, IsInjective
<1> QED
  BY <1>5, <1>6, FS_Surjection DEF S

\* The master is on every worker's network whenever an address of the head's is.
LEMMA MasterIsReached ==
  ASSUME NEW sel, NEW listing, RendezvousAddress(sel, listing) # {},
         NEW i \in Usable(listing[sel.head].addresses),
         listing[sel.head].addresses[i].prefix > 0,
         ReachesAll(listing[sel.head].addresses[i], Picked(sel) \ {sel.head}, listing)
  PROVE  ReachesAll(CHOOSE x \in RendezvousAddress(sel, listing) : TRUE,
                    Picked(sel) \ {sel.head}, listing)
<1> DEFINE mine   == listing[sel.head].addresses
           shared == {j \in Usable(mine) :
                        /\ mine[j].prefix > 0
                        /\ ReachesAll(mine[j], Picked(sel) \ {sel.head}, listing)}
           x == CHOOSE y \in RendezvousAddress(sel, listing) : TRUE
<1>1. i \in shared
  OBVIOUS
<1>2. RendezvousAddress(sel, listing) = Best(mine, shared)
  BY <1>1 DEF RendezvousAddress
<1>3. x \in Best(mine, shared)
  BY <1>2
<1>4. \A j \in shared : ReachesAll(mine[j], Picked(sel) \ {sel.head}, listing)
  OBVIOUS
<1> HIDE DEF shared, x
<1>5. PICK j \in shared : x = mine[j]
  BY <1>3, BestIsOneOf
<1> QED
  BY <1>4, <1>5 DEF x

\* The first of some places in a list.
LEMMA FirstIsOne ==
  ASSUME NEW on \in SUBSET Nat, on # {}
  PROVE  (CHOOSE i \in on : \A j \in on : i <= j) \in on
<1>1. PICK i \in on : \A j \in on : ~ (<<j, i>> \in OpToRel(<, Nat))
  BY NatLessThanWellFounded, WFMin
<1>2. ASSUME NEW j \in on PROVE i <= j
  <2>1. ~ (j < i)
    <3> SUFFICES ASSUME j < i PROVE <<j, i>> \in OpToRel(<, Nat)
      BY <1>1
    <3>1. <<j, i>> \in Nat \X Nat
      OBVIOUS
    <3> QED
      BY <3>1 DEF OpToRel
  <2> QED
    BY <2>1
<1> QED
  BY <1>2

\* A machine that has an interface on the master's network is told one that is.
LEMMA BindingIsOnTheNetwork ==
  ASSUME NEW node, NEW master, DOMAIN node.addresses \subseteq Nat
  PROVE  LET b == CollectiveBinding(node, master) IN
         /\ Meets(node, master) => /\ "NCCL_SOCKET_IFNAME" \in DOMAIN b
                                   /\ OnMastersNetwork(node, master, b["NCCL_SOCKET_IFNAME"])
         /\ ~Meets(node, master) => DOMAIN b = {}
<1> DEFINE on == {i \in DOMAIN node.addresses :
                    /\ node.addresses[i].prefix > 0 /\ node.addresses[i].iface # ""
                    /\ SameNetwork(node.addresses[i].addr, master.addr,
                                   node.addresses[i].prefix)}
           b     == CollectiveBinding(node, master)
           first == node.addresses[CHOOSE i \in on : \A j \in on : i <= j]
<1>1. Meets(node, master) <=> on # {}
  <2>1. \A x, y, prefix : SameNetwork(x, y, prefix) => prefix > 0
    BY PlanAssumption DEF SameNetwork
  <2> QED
    BY <2>1 DEF Meets
<1>2. b = IF on = {} THEN <<>> ELSE BindInterface(first.iface, first.rdma)
  BY DEF CollectiveBinding
<1>3. CASE on = {}
  <2>1. b = << >> /\ ~Meets(node, master)
    BY <1>1, <1>2, <1>3
  <2>2. DOMAIN << >> = {}
    OBVIOUS
  <2> HIDE DEF b
  <2> QED
    BY <2>1, <2>2 DEF b
<1>4. CASE on # {}
  <2> DEFINE c == CHOOSE i \in on : \A j \in on : i <= j
  <2>1. on \in SUBSET Nat
    OBVIOUS
  <2>2. c \in on
    <3> HIDE DEF on
    <3> QED
      BY <1>4, <2>1, FirstIsOne
  <2>3. first.iface # "" /\ OnMastersNetwork(node, master, first.iface)
    <3> HIDE DEF c
    <3> QED
      BY <2>2 DEF OnMastersNetwork, c
  <2> DEFINE one  == [NCCL_SOCKET_IFNAME |-> first.iface]
             more == IF first.rdma = "" THEN <<>> ELSE [NCCL_IB_HCA |-> first.rdma]
  <2>4. b = Over(one, more)
    BY <1>2, <1>4, <2>3 DEF BindInterface
  <2>5. "NCCL_SOCKET_IFNAME" \in DOMAIN one /\ one["NCCL_SOCKET_IFNAME"] = first.iface
    OBVIOUS
  <2> HIDE DEF one, more, first, b, on
  <2>6. "NCCL_SOCKET_IFNAME" \in DOMAIN b /\ b["NCCL_SOCKET_IFNAME"] = first.iface
    <3>1. /\ DOMAIN Over(one, more) = DOMAIN one \cup DOMAIN more
          /\ \A k \in DOMAIN one : Over(one, more)[k] = one[k]
      BY OverIs
    <3> QED
      BY <2>4, <2>5, <3>1
  <2> QED
    BY <1>1, <1>4, <2>3, <2>6 DEF b
<1> QED
  BY <1>3, <1>4

RankWords == {"rank", "world_size", "master_addr", "master_port", "port"}

\* Who a rank is decides nothing of its command but who it is.
LEMMA SkippingHidesThePort ==
  ASSUME NEW resolved, NEW p
  PROVE  {a \in ServeFlags(resolved, Skipped(p)) \cup RankFlags(p) : a.flag \notin RankWords}
           = {a \in ServeFlags(resolved, {}) : a.flag \notin RankWords}
<1> DEFINE Arg(k) == [key |-> k, flag |-> FlagOf(k),
                      value |-> IF k \in TOGGLES THEN "" ELSE Render(resolved[k])]
           On(skip) == {k \in (DOMAIN resolved \cap FlagKeys) \ skip :
                          k \in TOGGLES => Truthy(resolved[k])}
<1>1. \A skip : ServeFlags(resolved, skip) = {Arg(k) : k \in On(skip)}
  BY DEF ServeFlags
<1>2. \A k : Arg(k).flag = FlagOf(k)
  OBVIOUS
<1>3. \A a \in RankFlags(p) : a.flag \in RankWords
  <2>1. \A a \in RankFlags(p) :
              \/ a.flag \in {"rank", "world_size", "master_addr", "master_port"}
              \/ a = [key |-> "worker", flag |-> "port", value |-> "0"]
    BY RankArguments
  <2> QED
    BY <2>1 DEF RankWords
<1>4. Skipped(p) \subseteq {"port"}
  BY RankArguments
<1>5. FlagOf("port") \in RankWords
  BY DEF FlagOf, RankWords
<1>6. \A k : k \in On({}) /\ FlagOf(k) \notin RankWords => k \in On(Skipped(p))
  BY <1>4, <1>5
<1>7. \A k : k \in On(Skipped(p)) => k \in On({})
  OBVIOUS
<1> HIDE DEF Arg, On
<1> QED
  BY <1>1, <1>2, <1>3, <1>6, <1>7

LEMMA WorkersServeNoPort ==
  ASSUME NEW resolved, NEW p, "port" \in Skipped(p)
  PROVE  {x.value : x \in {y \in ServeFlags(resolved, Skipped(p)) \cup RankFlags(p) :
                             y.flag = "port"}} = {"0"}
<1> DEFINE args == ServeFlags(resolved, Skipped(p)) \cup RankFlags(p)
           worker == [key |-> "worker", flag |-> "port", value |-> "0"]
<1>1. \A y \in ServeFlags(resolved, Skipped(p)) : y.flag # "port"
  <2> SUFFICES ASSUME NEW y \in ServeFlags(resolved, Skipped(p)) PROVE y.flag # "port"
    OBVIOUS
  <2> DEFINE Arg(k) == [key |-> k, flag |-> FlagOf(k),
                        value |-> IF k \in TOGGLES THEN "" ELSE Render(resolved[k])]
             on     == {k \in (DOMAIN resolved \cap FlagKeys) \ Skipped(p) :
                          k \in TOGGLES => Truthy(resolved[k])}
  <2>0. y \in {Arg(k) : k \in on}
    BY DEF ServeFlags
  <2>2. \A k : Arg(k).flag = FlagOf(k)
    OBVIOUS
  <2>3. \A k \in on : k \in FlagKeys /\ k \notin Skipped(p)
    OBVIOUS
  <2> HIDE DEF Arg, on
  <2>1. PICK k \in on : y.flag = FlagOf(k)
    BY <2>0, <2>2
  <2> QED
    BY <2>1, <2>3, KeysOfFlags
<1>2. \A y \in RankFlags(p) : y.flag = "port" => y = worker
  BY RankArguments
<1>3. worker \in RankFlags(p)
  BY RankArguments
<1>4. worker.flag = "port" /\ worker.value = "0"
  OBVIOUS
<1> HIDE DEF worker
<1> QED
  BY <1>1, <1>2, <1>3, <1>4

\* Two ranks that render have the same recipe, if under one name.
LEMMA OneRecipe ==
  ASSUME NEW a, NEW node, PlanForRefusals(a, node) = {}
  PROVE  /\ a.recipe \in DOMAIN node.ships
         /\ ContentHash(Parse(a.recipe, node.ships[a.recipe])) = a.recipe_hash
<1>1. a.recipe \in DOMAIN node.ships
  BY DEF PlanForRefusals
<1>2. ContentHash(Parse(a.recipe, node.ships[a.recipe])) = a.recipe_hash
  BY <1>1 DEF PlanForRefusals
<1> QED
  BY <1>1, <1>2

LEMMA PlanForIs ==
  ASSUME NEW a, NEW node
  PROVE  LET recipe == Parse(a.recipe, node.ships[a.recipe])
             resolved == ResolvedConfig(recipe.defaults, Validated(a.settings)) IN
         /\ PlanFor(a, node).image = recipe.container
         /\ PlanFor(a, node).model = recipe.model
         /\ PlanFor(a, node).args = ServeFlags(resolved, Skipped(Placed(a))) \cup RankFlags(Placed(a))
         /\ PlanFor(a, node).env = Over(CollectiveBinding(node, a.master),
                                        BuildEnv(recipe, Placed(a)))
<1> DEFINE t == Translate(Parse(a.recipe, node.ships[a.recipe]),
                          Validated(a.settings), Placed(a))
<1>1. PlanFor(a, node) = [t EXCEPT !.auto_remove = FALSE,
                                   !.env = Over(CollectiveBinding(node, a.master), @)]
  BY DEF PlanFor
<1> QED
  BY <1>1 DEF Translate

\* What the ranks of a plan are, before any has rendered its command.
LEMMA RanksAreSound ==
  ASSUME NEW sel \in Selections, NEW seen \in Listings, Selectable(sel, seen)
  PROVE  LET ranks   == Assignments(sel, seen)
             workers == Picked(sel) \ {sel.head}
             head    == seen[sel.head] IN
         /\ {a.node : a \in ranks} = Picked(sel)
         /\ {a.rank : a \in ranks} = 0..(Len(sel.nodes) - 1)
         /\ Cardinality(ranks) = Len(sel.nodes)
         /\ \A a, b \in ranks : a.master = b.master
         /\ \A a \in ranks :
              /\ a.rank \in Nat
              /\ a.rank = 0 <=> a.node = sel.head
              /\ (\E i \in Usable(head.addresses) :
                    /\ head.addresses[i].prefix > 0
                    /\ ReachesAll(head.addresses[i], workers, seen))
                 => ReachesAll(a.master, workers, seen)
<1> DEFINE ranks == Assignments(sel, seen)
           P     == Picked(sel)
           n     == Len(sel.nodes)
<1>1. /\ IsFiniteSet(P) /\ P \subseteq Nat /\ Cardinality(P) = n /\ n \in Nat /\ sel.head \in P
  BY PickedAreCounted
<1>2. /\ \A m \in P : RankIn(sel, m) = 0 <=> m = sel.head
      /\ {RankIn(sel, m) : m \in P} = 0..(n - 1)
  BY <1>1, RanksAreOneEach
<1>3. /\ {a.node : a \in ranks} = P
      /\ \A a \in ranks :
           /\ a.node \in P /\ a.rank = RankIn(sel, a.node)
           /\ a.master = (CHOOSE x \in RendezvousAddress(sel, seen) : TRUE)
  BY AssignmentsAgree
<1>4. Cardinality(ranks) = n
  BY <1>1, OneAssignmentEach
<1> HIDE DEF ranks, P, n
<1>5. {a.rank : a \in ranks} = {RankIn(sel, m) : m \in P}
  BY <1>3
<1>6. \A a \in ranks : a.rank \in 0..(n - 1)
  BY <1>2, <1>5
<1>7. \A a \in ranks : a.rank \in Nat
  BY <1>1, <1>6
<1>8. ASSUME NEW a \in ranks, NEW i \in Usable(seen[sel.head].addresses),
             seen[sel.head].addresses[i].prefix > 0,
             ReachesAll(seen[sel.head].addresses[i], P \ {sel.head}, seen)
      PROVE  ReachesAll(a.master, P \ {sel.head}, seen)
  <2>1. RendezvousAddress(sel, seen) # {}
    BY DEF Selectable
  <2> QED
    BY <1>3, <1>8, <2>1, MasterIsReached DEF P
<1> QED
  BY <1>2, <1>3, <1>4, <1>5, <1>7, <1>8 DEF ranks, P, n

\* The commands of a plan, once every rank has agreed to its own.
LEMMA CommandsAreSound ==
  ASSUME NEW sel \in Selections, NEW seen \in Listings, Selectable(sel, seen),
         \A a \in Assignments(sel, seen) : PlanForRefusals(a, seen[a.node]) = {},
         NEW a \in Assignments(sel, seen)
  PROVE  LET command == PlanFor(a, seen[a.node])
             node    == seen[a.node] IN
         /\ \A b \in Assignments(sel, seen) : Shared(command) = Shared(PlanFor(b, seen[b.node]))
         /\ a.rank > 0 => {x.value : x \in {y \in command.args : y.flag = "port"}} = {"0"}
         /\ Meets(node, a.master) =>
              /\ "NCCL_SOCKET_IFNAME" \in DOMAIN command.env
              /\ OnMastersNetwork(node, a.master, command.env["NCCL_SOCKET_IFNAME"])
         /\ "NCCL_SOCKET_IFNAME" \in DOMAIN command.env =>
              Meets(node, a.master) \/ "NCCL_SOCKET_IFNAME" \in DOMAIN node.ships[sel.recipe].env
<1> DEFINE ranks == Assignments(sel, seen)
           Recipe(b) == Parse(b.recipe, seen[b.node].ships[b.recipe])
           Resolved(b) == ResolvedConfig(Recipe(b).defaults, Validated(b.settings))
           Plan(b) == PlanFor(b, seen[b.node])
           Env(b) == BuildEnv(Recipe(b), Placed(b))
<1>1. \A b \in ranks : /\ b.node \in Picked(sel) /\ b.recipe = sel.recipe
                       /\ b.settings = sel.settings /\ b.recipe_hash = a.recipe_hash
  <2> DEFINE hash == CHOOSE h \in HashOf(sel.recipe) : TRUE
  <2>1. \A b \in ranks : /\ b.node \in Picked(sel) /\ b.recipe = sel.recipe
                         /\ b.settings = sel.settings /\ b.recipe_hash = hash
    BY AssignmentsAgree
  <2> HIDE DEF hash, ranks
  <2>2. a \in ranks
    BY DEF ranks
  <2> QED
    BY <2>1, <2>2
<1>2. \A b \in ranks : ContentHash(Recipe(b)) = a.recipe_hash
  BY <1>1, OneRecipe
<1>3. \A b \in ranks : /\ Recipe(b).container = Recipe(a).container
                       /\ Recipe(b).model = Recipe(a).model
                       /\ Recipe(b).defaults = Recipe(a).defaults
  <2> HIDE DEF Recipe, ranks
  <2>1. a \in ranks
    BY DEF ranks
  <2> QED
    BY <1>2, <2>1 DEF ContentHash
<1>4. \A b : /\ Plan(b).image = Recipe(b).container /\ Plan(b).model = Recipe(b).model
             /\ Plan(b).args = ServeFlags(Resolved(b), Skipped(Placed(b))) \cup RankFlags(Placed(b))
             /\ Plan(b).env = Over(CollectiveBinding(seen[b.node], b.master), Env(b))
  BY PlanForIs
<1>5. DOMAIN Recipe(a).env = DOMAIN seen[a.node].ships[sel.recipe].env
  BY <1>1 DEF Parse
<1>6. a \in ranks /\ DOMAIN seen[a.node].addresses \subseteq Nat
  BY <1>1, PlanAssumption DEF Selectable
<1>7. a.rank > 0 => "port" \in Skipped(Placed(a))
  BY DEF Skipped, Placed, RankOf
<1>8. "NCCL_SOCKET_IFNAME" \in DOMAIN Env(a) => "NCCL_SOCKET_IFNAME" \in DOMAIN Recipe(a).env
  <2> DEFINE own  == [k \in DOMAIN Recipe(a).env |-> ExpandAllowed(Recipe(a).env[k])]
             base == [HF_HOME |-> "/cache", HF_HUB_OFFLINE |-> "1",
                      TRANSFORMERS_OFFLINE |-> "1"]
             mid  == IF Placed(a).solo THEN <<>> ELSE ClusterEnv
  <2>1. Env(a) = Over(own, Over(mid, base))
    BY DEF BuildEnv
  <2>2. /\ DOMAIN Over(own, Over(mid, base)) = DOMAIN own \cup DOMAIN Over(mid, base)
        /\ DOMAIN Over(mid, base) = DOMAIN mid \cup DOMAIN base
    BY OverIs
  <2>3. DOMAIN own = DOMAIN Recipe(a).env
    OBVIOUS
  <2>4. DOMAIN base = {"HF_HOME", "HF_HUB_OFFLINE", "TRANSFORMERS_OFFLINE"}
    OBVIOUS
  <2>5. "NCCL_SOCKET_IFNAME" \notin DOMAIN mid
    BY DEF ClusterEnv, Placed, RankOf
  <2> HIDE DEF own, base, mid, Env, Recipe
  <2> QED
    BY <2>1, <2>2, <2>3, <2>4, <2>5
<1> HIDE DEF Recipe, Plan, Env, ranks
<1>9. ASSUME NEW b \in ranks PROVE Shared(Plan(a)) = Shared(Plan(b))
  <2>1. Resolved(b) = Resolved(a)
    BY <1>1, <1>3, <1>6
  <2> DEFINE Own(c) == {x \in Plan(c).args : x.flag \notin RankWords}
  <2>2. \A c : Own(c) = {x \in ServeFlags(Resolved(c), {}) : x.flag \notin RankWords}
    BY <1>4, SkippingHidesThePort
  <2>3. \A c : Shared(Plan(c)) = <<Plan(c).image, Plan(c).model, Own(c)>>
    BY DEF Shared, RankWords
  <2> HIDE DEF Own, Resolved
  <2> QED
    BY <1>3, <1>4, <1>6, <2>1, <2>2, <2>3
<1>10. a.rank > 0 => {x.value : x \in {y \in Plan(a).args : y.flag = "port"}} = {"0"}
  BY <1>4, <1>7, WorkersServeNoPort
<1> DEFINE node == seen[a.node]
           bind == CollectiveBinding(node, a.master)
<1>11. /\ Meets(node, a.master) => /\ "NCCL_SOCKET_IFNAME" \in DOMAIN bind
                                   /\ OnMastersNetwork(node, a.master, bind["NCCL_SOCKET_IFNAME"])
       /\ ~Meets(node, a.master) => DOMAIN bind = {}
  BY <1>6, BindingIsOnTheNetwork
<1>12. /\ DOMAIN Plan(a).env = DOMAIN bind \cup DOMAIN Env(a)
       /\ \A k \in DOMAIN bind : Plan(a).env[k] = bind[k]
  <2>1. Plan(a).env = Over(bind, Env(a))
    BY <1>4
  <2>2. /\ DOMAIN Over(bind, Env(a)) = DOMAIN bind \cup DOMAIN Env(a)
        /\ \A k \in DOMAIN bind : Over(bind, Env(a))[k] = bind[k]
    BY OverIs
  <2> HIDE DEF bind
  <2> QED
    BY <2>1, <2>2
<1> HIDE DEF bind
<1> QED
  BY <1>5, <1>8, <1>9, <1>10, <1>11, <1>12 DEF Plan, ranks

LEMMA PlansAreSound == PlanInv => PlanIsSound
<1> SUFFICES ASSUME PlanInv, Planned PROVE PlanIsSound
  BY DEF PlanIsSound, Planned
<1>1. /\ preview.sel \in Selections /\ preview.seen \in Listings
      /\ Selectable(preview.sel, preview.seen)
      /\ preview.ranks = Assignments(preview.sel, preview.seen)
      /\ "commands" \in DOMAIN preview <=> Rendered
  BY DEF PlanInv
<1>2. ASSUME Rendered
      PROVE  /\ preview.commands = [a \in preview.ranks |-> PlanFor(a, preview.seen[a.node])]
             /\ \A a \in preview.ranks : PlanForRefusals(a, preview.seen[a.node]) = {}
  BY <1>2 DEF PlanInv
<1> DEFINE sel     == preview.sel
           seen    == preview.seen
           workers == Picked(sel) \ {sel.head}
           head    == seen[sel.head]
<1>3. /\ {a.node : a \in preview.ranks} = Picked(sel)
      /\ {a.rank : a \in preview.ranks} = 0..(Len(sel.nodes) - 1)
      /\ Cardinality(preview.ranks) = Len(sel.nodes)
      /\ \A a, b \in preview.ranks : a.master = b.master
      /\ \A a \in preview.ranks :
           /\ a.rank = 0 <=> a.node = sel.head
           /\ (\E i \in Usable(head.addresses) :
                 /\ head.addresses[i].prefix > 0
                 /\ ReachesAll(head.addresses[i], workers, preview.seen))
              => ReachesAll(a.master, workers, preview.seen)
  <2>1. sel \in Selections /\ seen \in Listings /\ Selectable(sel, seen)
    BY <1>1
  <2>2. preview.ranks = Assignments(sel, seen)
    BY <1>1
  <2> HIDE DEF sel, seen
  <2>3. /\ {a.node : a \in Assignments(sel, seen)} = Picked(sel)
        /\ {a.rank : a \in Assignments(sel, seen)} = 0..(Len(sel.nodes) - 1)
        /\ Cardinality(Assignments(sel, seen)) = Len(sel.nodes)
        /\ \A a, b \in Assignments(sel, seen) : a.master = b.master
        /\ \A a \in Assignments(sel, seen) :
             /\ a.rank = 0 <=> a.node = sel.head
             /\ (\E i \in Usable(head.addresses) :
                   /\ head.addresses[i].prefix > 0
                   /\ ReachesAll(head.addresses[i], workers, seen))
                => ReachesAll(a.master, workers, seen)
    BY <2>1, RanksAreSound
  <2> QED
    BY <2>2, <2>3 DEF seen
<1>4. ASSUME "commands" \in DOMAIN preview, NEW a \in preview.ranks
      PROVE  LET command == preview.commands[a]
                 node    == preview.seen[a.node] IN
             /\ \A b \in preview.ranks : Shared(command) = Shared(preview.commands[b])
             /\ a.rank > 0 => {x.value : x \in {y \in command.args : y.flag = "port"}} = {"0"}
             /\ Meets(node, a.master) =>
                  /\ "NCCL_SOCKET_IFNAME" \in DOMAIN command.env
                  /\ OnMastersNetwork(node, a.master, command.env["NCCL_SOCKET_IFNAME"])
             /\ "NCCL_SOCKET_IFNAME" \in DOMAIN command.env =>
                  Meets(node, a.master) \/ "NCCL_SOCKET_IFNAME" \in DOMAIN node.ships[sel.recipe].env
  <2>1. /\ \A b \in preview.ranks : preview.commands[b] = PlanFor(b, preview.seen[b.node])
        /\ \A b \in preview.ranks : PlanForRefusals(b, preview.seen[b.node]) = {}
    BY <1>1, <1>2, <1>4
  <2>2. sel \in Selections /\ seen \in Listings /\ Selectable(sel, seen)
    BY <1>1
  <2>3. /\ preview.ranks = Assignments(sel, seen) /\ a \in Assignments(sel, seen)
        /\ \A b \in Assignments(sel, seen) : PlanForRefusals(b, seen[b.node]) = {}
        /\ \A b \in Assignments(sel, seen) : preview.commands[b] = PlanFor(b, seen[b.node])
    BY <1>1, <1>4, <2>1
  <2> DEFINE command == PlanFor(a, seen[a.node])
             node    == seen[a.node]
  <2> HIDE DEF sel, seen
  <2>4. /\ \A b \in Assignments(sel, seen) : Shared(command) = Shared(PlanFor(b, seen[b.node]))
        /\ a.rank > 0 => {x.value : x \in {y \in command.args : y.flag = "port"}} = {"0"}
        /\ Meets(node, a.master) =>
             /\ "NCCL_SOCKET_IFNAME" \in DOMAIN command.env
             /\ OnMastersNetwork(node, a.master, command.env["NCCL_SOCKET_IFNAME"])
        /\ "NCCL_SOCKET_IFNAME" \in DOMAIN command.env =>
             Meets(node, a.master) \/ "NCCL_SOCKET_IFNAME" \in DOMAIN node.ships[sel.recipe].env
    BY <2>2, <2>3, CommandsAreSound
  <2>5. preview.commands[a] = command
    BY <2>3
  <2> HIDE DEF command
  <2> QED
    BY <2>3, <2>4, <2>5 DEF seen, sel
<1> QED
  BY <1>3, <1>4 DEF PlanIsSound

\* A plan the page is shown is one that can be launched: a rank each, one
\* master, reached by all where one of the head's addresses is, and commands
\* that differ in who each rank is; whatever the fleet lists and the recipes say
\* (cluster.rs, rendezvous_address; rankservice/mod.rs, plan_for).
THEOREM PlansPutEveryoneInPlace == Spec => []PlanIsSound
<1>1. Init => PlanInv
  BY PlanInvInit DEF Init
<1> QED
  BY <1>1, PlanInvNext, PlansAreSound, PTL DEF Spec
=============================================================================
