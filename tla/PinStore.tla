------------------------------ MODULE PinStore ------------------------------
(***************************************************************************)
(* The pin file `peers.json` (identity.rs) and everybody who writes it.     *)
(* Every verb is a read-modify-write of the whole file: `load`, change one  *)
(* entry, `save`.  secretfile::write makes the save one atomic rename and   *)
(* says that it does not serialise two writers, so the load and the save    *)
(* are two steps here and other writers' steps fall between them.           *)
(*                                                                         *)
(* A writer is a thread of the agent (the join task of one caller, the      *)
(* browser session, the peer poll) or a command (`atlasctl peer ...`).      *)
(***************************************************************************)
EXTENDS Naturals, FiniteSets

CONSTANTS None,     \* no pin, no verb, no invitation, no exchange
          Peers,    \* the other machines
          Writers   \* who may be in the middle of a verb

NoPin == None

\* identity.rs Pin: the two grants and the remembered address; the key and the
\* name never change for one id.
Pin(controller, bench, addr) ==
    [controller |-> controller, bench |-> bench, addr |-> addr]

PinRecords == [controller : BOOLEAN, bench : BOOLEAN, addr : {"old", "new"}]

\* The rights an entry carries.
Rights(pin) == {r \in {"controller", "bench"} : pin # NoPin /\ pin[r]}

Idle == None

\* One verb in progress: what it does, to whom, the entry it will write, and
\* the file it read.
Verbs == {"add", "relocate", "remove", "set_controller", "set_bench"}
Write(verb, node, pin, snap) ==
    [verb |-> verb, node |-> node, pin |-> pin, snap |-> snap]
WriteRecords == [verb : Verbs \cup {"remember"}, node : Peers,
                 pin : PinRecords \cup {NoPin}, snap : [Peers -> PinRecords \cup {NoPin}]]

ASSUME PinNoneIsFresh == None \notin PinRecords \cup WriteRecords

VARIABLES
    file,     \* peers.json
    writing,  \* Writers -> Idle, or the verb the writer is in the middle of
    given,    \* history: <<peer, right>> a human gave since that peer was last paired
    raced     \* history: a save has overwritten a change it had not read

pinVars == <<file, writing, given, raced>>

PinInit ==
    /\ file = [p \in Peers |-> NoPin]
    /\ writing = [w \in Writers |-> Idle]
    /\ given = {}
    /\ raced = FALSE

Pinned(p) == file[p] # NoPin

-----------------------------------------------------------------------------
(* The verbs.  Each begins with its load. *)

\* Mutant of BeginAdd: the entry that was there keeps its bench grant.
BeginAddKeepingGrants(w, p, pin) ==
    /\ writing[w] = Idle
    /\ writing' = [writing EXCEPT ![w] = Write("add", p,
                    IF Pinned(p) THEN [pin EXCEPT !.bench = file[p].bench] ELSE pin, file)]

\* PinStore::add: insert, replacing any entry of the same id.
BeginAdd(w, p, pin) ==
    /\ writing[w] = Idle
    /\ writing' = [writing EXCEPT ![w] = Write("add", p, pin, file)]

\* PinStore::remove: nothing is written for a peer that is not there.
BeginRemove(w, p) ==
    /\ writing[w] = Idle
    /\ Pinned(p)
    /\ writing' = [writing EXCEPT ![w] = Write("remove", p, NoPin, file)]

\* PinStore::set_controller and set_bench: only on a pin that exists ("a right
\* is never created by granting it"); every other field is kept.
BeginSet(w, verb, p, granted) ==
    /\ writing[w] = Idle
    /\ Pinned(p)
    /\ writing' = [writing EXCEPT ![w] = Write(verb, p,
                    IF verb = "set_controller"
                    THEN [file[p] EXCEPT !.controller = granted]
                    ELSE [file[p] EXCEPT !.bench = granted], file)]

\* pinning.rs remember_address: a first load to see whether the address
\* changed, and a clone of that pin to add ...
BeginRemember(w, p) ==
    /\ writing[w] = Idle
    /\ Pinned(p)
    /\ file[p].addr # "new"
    /\ writing' = [writing EXCEPT ![w] =
                     Write("remember", p, [file[p] EXCEPT !.addr = "new"], file)]

\* ... and then the load of `add` itself: a verb saved in between is undone for
\* this pin.
RememberAdds(w) ==
    /\ writing[w] # Idle
    /\ writing[w].verb = "remember"
    /\ writing' = [writing EXCEPT ![w].verb = "relocate", ![w].snap = file]
    /\ raced' = (raced \/ file[writing[w].node] # writing[w].snap[writing[w].node])
    /\ UNCHANGED <<file, given>>

Saving(w) == writing[w] # Idle /\ writing[w].verb \in Verbs

\* What a verb wants to write: the file it read, one entry changed.
Written(x) == [x.snap EXCEPT ![x.node] = x.pin]

\* The rights humans have given once a save is done: unpairing ends them all, and
\* pairing anew leaves only what this pairing was told to grant.
GivenAfter(x) ==
    LET others == {g \in given : g[1] # x.node}
        kept   == {g \in given : g[1] = x.node}
        onAdd  == IF x.pin # NoPin /\ x.pin.controller THEN {<<x.node, "controller">>} ELSE {}
    IN  others \cup CASE x.verb = "remove"   -> {}
                      [] x.verb = "add"      -> onAdd
                      [] x.verb = "relocate" -> kept
                      [] OTHER -> kept \cup ({x.node} \X (Rights(x.pin) \ Rights(x.snap[x.node])))

\* PinStore::save: the whole file is replaced by what the writer had read and
\* changed, whatever has been saved since.
Save(w) ==
    /\ Saving(w)
    /\ file' = Written(writing[w])
    /\ writing' = [writing EXCEPT ![w] = Idle]
    /\ given' = GivenAfter(writing[w])
    /\ raced' = (raced \/ file # writing[w].snap)

\* The disk refuses: an error for whoever asked, and the old file stands.
SaveFails(w) ==
    /\ Saving(w)
    /\ writing' = [writing EXCEPT ![w] = Idle]
    /\ UNCHANGED <<file, given, raced>>

-----------------------------------------------------------------------------
PinTypeOK ==
    /\ file \in [Peers -> PinRecords \cup {NoPin}]
    /\ writing \in [Writers -> WriteRecords \cup {Idle}]
    /\ given \subseteq Peers \X {"controller", "bench"}
    /\ raced \in BOOLEAN

=============================================================================
