--------------------------- MODULE MCControlRelay ---------------------------
(***************************************************************************)
(* An operator's machine o, a machine r it has paired with, a target t.    *)
(***************************************************************************)
EXTENDS ControlRelay, TLC
CONSTANTS o, r, t, q1
InOrder == (o :> 1) @@ (r :> 2) @@ (t :> 3)

Both(pairs) == pairs \cup {<<p[2], p[1]>> : p \in pairs}
Fleet(pairs, control, placed, old, budget) ==
  [paired |-> Both(pairs), control |-> control, placed |-> placed, changes |-> budget,
   speaks |-> [n \in Node |-> IF n \in old THEN 1 ELSE 2]]

Chain == {<<o, r>>, <<r, t>>}
Ring  == Chain \cup {<<o, t>>}
\* A chain in which each has the rights it needs, or one lacks them; a ring with
\* an address missing; and chains with an agent not upgraded yet.
Scenes ==
  {Fleet(Chain, {<<r, o>>, <<t, r>>}, Both(Chain), {}, 2),
   Fleet(Chain, {<<t, r>>}, Both(Chain), {}, 2),
   Fleet(Ring, Both(Ring), Both(Chain), {}, 1),
   Fleet(Chain, Both(Chain), Both(Chain), {t}, 1),
   Fleet(Chain, Both(Chain), Both(Chain), {r}, 1)}
=============================================================================
