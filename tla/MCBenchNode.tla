---------------------------- MODULE MCBenchNode -----------------------------
(***************************************************************************)
(* The operator's command and the box, explored apart.                     *)
(***************************************************************************)
EXTENDS BenchNode, TLC

CONSTANTS n1, n2, a1, a2, f1, f2, c1, c2, m1

VARIABLE end   \* which of the two this behaviour is about

boxVars == <<agent, worker, queue, repo, tree, known, cargo, lock, target, cache, kept,
             proc, lease, file, spent, judged>>

Where == (a1 :> n1) @@ (a2 :> n2)
Lists == {<<>>, <<a1>>, <<a1, a2>>}

\* Commits are interchangeable.
Interchangeable == Permutations(Commit)

NodeInit ==
  /\ Init /\ Box!Init
  /\ \/ /\ end = "command"
        /\ repo.local = {} /\ agent.how = CHOOSE how \in Started : TRUE
     \/ /\ end = "box"
        /\ job = [n \in Node |-> None] /\ out = [a \in Artifact |-> Absent]

NodeNext ==
  \/ end = "command" /\ Next /\ UNCHANGED <<boxVars, end>>
  \/ end = "box" /\ Box!Next /\ UNCHANGED <<vars, end>>

NodeSpec == NodeInit /\ [][NodeNext]_<<vars, boxVars, end>>
=============================================================================
