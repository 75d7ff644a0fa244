----------------------------- MODULE MC_Gossip -----------------------------
(***************************************************************************)
(* Gossip for TLC: who knows and who joins whom.                           *)
(***************************************************************************)
EXTENDS Gossip

CONSTANTS n1, n2, n3

\* n1 was made by create_genesis and has a row for itself.
Genesis == {<<n1, n1>>}

\* n1 and n2 join each other.
JoinBoth == {<<n1, n2>>, <<n2, n1>>}

\* n2 has joined n1 before and now joins n3; nobody joins n2.
Joined2 == Genesis \cup {<<n2, n1>>}
JoinThird == {<<n2, n3>>}

\* n1 and n2 know each other and n3.
Acquainted == {p \in {n1, n2} \X Node : p[1] # p[2]}
=============================================================================
