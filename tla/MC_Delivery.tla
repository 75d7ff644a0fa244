---------------------------- MODULE MC_Delivery ----------------------------
(***************************************************************************)
(* Delivery for TLC: the recipients of the runs' messages and the presence *)
(* rows that a run starts from.                                            *)
(***************************************************************************)
EXTENDS Delivery, TLC

CONSTANTS a, b, n, m1, m2

\* Connections, and the two messages for the same cell, are interchangeable.
Symmetry == Permutations(Conn) \cup Permutations({m1, m2})

\* Both messages for cell a, so that a flush has two rows to work through.
SameCell == (m1 :> a) @@ (m2 :> a)

\* One message for a cell and one for a node.
Mixed == (m1 :> a) @@ (m2 :> n)

\* Any row that route can handle.
AnyRow == Presence

\* What register_cell writes for a cell of this node that is now offline.
HomeRow == {[home |-> Me, visiting |-> None]}
=============================================================================
