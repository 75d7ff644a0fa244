------------------------------- MODULE Tables -------------------------------
(***************************************************************************)
(* Keyed tables.  A Python dict and an SQLite table with a primary key are *)
(* both a function whose domain is the set of keys that have a row.        *)
(***************************************************************************)

\* f is a table with keys in K and rows in V.
IsTable(f, K, V) ==
    /\ DOMAIN f \subseteq K
    /\ \A x \in DOMAIN f : f[x] \in V

EmptyTable == [x \in {} |-> {}]

\* d[x] = v, or INSERT ... ON CONFLICT DO UPDATE.
Put(f, x, v) ==
    [y \in DOMAIN f \cup {x} |-> IF y = x THEN v ELSE f[y]]

\* d.pop(x, None), or DELETE ... WHERE key = x.
Drop(f, x) ==
    [y \in DOMAIN f \ {x} |-> f[y]]

\* DELETE of every row whose key is in X.
DropAll(f, X) ==
    [y \in DOMAIN f \ X |-> f[y]]

=============================================================================
