----------------------------- MODULE NodeTable -----------------------------
(***************************************************************************)
(* node_table of node/storage.py.  A row keeps what the gossip engine acts *)
(* on: status, missed_pings and last_seen, the last as its age, now minus  *)
(* last_seen, so that time has no bound.  An age beyond the time to live   *)
(* and a count beyond the offline threshold are not told apart.            *)
(***************************************************************************)
EXTENDS Naturals, Tables

CONSTANTS
    MissedPingsOffline,  \* MISSED_PINGS_OFFLINE
    TtlNodeOffline       \* TTL_NODE_OFFLINE_SECS, in ticks

ASSUME NodeTableAssumption ==
    /\ MissedPingsOffline \in Nat \ {0}
    /\ TtlNodeOffline \in Nat

NodeEntry ==
    [status : {"online", "offline"},
     missed : 0 .. MissedPingsOffline,
     age    : 0 .. TtlNodeOffline + 1]

\* What every caller of upsert_node passes: seen now, no pings missed.
Seen == [status |-> "online", missed |-> 0, age |-> 0]

upsert_node(tab, x) == Put(tab, x, Seen)

\* Mutant of Missed: the threshold is compared with the count before the miss.
MissedLate(e) ==
    [e EXCEPT !.missed = IF @ < MissedPingsOffline THEN @ + 1 ELSE @,
              !.status = IF e.missed >= MissedPingsOffline THEN "offline" ELSE @]

\* Mutant of Missed: the literal of the SQL statement is misspelt.
MissedMisspelt(e) ==
    [e EXCEPT !.missed = IF @ < MissedPingsOffline THEN @ + 1 ELSE @,
              !.status = IF e.missed + 1 >= MissedPingsOffline THEN "off" ELSE @]

Missed(e) ==
    [e EXCEPT !.missed = IF @ < MissedPingsOffline THEN @ + 1 ELSE @,
              !.status = IF e.missed + 1 >= MissedPingsOffline THEN "offline" ELSE @]

\* Mutant of update_node_ping: a late result inserts the row it does not find.
update_node_ping_inserts(tab, x, success) ==
    Put(tab, x, IF success THEN Seen
                ELSE Missed(IF x \in DOMAIN tab THEN tab[x] ELSE Seen))

\* An UPDATE: a node without a row is left without one.
update_node_ping(tab, x, success) ==
    IF x \in DOMAIN tab
    THEN [tab EXCEPT ![x] = IF success THEN Seen ELSE Missed(@)]
    ELSE tab

remove_node(tab, x) == Drop(tab, x)

Expired(tab) ==
    {x \in DOMAIN tab : tab[x].status = "offline" /\ tab[x].age > TtlNodeOffline}

cleanup_expired_nodes(tab) == DropAll(tab, Expired(tab))

\* One tick of the wall clock, seen by every row.
AgeNodes(tab) ==
    [x \in DOMAIN tab |->
        [tab[x] EXCEPT !.age = IF @ <= TtlNodeOffline THEN @ + 1 ELSE @]]
=============================================================================
