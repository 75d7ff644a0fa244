------------------------------- MODULE Gossip -------------------------------
(***************************************************************************)
(* Membership of the Nevod network: the gossip engine (node/gossip.py) and *)
(* Node.join of every node, over the node_table of each.                   *)
(*                                                                         *)
(* A round runs beside the handlers of incoming packets.  It works from a  *)
(* snapshot of node_table taken at its start: it pings every row, deletes  *)
(* expired rows, and sends the table to a sample of the peers that were    *)
(* online in the snapshot.  Between the test whether a row of a GOSSIP     *)
(* packet is missing and its insertion, the handler awaits.                *)
(*                                                                         *)
(* A packet's from_addr is not compared with the peer it came from, so a   *)
(* PONG or a NODE_LEAVING may name any node; GOSSIP packets are those that *)
(* the nodes of the model send.                                            *)
(***************************************************************************)
EXTENDS NodeTable, FiniteSets

CONSTANTS
    Node,          \* node ids
    Known,         \* pairs <<n, x>>: n lists x at the start; <<n, n>> if n was
                   \* made by create_genesis
    JoinVia,       \* pairs <<n, b>>: n calls join with the address of b
    Dead,          \* nodes that are gone from the start
    Mortal,        \* nodes that may stop and be started again
    Fanout,        \* GOSSIP_FANOUT
    Env            \* what else happens: a subset of AllEnv

\* "faults": dials, sends and registry entries fail for no cause; "removals":
\* NODE_REMOVE and NODE_LEAVING packets arrive; "clock": time passes; "pongs":
\* PONG packets arrive (where nothing goes offline a PONG changes no row).
AllEnv == {"faults", "removals", "clock", "pongs"}

ASSUME GossipAssumption ==
    /\ Known \subseteq Node \X Node
    /\ JoinVia \subseteq Node \X Node
    /\ Dead \subseteq Node /\ Mortal \subseteq Node \ Dead
    /\ Fanout \in Nat
    /\ Env \subseteq AllEnv

VARIABLES
    up,      \* running nodes
    table,   \* table[n]: node_table of n
    link,    \* link[n][x]: n's registry entry for x: "none", "open", or "stale"
             \* when the other end is gone and n has not noticed
    round,   \* round[n]: the gossip round of n
    learn,   \* learn[n][s]: ids in the GOSSIP packet from s that n has to merge
    fresh,   \* fresh[n][s]: the one found missing and not yet inserted, if any
    joins    \* joins still to be called

vars == <<up, table, link, round, learn, fresh, joins>>

Round ==
    [pc : {"sleep", "ping", "exchange"}, todo : SUBSET Node, peers : SUBSET Node]

NoRows == [s \in Node |-> {}]

Asleep == [pc |-> "sleep", todo |-> {}, peers |-> {}]

TypeOK ==
    /\ up \subseteq Node
    /\ DOMAIN table = Node
    /\ \A n \in Node : IsTable(table[n], Node, NodeEntry)
    /\ link \in [Node -> [Node -> {"none", "open", "stale"}]]
    /\ round \in [Node -> Round]
    /\ learn \in [Node -> [Node -> SUBSET Node]]
    /\ fresh \in [Node -> [Node -> SUBSET Node]]
    /\ joins \subseteq JoinVia

\* New nodes, or, where Known says so, nodes that have run before.
Init ==
    /\ up = Node \ Dead
    /\ table = [n \in Node |-> [x \in {y \in Node : <<n, y>> \in Known} |-> Seen]]
    /\ link = [n \in Node |-> [x \in Node |-> "none"]]
    /\ round = [n \in Node |-> Asleep]
    /\ learn = [n \in Node |-> NoRows]
    /\ fresh = [n \in Node |-> NoRows]
    /\ joins = JoinVia
-----------------------------------------------------------------------------
Connected(n, x) ==
    link' = [link EXCEPT ![n][x] = "open", ![x][n] = "open"]

SetTable(n, tab) == table' = [table EXCEPT ![n] = tab]

\* join: n dials b and lists it; neither sends the other its table.
Join(n, b) ==
    /\ <<n, b>> \in joins
    /\ {n, b} \subseteq up
    /\ Connected(n, b)
    /\ SetTable(n, upsert_node(table[n], b))
    /\ joins' = joins \ {<<n, b>>}
    /\ UNCHANGED <<up, round, learn, fresh>>

\* Mutant of RoundStarts: a node pings itself too.
RoundPingsItself(n) ==
    /\ n \in up
    /\ round[n].pc = "sleep"
    /\ round' = [round EXCEPT ![n] =
         [pc |-> "ping", todo |-> DOMAIN table[n], peers |-> {}]]
    /\ UNCHANGED <<up, table, link, learn, fresh, joins>>

\* _round: the snapshot.
RoundStarts(n) ==
    /\ n \in up
    /\ round[n].pc = "sleep"
    /\ round' = [round EXCEPT ![n] =
         [pc    |-> "ping",
          todo  |-> DOMAIN table[n] \ {n},
          peers |-> {x \in DOMAIN table[n] \ {n} : table[n][x].status = "online"}]]
    /\ UNCHANGED <<up, table, link, learn, fresh, joins>>

\* _ping_node up to its last await: the ping was sent on the registered
\* connection, or on a new one, and that alone counts as success.
PingSucceeds(n, x) ==
    /\ x \in round[n].todo
    /\ IF link[n][x] = "none"
       THEN x \in up /\ Connected(n, x)
       ELSE UNCHANGED link
    /\ SetTable(n, update_node_ping(table[n], x, TRUE))
    /\ round' = [round EXCEPT ![n].todo = @ \ {x}]
    /\ UNCHANGED <<up, learn, fresh, joins>>

PingFails(n, x) ==
    /\ x \in round[n].todo
    /\ \/ "faults" \in Env
       \/ link[n][x] = "stale"
       \/ link[n][x] = "none" /\ x \notin up
    /\ SetTable(n, update_node_ping(table[n], x, FALSE))
    /\ round' = [round EXCEPT ![n].todo = @ \ {x}]
    /\ UNCHANGED <<up, link, learn, fresh, joins>>

\* The peers that the round still has to send to; after the last it is over.
AfterPeers(P) ==
    IF P = {} THEN Asleep ELSE [pc |-> "exchange", todo |-> {}, peers |-> P]

\* All rows pinged: expired rows are deleted and the peers are drawn from
\* those that were online at the start of the round.
CleanUp(n) ==
    /\ round[n].pc = "ping"
    /\ round[n].todo = {}
    /\ SetTable(n, cleanup_expired_nodes(table[n]))
    /\ \E P \in SUBSET round[n].peers :
         /\ \/ Cardinality(P) = Fanout
            \/ Cardinality(P) < Fanout /\ P = round[n].peers
         /\ round' = [round EXCEPT ![n] = AfterPeers(P)]
    /\ UNCHANGED <<up, link, learn, fresh, joins>>

\* _exchange: the current table goes to x if there is a connection.  Bound: x
\* has merged n's last packet by then, GOSSIP_INTERVAL ago.
Exchange(n, x) ==
    /\ round[n].pc = "exchange"
    /\ x \in round[n].peers
    /\ learn[x][n] = {} /\ fresh[x][n] = {}
    /\ round' = [round EXCEPT ![n] = AfterPeers(round[n].peers \ {x})]
    /\ learn' = IF link[n][x] = "open"
                THEN [learn EXCEPT ![x][n] = DOMAIN table[n]]
                ELSE learn
    /\ UNCHANGED <<up, table, link, fresh, joins>>

\* handle_gossip: the next row i of the packet from s is looked up.
MergeLooks(n, s, i) ==
    /\ i \in learn[n][s]
    /\ fresh[n][s] = {}
    /\ learn' = [learn EXCEPT ![n][s] = @ \ {i}]
    /\ fresh' = [fresh EXCEPT ![n][s] = {i} \ DOMAIN table[n]]
    /\ UNCHANGED <<up, table, link, round, joins>>

\* Mutant of MergeInserts: the row is updated, not inserted.
MergeUpdates(n, s, i) ==
    /\ i \in fresh[n][s]
    /\ fresh' = [fresh EXCEPT ![n][s] = @ \ {i}]
    /\ SetTable(n, update_node_ping(table[n], i, TRUE))
    /\ UNCHANGED <<up, link, round, learn, joins>>

\* handle_gossip: a row that was missing is inserted as online and seen now,
\* whatever its status at the sender.
MergeInserts(n, s, i) ==
    /\ i \in fresh[n][s]
    /\ fresh' = [fresh EXCEPT ![n][s] = @ \ {i}]
    /\ SetTable(n, upsert_node(table[n], i))
    /\ UNCHANGED <<up, link, round, learn, joins>>

\* handle_pong: the node named as the sender is alive.
HandlePong(n, x) ==
    /\ "pongs" \in Env
    /\ n \in up
    /\ SetTable(n, update_node_ping(table[n], x, TRUE))
    /\ UNCHANGED <<up, link, round, learn, fresh, joins>>

\* _handle_node_remove; no node sends the packet.
HandleNodeRemove(n, i) ==
    /\ "removals" \in Env
    /\ n \in up
    /\ SetTable(n, remove_node(table[n], i))
    /\ UNCHANGED <<up, link, round, learn, fresh, joins>>

\* _handle_node_leaving; no node sends the packet.
HandleNodeLeaving(n, x) ==
    /\ "removals" \in Env
    /\ n \in up
    /\ SetTable(n, remove_node(table[n], x))
    /\ link' = [link EXCEPT ![n][x] = "none"]
    /\ UNCHANGED <<up, round, learn, fresh, joins>>
-----------------------------------------------------------------------------
\* n notices that a connection is gone, or, when the network is faulty, loses
\* the entry of an open one (see Transport).
LinkEnds(n, x) ==
    /\ link[n][x] = "stale" \/ ("faults" \in Env /\ link[n][x] = "open")
    /\ link' = [link EXCEPT ![n][x] = "none"]
    /\ UNCHANGED <<up, table, round, learn, fresh, joins>>

\* x stops.  Its table is on disk; the rest is lost.
Stop(x) ==
    /\ x \in up \cap Mortal
    /\ up' = up \ {x}
    /\ link' = [n \in Node |-> [y \in Node |->
                 IF n = x THEN "none"
                 ELSE IF y = x /\ link[n][y] = "open" THEN "stale"
                 ELSE link[n][y]]]
    /\ round' = [round EXCEPT ![x] = Asleep]
    /\ learn' = [learn EXCEPT ![x] = NoRows]
    /\ fresh' = [fresh EXCEPT ![x] = NoRows]
    /\ UNCHANGED <<table, joins>>

Restart(x) ==
    /\ x \in Mortal \ up
    /\ up' = up \cup {x}
    /\ UNCHANGED <<table, link, round, learn, fresh, joins>>

Tick ==
    /\ "clock" \in Env
    /\ table' = [n \in Node |-> AgeNodes(table[n])]
    /\ UNCHANGED <<up, link, round, learn, fresh, joins>>

RoundStep(n) ==
    \/ RoundStarts(n)
    \/ \E x \in Node :
         \/ PingSucceeds(n, x)
         \/ PingFails(n, x)
         \/ Exchange(n, x)
    \/ CleanUp(n)

Merge(n, s) == \E i \in Node : MergeLooks(n, s, i) \/ MergeInserts(n, s, i)

Next ==
    \/ \E n, b \in Node : Join(n, b)
    \/ \E n \in Node : RoundStep(n) \/ Stop(n) \/ Restart(n)
    \/ \E n, x \in Node :
         \/ Merge(n, x)
         \/ HandlePong(n, x)
         \/ HandleNodeRemove(n, x)
         \/ HandleNodeLeaving(n, x)
         \/ LinkEnds(n, x)
    \/ Tick

\* Rounds recur every GOSSIP_INTERVAL, received packets are handled, lost
\* connections are noticed by the WebSocket keepalive, and time passes.
Spec ==
    /\ Init
    /\ [][Next]_vars
    /\ \A n \in Node : WF_vars(RoundStep(n))
    /\ \A n, x \in Node :
         /\ WF_vars(Join(n, x))
         /\ WF_vars(Merge(n, x))
         /\ WF_vars(LinkEnds(n, x))
    /\ WF_vars(Tick)
-----------------------------------------------------------------------------
\* A row says offline exactly when the threshold of missed pings is reached,
\* whichever of rounds, pongs, merges and joins wrote it last.
StatusMatchesMisses ==
    \A n \in Node : \A x \in DOMAIN table[n] :
        table[n][x].status = "offline" <=> table[n][x].missed >= MissedPingsOffline

\* A node never takes itself for offline, though gossip may give it a row for
\* itself and it never pings itself: its own row cannot expire.
OwnRowOnline ==
    \A n \in Node : n \in DOMAIN table[n] => table[n][n].status = "online"

\* Nobody knows x: no table, no packet and no pending join names it.
Forgotten(x) ==
    /\ \A n \in Node : x \notin DOMAIN table[n]
    /\ \A n, s \in Node : x \notin learn[n][s] \cup fresh[n][s]
    /\ \A n \in Node : <<n, x>> \notin joins

\* A node that everybody has removed stays removed: neither a round that still
\* has x in its snapshot nor a late PONG of x brings a row for it back.
ForgottenStays ==
    [][\A x \in Node : Forgotten(x) => Forgotten(x)']_vars

\* Somebody else has a row for x.
Listed(x) == \E n \in Node \ {x} : x \in DOMAIN table[n]

\* The nodes that somebody else lists end up with online rows for one another,
\* those they never dialled included, and keep them.  (A node that only joined
\* is listed by nobody: nobody gossips to it.)
Converges ==
    <>[](\A n, x \in Node :
            Listed(n) /\ Listed(x) => x \in DOMAIN table[n] /\ table[n][x].status = "online")

\* TZ_NETWORK.md:66 and gossip.py:7: the removal of a node that has been
\* offline longer than the time to live reaches everybody.
DeadForgotten ==
    \A x \in Dead : <>[](\A n \in up : x \notin DOMAIN table[n])
=============================================================================
