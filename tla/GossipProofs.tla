---------------------------- MODULE GossipProofs ----------------------------
(***************************************************************************)
(* Proofs about Gossip, for any number of nodes, any threshold and any     *)
(* time to live.                                                           *)
(***************************************************************************)
EXTENDS Gossip, TLAPS

\* A node_table whose rows have their type and whose status column agrees
\* with its missed_pings column.
StatusOK(tab) ==
    \A x \in DOMAIN tab :
        tab[x].status = "offline" <=> tab[x].missed >= MissedPingsOffline

TableOK(tab) == IsTable(tab, Node, NodeEntry) /\ StatusOK(tab)

\* A new row is well formed and online.
LEMMA SeenOK ==
    Seen \in NodeEntry /\ Seen.status = "online" /\ ~(Seen.missed >= MissedPingsOffline)
  BY NodeTableAssumption DEF Seen, NodeEntry

\* A miss keeps a row well formed: the status changes with the count.
LEMMA MissedOK ==
    ASSUME NEW e \in NodeEntry,
           e.status = "offline" <=> e.missed >= MissedPingsOffline
    PROVE  /\ Missed(e) \in NodeEntry
           /\ Missed(e).status = "offline" <=> Missed(e).missed >= MissedPingsOffline
<1> DEFINE m == IF e.missed < MissedPingsOffline THEN e.missed + 1 ELSE e.missed
           s == IF e.missed + 1 >= MissedPingsOffline THEN "offline" ELSE e.status
<1>1. e.missed \in 0 .. MissedPingsOffline /\ e.status \in {"online", "offline"}
  BY DEF NodeEntry
<1>2. m \in 0 .. MissedPingsOffline /\ s \in {"online", "offline"}
  BY <1>1, NodeTableAssumption
<1>3. s = "offline" <=> m >= MissedPingsOffline
  BY <1>1, NodeTableAssumption
<1>4. Missed(e) = [e EXCEPT !.missed = m, !.status = s]
  BY DEF Missed
<1> HIDE DEF m, s
<1>5. Missed(e) \in NodeEntry /\ Missed(e).missed = m /\ Missed(e).status = s
  BY <1>2, <1>4 DEF NodeEntry
<1> QED BY <1>3, <1>5

\* upsert_node keeps a table well formed.
LEMMA UpsertOK ==
    ASSUME NEW tab, TableOK(tab), NEW x \in Node
    PROVE  TableOK(upsert_node(tab, x))
  BY SeenOK DEF TableOK, IsTable, StatusOK, upsert_node, Put

\* update_node_ping keeps a table well formed, success or not.
LEMMA UpdateOK ==
    ASSUME NEW tab, TableOK(tab), NEW x \in Node, NEW b \in BOOLEAN
    PROVE  TableOK(update_node_ping(tab, x, b))
<1>1. CASE x \notin DOMAIN tab
  BY <1>1 DEF update_node_ping
<1>2. CASE x \in DOMAIN tab
  <2> DEFINE e == IF b THEN Seen ELSE Missed(tab[x])
  <2>1. tab[x] \in NodeEntry
    BY <1>2 DEF TableOK, IsTable
  <2>2. e \in NodeEntry /\ (e.status = "offline" <=> e.missed >= MissedPingsOffline)
    <3>1. CASE b
      BY <3>1, SeenOK
    <3>2. CASE ~b
      BY <1>2, <2>1, <3>2, MissedOK DEF TableOK, StatusOK
    <3> QED BY <3>1, <3>2
  <2>3. update_node_ping(tab, x, b) = [tab EXCEPT ![x] = e]
    BY <1>2 DEF update_node_ping
  <2> HIDE DEF e
  <2> QED BY <1>2, <2>2, <2>3 DEF TableOK, IsTable, StatusOK
<1> QED BY <1>1, <1>2

\* remove_node and cleanup_expired_nodes only delete rows.
LEMMA RemoveOK ==
    ASSUME NEW tab, TableOK(tab), NEW x
    PROVE  TableOK(remove_node(tab, x)) /\ TableOK(cleanup_expired_nodes(tab))
  BY DEF TableOK, IsTable, StatusOK, remove_node, cleanup_expired_nodes, Drop, DropAll

\* The clock touches neither status nor missed_pings.
LEMMA AgeOK ==
    ASSUME NEW tab, TableOK(tab)
    PROVE  TableOK(AgeNodes(tab))
<1>1. ASSUME NEW x \in DOMAIN tab
      PROVE  /\ AgeNodes(tab)[x] \in NodeEntry
             /\ AgeNodes(tab)[x].status = tab[x].status
             /\ AgeNodes(tab)[x].missed = tab[x].missed
  BY NodeTableAssumption DEF TableOK, IsTable, AgeNodes, NodeEntry
<1>2. DOMAIN AgeNodes(tab) = DOMAIN tab
  BY DEF AgeNodes
<1> QED BY <1>1, <1>2 DEF TableOK, IsTable, StatusOK
-----------------------------------------------------------------------------
\* The inductive invariant of the tables alone: no step needs anything of the
\* other variables to keep every table well formed.
TablesOK ==
    /\ DOMAIN table = Node
    /\ \A n \in Node : TableOK(table[n])

\* Writing one well formed table keeps all of them well formed.
LEMMA SetTableOK ==
    ASSUME TablesOK, NEW n \in Node, NEW tab, TableOK(tab), SetTable(n, tab)
    PROVE  TablesOK'
<1>1. DOMAIN table' = Node /\ table'[n] = tab
  BY DEF TablesOK, SetTable
<1>2. \A m \in Node \ {n} : table'[m] = table[m]
  BY DEF TablesOK, SetTable
<1>3. \A m \in Node : TableOK(table'[m])
  BY <1>1, <1>2 DEF TablesOK
<1> QED BY <1>1, <1>3 DEF TablesOK, TableOK, IsTable, StatusOK

\* Initially every row is new.
LEMMA InitTablesOK ==
    ASSUME Init PROVE TablesOK
<1>1. ASSUME NEW n \in Node PROVE TableOK(table[n])
  BY <1>1, SeenOK, GossipAssumption DEF Init, TableOK, IsTable, StatusOK
<1> QED BY <1>1 DEF Init, TablesOK

\* Every step keeps the tables well formed.
LEMMA StepTablesOK ==
    ASSUME TablesOK, [Next]_vars PROVE TablesOK'
<1> USE DEF TablesOK
<1>1. ASSUME NEW n \in Node, NEW b \in Node, Join(n, b) PROVE TablesOK'
  BY <1>1, UpsertOK, SetTableOK DEF Join
<1>2. ASSUME NEW n \in Node, NEW x \in Node,
             PingSucceeds(n, x) \/ PingFails(n, x) \/ HandlePong(n, x)
      PROVE  TablesOK'
  BY <1>2, UpdateOK, SetTableOK DEF PingSucceeds, PingFails, HandlePong
<1>3. ASSUME NEW n \in Node, CleanUp(n) PROVE TablesOK'
  BY <1>3, RemoveOK, SetTableOK DEF CleanUp
<1>4. ASSUME NEW n \in Node, NEW s \in Node, NEW i \in Node, MergeInserts(n, s, i)
      PROVE  TablesOK'
  BY <1>4, UpsertOK, SetTableOK DEF MergeInserts
<1>5. ASSUME NEW n \in Node, NEW x \in Node,
             HandleNodeRemove(n, x) \/ HandleNodeLeaving(n, x)
      PROVE  TablesOK'
  BY <1>5, RemoveOK, SetTableOK DEF HandleNodeRemove, HandleNodeLeaving
<1>6. CASE Tick
  <2>1. \A n \in Node : TableOK(table'[n])
    BY <1>6, AgeOK DEF Tick
  <2> QED BY <1>6, <2>1 DEF Tick, TableOK, IsTable, StatusOK
<1>7. CASE UNCHANGED table
  BY <1>7 DEF TableOK, IsTable, StatusOK
<1>8. ASSUME NEW n \in Node, RoundStarts(n) \/ Stop(n) \/ Restart(n)
      PROVE  UNCHANGED table
  BY <1>8 DEF RoundStarts, Stop, Restart
<1>9. ASSUME NEW n \in Node, NEW x \in Node,
             \/ Exchange(n, x)
             \/ \E i \in Node : MergeLooks(n, x, i)
             \/ LinkEnds(n, x)
      PROVE  UNCHANGED table
  BY <1>9 DEF Exchange, MergeLooks, LinkEnds
<1>10. CASE UNCHANGED vars
  BY <1>7, <1>10 DEF vars
<1> QED BY <1>1, <1>2, <1>3, <1>4, <1>5, <1>6, <1>7, <1>8, <1>9, <1>10
        DEF Next, RoundStep, Merge

\* In every reachable state of every network, a row of any node_table says
\* offline exactly when missed_pings has reached MISSED_PINGS_OFFLINE.
THEOREM StatusCorrect == Spec => []StatusMatchesMisses
<1>1. Init => TablesOK
  BY InitTablesOK
<1>2. TablesOK /\ [Next]_vars => TablesOK'
  BY StepTablesOK
<1>3. TablesOK => StatusMatchesMisses
  BY DEF TablesOK, TableOK, StatusOK, StatusMatchesMisses
<1> QED BY <1>1, <1>2, <1>3, PTL DEF Spec
-----------------------------------------------------------------------------
\* The types of everything but the tables.
RestOK ==
    /\ up \subseteq Node
    /\ link \in [Node -> [Node -> {"none", "open", "stale"}]]
    /\ round \in [Node -> Round]
    /\ learn \in [Node -> [Node -> SUBSET Node]]
    /\ fresh \in [Node -> [Node -> SUBSET Node]]
    /\ joins \subseteq JoinVia

\* Initially the types are right.
LEMMA InitRestOK ==
    ASSUME Init PROVE RestOK
  BY GossipAssumption DEF Init, RestOK, Round, Asleep, NoRows

\* What is left of a round is a round.
LEMMA AfterPeersOK ==
    ASSUME NEW P \in SUBSET Node PROVE AfterPeers(P) \in Round /\ AfterPeers(P).todo = {}
  BY DEF AfterPeers, Asleep, Round

\* A row struck off a round's list leaves a round.
LEMMA PingedOK ==
    ASSUME round \in [Node -> Round], NEW n \in Node, NEW x,
           round' = [round EXCEPT ![n].todo = @ \ {x}]
    PROVE  round' \in [Node -> Round] /\ round'[n].todo = round[n].todo \ {x}
<1> DEFINE r == [round[n] EXCEPT !.todo = @ \ {x}]
<1>1. r \in Round /\ r.todo = round[n].todo \ {x}
  BY DEF Round
<1>2. round' = [round EXCEPT ![n] = r]
  OBVIOUS
<1> HIDE DEF r
<1> QED BY <1>1, <1>2

\* Every step keeps the types: the tables only enter through their keys.
LEMMA StepRestOK ==
    ASSUME TablesOK, RestOK, [Next]_vars PROVE RestOK'
<1>0. ASSUME NEW n \in Node PROVE DOMAIN table[n] \subseteq Node
  BY <1>0 DEF TablesOK, TableOK, IsTable
<1>1. ASSUME NEW n \in Node, NEW b \in Node, Join(n, b) PROVE RestOK'
  BY <1>1 DEF RestOK, Join, Connected
<1>2. ASSUME NEW n \in Node, RoundStarts(n) PROVE RestOK'
  <2>1. round' \in [Node -> Round]
    BY <1>0, <1>2 DEF RestOK, RoundStarts, Round
  <2> QED BY <1>2, <2>1 DEF RestOK, RoundStarts
<1>3. ASSUME NEW n \in Node, NEW x \in Node, PingSucceeds(n, x) PROVE RestOK'
  <2>1. link' \in [Node -> [Node -> {"none", "open", "stale"}]]
    <3>1. CASE Connected(n, x)
      BY <3>1 DEF RestOK, Connected
    <3> QED BY <1>3, <3>1 DEF RestOK, PingSucceeds
  <2>2. round' \in [Node -> Round]
    BY <1>3, PingedOK DEF RestOK, PingSucceeds
  <2> QED BY <1>3, <2>1, <2>2 DEF RestOK, PingSucceeds
<1>4. ASSUME NEW n \in Node, NEW x \in Node, PingFails(n, x) PROVE RestOK'
  <2>1. round' \in [Node -> Round]
    BY <1>4, PingedOK DEF RestOK, PingFails
  <2> QED BY <1>4, <2>1 DEF RestOK, PingFails
<1>5. ASSUME NEW n \in Node, CleanUp(n) PROVE RestOK'
  <2>1. PICK P \in SUBSET round[n].peers : round' = [round EXCEPT ![n] = AfterPeers(P)]
    BY <1>5 DEF CleanUp
  <2>2. P \subseteq Node
    BY <2>1 DEF RestOK, Round
  <2>3. round' \in [Node -> Round]
    BY <2>1, <2>2, AfterPeersOK DEF RestOK
  <2> QED BY <1>5, <2>3 DEF RestOK, CleanUp
<1>6. ASSUME NEW n \in Node, NEW x \in Node, Exchange(n, x) PROVE RestOK'
  <2>1. round[n].peers \ {x} \in SUBSET Node
    BY DEF RestOK, Round
  <2>2. round' \in [Node -> Round]
    BY <1>6, <2>1, AfterPeersOK DEF RestOK, Exchange
  <2>3. learn' \in [Node -> [Node -> SUBSET Node]]
    BY <1>0, <1>6 DEF RestOK, Exchange
  <2> QED BY <1>6, <2>2, <2>3 DEF RestOK, Exchange
<1>7. ASSUME NEW n \in Node, NEW s \in Node, NEW i \in Node, MergeLooks(n, s, i)
      PROVE  RestOK'
  <2>1. {i} \ DOMAIN table[n] \in SUBSET Node
    OBVIOUS
  <2>2. fresh' \in [Node -> [Node -> SUBSET Node]]
    BY <1>7, <2>1 DEF RestOK, MergeLooks
  <2>3. learn' \in [Node -> [Node -> SUBSET Node]]
    BY <1>7 DEF RestOK, MergeLooks
  <2> QED BY <1>7, <2>2, <2>3 DEF RestOK, MergeLooks
<1>8. ASSUME NEW n \in Node, NEW s \in Node, NEW i \in Node, MergeInserts(n, s, i)
      PROVE  RestOK'
  <2>1. fresh' = [fresh EXCEPT ![n][s] = @ \ {i}]
    BY <1>8 DEF MergeInserts
  <2>2. fresh' \in [Node -> [Node -> SUBSET Node]]
    BY <2>1 DEF RestOK
  <2> QED BY <1>8, <2>2 DEF RestOK, MergeInserts
<1>9. ASSUME NEW n \in Node, NEW x \in Node,
             \/ HandlePong(n, x)
             \/ HandleNodeRemove(n, x)
             \/ HandleNodeLeaving(n, x)
             \/ LinkEnds(n, x)
      PROVE  RestOK'
  <2>1. CASE HandlePong(n, x)
    BY <2>1 DEF RestOK, HandlePong
  <2>2. CASE HandleNodeRemove(n, x)
    BY <2>2 DEF RestOK, HandleNodeRemove
  <2>3. CASE HandleNodeLeaving(n, x)
    BY <2>3 DEF RestOK, HandleNodeLeaving
  <2>4. CASE LinkEnds(n, x)
    BY <2>4 DEF RestOK, LinkEnds
  <2> QED BY <1>9, <2>1, <2>2, <2>3, <2>4
<1>10. ASSUME NEW x \in Node, Stop(x) PROVE RestOK'
  <2>1. link' \in [Node -> [Node -> {"none", "open", "stale"}]]
    BY <1>10 DEF RestOK, Stop
  <2>2. round' \in [Node -> Round]
    BY <1>10 DEF RestOK, Stop, Asleep, Round
  <2>3. learn' \in [Node -> [Node -> SUBSET Node]] /\ fresh' \in [Node -> [Node -> SUBSET Node]]
    BY <1>10 DEF RestOK, Stop, NoRows
  <2> QED BY <1>10, <2>1, <2>2, <2>3 DEF RestOK, Stop
<1>11. ASSUME NEW x \in Node, Restart(x) PROVE RestOK'
  BY <1>11, GossipAssumption DEF RestOK, Restart
<1>12. CASE Tick
  BY <1>12 DEF RestOK, Tick
<1>13. CASE UNCHANGED vars
  BY <1>13 DEF RestOK, vars
<1> QED BY <1>1, <1>2, <1>3, <1>4, <1>5, <1>6, <1>7, <1>8, <1>9, <1>10, <1>11,
           <1>12, <1>13 DEF Next, RoundStep, Merge

\* Every variable of Gossip keeps its type.
THEOREM GossipTypeCorrect == Spec => []TypeOK
<1>1. Init => TablesOK /\ RestOK
  BY InitTablesOK, InitRestOK
<1>2. TablesOK /\ RestOK /\ [Next]_vars => (TablesOK /\ RestOK)'
  BY StepTablesOK, StepRestOK
<1>3. TablesOK /\ RestOK => TypeOK
  BY DEF TablesOK, TableOK, RestOK, TypeOK
<1> QED BY <1>1, <1>2, <1>3, PTL DEF Spec
-----------------------------------------------------------------------------
\* No round has its own node on the list, whatever the table holds.
SelfNotPinged == \A n \in Node : n \notin round[n].todo

\* The list only shrinks once the snapshot has left the node out.
LEMMA StepSelfNotPinged ==
    ASSUME RestOK, SelfNotPinged, [Next]_vars PROVE SelfNotPinged'
<1> USE DEF SelfNotPinged
<1>1. ASSUME NEW n \in Node, RoundStarts(n) PROVE SelfNotPinged'
  BY <1>1 DEF RestOK, RoundStarts
<1>2. ASSUME NEW n \in Node, NEW x \in Node, PingSucceeds(n, x) \/ PingFails(n, x)
      PROVE  SelfNotPinged'
  <2>1. round' = [round EXCEPT ![n].todo = @ \ {x}]
    BY <1>2 DEF PingSucceeds, PingFails
  <2>2. round'[n].todo = round[n].todo \ {x}
    BY <2>1, PingedOK DEF RestOK
  <2>3. \A m \in Node \ {n} : round'[m] = round[m]
    BY <2>1 DEF RestOK
  <2> QED BY <2>2, <2>3
<1>3. ASSUME NEW n \in Node, NEW P \in SUBSET Node,
             round' = [round EXCEPT ![n] = AfterPeers(P)]
      PROVE  SelfNotPinged'
  BY <1>3, AfterPeersOK DEF RestOK
<1>4. ASSUME NEW n \in Node, CleanUp(n) PROVE SelfNotPinged'
  <2>1. PICK P \in SUBSET round[n].peers : round' = [round EXCEPT ![n] = AfterPeers(P)]
    BY <1>4 DEF CleanUp
  <2> QED BY <1>3, <2>1 DEF RestOK, Round
<1>5. ASSUME NEW n \in Node, NEW x \in Node, Exchange(n, x) PROVE SelfNotPinged'
  <2>1. round[n].peers \ {x} \in SUBSET Node
    BY DEF RestOK, Round
  <2> QED BY <1>3, <1>5, <2>1 DEF Exchange
<1>6. ASSUME NEW x \in Node, Stop(x) PROVE SelfNotPinged'
  BY <1>6 DEF RestOK, Stop, Asleep
<1>7. CASE UNCHANGED round
  BY <1>7
<1>8. ASSUME NEW n \in Node, NEW x \in Node,
             \/ Join(n, x)
             \/ \E i \in Node : MergeLooks(n, x, i)
             \/ \E i \in Node : MergeInserts(n, x, i)
             \/ HandlePong(n, x)
             \/ HandleNodeRemove(n, x)
             \/ HandleNodeLeaving(n, x)
             \/ LinkEnds(n, x)
      PROVE  UNCHANGED round
  BY <1>8 DEF Join, MergeLooks, MergeInserts, HandlePong,
              HandleNodeRemove, HandleNodeLeaving, LinkEnds
<1>9. ASSUME Tick \/ UNCHANGED vars \/ \E x \in Node : Restart(x) PROVE UNCHANGED round
  BY <1>9 DEF Tick, vars, Restart
<1> QED BY <1>1, <1>2, <1>4, <1>5, <1>6, <1>7, <1>8, <1>9 DEF Next, RoundStep, Merge

\* The row of n in its own table, if there is one, is online.
OwnOK(n, tab) == n \in DOMAIN tab => tab[n].status = "online"

\* What a node may do to its table without taking itself for offline: only a
\* missed ping of itself could do that.
LEMMA OwnRowKept ==
    ASSUME NEW n \in Node, NEW tab, OwnOK(n, tab), NEW x
    PROVE  /\ OwnOK(n, upsert_node(tab, x))
           /\ OwnOK(n, update_node_ping(tab, x, TRUE))
           /\ x # n => OwnOK(n, update_node_ping(tab, x, FALSE))
           /\ OwnOK(n, remove_node(tab, x))
           /\ OwnOK(n, cleanup_expired_nodes(tab))
<1>1. OwnOK(n, upsert_node(tab, x))
  BY SeenOK DEF OwnOK, upsert_node, Put
<1>2. OwnOK(n, update_node_ping(tab, x, TRUE))
  BY SeenOK DEF OwnOK, update_node_ping
<1>3. x # n => OwnOK(n, update_node_ping(tab, x, FALSE))
  BY DEF OwnOK, update_node_ping
<1>4. OwnOK(n, remove_node(tab, x)) /\ OwnOK(n, cleanup_expired_nodes(tab))
  BY DEF OwnOK, remove_node, cleanup_expired_nodes, Drop, DropAll
<1> QED BY <1>1, <1>2, <1>3, <1>4

\* Writing the table of n concerns no other node's own row.
LEMMA SetTableOwn ==
    ASSUME TablesOK, OwnRowOnline, NEW n \in Node, NEW tab, OwnOK(n, tab),
           SetTable(n, tab)
    PROVE  OwnRowOnline'
<1>1. table'[n] = tab /\ \A m \in Node \ {n} : table'[m] = table[m]
  BY DEF TablesOK, SetTable
<1>2. \A m \in Node : OwnOK(m, table'[m])
  BY <1>1 DEF OwnOK, OwnRowOnline
<1> QED BY <1>2 DEF OwnOK, OwnRowOnline

\* Every step keeps a node's own row online.
LEMMA StepOwnRow ==
    ASSUME TablesOK, SelfNotPinged, OwnRowOnline, [Next]_vars PROVE OwnRowOnline'
<1>0. \A n \in Node : OwnOK(n, table[n])
  BY DEF OwnOK, OwnRowOnline
<1>1. ASSUME NEW n \in Node, NEW b \in Node, Join(n, b) PROVE OwnRowOnline'
  BY <1>0, <1>1, OwnRowKept, SetTableOwn DEF Join
<1>2. ASSUME NEW n \in Node, NEW x \in Node, PingSucceeds(n, x) \/ HandlePong(n, x)
      PROVE  OwnRowOnline'
  BY <1>0, <1>2, OwnRowKept, SetTableOwn DEF PingSucceeds, HandlePong
<1>3. ASSUME NEW n \in Node, NEW x \in Node, PingFails(n, x) PROVE OwnRowOnline'
  <2>1. x # n
    BY <1>3 DEF PingFails, SelfNotPinged
  <2> QED BY <1>0, <1>3, <2>1, OwnRowKept, SetTableOwn DEF PingFails
<1>4. ASSUME NEW n \in Node, CleanUp(n) PROVE OwnRowOnline'
  BY <1>0, <1>4, OwnRowKept, SetTableOwn DEF CleanUp
<1>5. ASSUME NEW n \in Node, NEW s \in Node, NEW i \in Node, MergeInserts(n, s, i)
      PROVE  OwnRowOnline'
  BY <1>0, <1>5, OwnRowKept, SetTableOwn DEF MergeInserts
<1>6. ASSUME NEW n \in Node, NEW x \in Node,
             HandleNodeRemove(n, x) \/ HandleNodeLeaving(n, x)
      PROVE  OwnRowOnline'
  BY <1>0, <1>6, OwnRowKept, SetTableOwn DEF HandleNodeRemove, HandleNodeLeaving
<1>7. CASE Tick
  BY <1>7 DEF Tick, AgeNodes, OwnRowOnline
<1>8. CASE UNCHANGED table
  BY <1>8 DEF OwnRowOnline
<1>9. ASSUME NEW n \in Node, NEW x \in Node,
             \/ RoundStarts(n)
             \/ Exchange(n, x)
             \/ \E i \in Node : MergeLooks(n, x, i)
             \/ LinkEnds(n, x)
             \/ Stop(n)
             \/ Restart(n)
      PROVE  UNCHANGED table
  BY <1>9 DEF RoundStarts, Exchange, MergeLooks, LinkEnds, Stop, Restart
<1>10. CASE UNCHANGED vars
  BY <1>8, <1>10 DEF vars
<1> QED BY <1>1, <1>2, <1>3, <1>4, <1>5, <1>6, <1>7, <1>8, <1>9, <1>10
        DEF Next, RoundStep, Merge

\* No node ever takes itself for offline, so none deletes its own row by
\* cleanup_expired_nodes: gossip goes on telling others about it.
THEOREM OwnRowCorrect == Spec => []OwnRowOnline
<1> DEFINE IInv == TablesOK /\ RestOK /\ SelfNotPinged /\ OwnRowOnline
<1>1. Init => IInv
  <2>1. Init => SelfNotPinged /\ OwnRowOnline
    BY DEF Init, SelfNotPinged, OwnRowOnline, Asleep, Seen
  <2> QED BY <2>1, InitTablesOK, InitRestOK
<1>2. IInv /\ [Next]_vars => IInv'
  BY StepTablesOK, StepRestOK, StepSelfNotPinged, StepOwnRow
<1> QED BY <1>1, <1>2, PTL DEF Spec
-----------------------------------------------------------------------------
\* Of all that is done to a table, only upsert_node adds a key, its own.
LEMMA UpsertKeys ==
    ASSUME NEW tab, NEW i PROVE DOMAIN upsert_node(tab, i) = DOMAIN tab \cup {i}
  BY DEF upsert_node, Put

\* The result of a ping or a PONG that comes late finds no row and makes none.
LEMMA UpdateKeys ==
    ASSUME NEW tab, NEW i, NEW b PROVE DOMAIN update_node_ping(tab, i, b) = DOMAIN tab
  BY DEF update_node_ping

\* Deletions and the clock add no key.
LEMMA OtherKeys ==
    ASSUME NEW tab, NEW i
    PROVE  /\ DOMAIN remove_node(tab, i) \subseteq DOMAIN tab
           /\ DOMAIN cleanup_expired_nodes(tab) \subseteq DOMAIN tab
           /\ DOMAIN AgeNodes(tab) = DOMAIN tab
  BY DEF remove_node, cleanup_expired_nodes, AgeNodes, Drop, DropAll

\* No table has a row for x.
Unlisted(x) == \A n \in Node : x \notin DOMAIN table[n]

\* A table written without a row for x leaves x unlisted.
LEMMA SetTableUnlisted ==
    ASSUME TablesOK, NEW x, Unlisted(x), NEW n \in Node, NEW tab, SetTable(n, tab),
           x \notin DOMAIN tab
    PROVE  Unlisted(x)'
<1>1. table'[n] = tab /\ \A m \in Node \ {n} : table'[m] = table[m]
  BY DEF TablesOK, SetTable
<1> QED BY <1>1 DEF Unlisted

\* No step brings back a row for a node that nobody knows.
LEMMA StepUnlisted ==
    ASSUME TablesOK, [Next]_vars, NEW x \in Node, Forgotten(x)
    PROVE  Unlisted(x)'
<1>0. Unlisted(x)
  BY DEF Forgotten, Unlisted
<1>1. ASSUME NEW n \in Node, NEW b \in Node, Join(n, b) PROVE Unlisted(x)'
  <2>1. b # x
    BY <1>1 DEF Join, Forgotten
  <2>2. DOMAIN upsert_node(table[n], b) = DOMAIN table[n] \cup {b}
    BY UpsertKeys
  <2>3. x \notin DOMAIN upsert_node(table[n], b)
    BY <1>0, <2>1, <2>2 DEF Unlisted
  <2> QED BY <1>0, <1>1, <2>3, SetTableUnlisted DEF Join
<1>2. ASSUME NEW n \in Node, NEW y \in Node,
             PingSucceeds(n, y) \/ PingFails(n, y) \/ HandlePong(n, y)
      PROVE  Unlisted(x)'
  <2>1. PICK b \in BOOLEAN : SetTable(n, update_node_ping(table[n], y, b))
    BY <1>2 DEF PingSucceeds, PingFails, HandlePong
  <2>2. DOMAIN update_node_ping(table[n], y, b) = DOMAIN table[n]
    BY UpdateKeys
  <2>3. x \notin DOMAIN update_node_ping(table[n], y, b)
    BY <1>0, <2>2 DEF Unlisted
  <2> QED BY <1>0, <2>1, <2>3, SetTableUnlisted
<1>3. ASSUME NEW n \in Node, CleanUp(n) PROVE Unlisted(x)'
  <2>1. x \notin DOMAIN cleanup_expired_nodes(table[n])
    BY <1>0, OtherKeys DEF Unlisted
  <2> QED BY <1>0, <1>3, <2>1, SetTableUnlisted DEF CleanUp
<1>4. ASSUME NEW n \in Node, NEW s \in Node, NEW i \in Node, MergeInserts(n, s, i)
      PROVE  Unlisted(x)'
  <2>1. i # x
    BY <1>4 DEF MergeInserts, Forgotten
  <2>2. DOMAIN upsert_node(table[n], i) = DOMAIN table[n] \cup {i}
    BY UpsertKeys
  <2>3. x \notin DOMAIN upsert_node(table[n], i)
    BY <1>0, <2>1, <2>2 DEF Unlisted
  <2> QED BY <1>0, <1>4, <2>3, SetTableUnlisted DEF MergeInserts
<1>5. ASSUME NEW n \in Node, NEW y \in Node,
             HandleNodeRemove(n, y) \/ HandleNodeLeaving(n, y)
      PROVE  Unlisted(x)'
  <2>1. x \notin DOMAIN remove_node(table[n], y)
    BY <1>0, OtherKeys DEF Unlisted
  <2> QED BY <1>0, <1>5, <2>1, SetTableUnlisted DEF HandleNodeRemove, HandleNodeLeaving
<1>6. CASE Tick
  BY <1>0, <1>6, OtherKeys DEF Tick, Unlisted
<1>7. CASE UNCHANGED table
  BY <1>0, <1>7 DEF Unlisted
<1>8. ASSUME NEW n \in Node, NEW y \in Node,
             \/ RoundStarts(n)
             \/ Exchange(n, y)
             \/ \E i \in Node : MergeLooks(n, y, i)
             \/ LinkEnds(n, y)
             \/ Stop(n)
             \/ Restart(n)
      PROVE  UNCHANGED table
  BY <1>8 DEF RoundStarts, Exchange, MergeLooks, LinkEnds, Stop, Restart
<1>9. CASE UNCHANGED vars
  BY <1>7, <1>9 DEF vars
<1> QED BY <1>1, <1>2, <1>3, <1>4, <1>5, <1>6, <1>7, <1>8, <1>9
        DEF Next, RoundStep, Merge

\* No packet under way names x.
Untold(x) == \A n, s \in Node : x \notin learn[n][s] \cup fresh[n][s]

\* What nobody lists, nobody tells.
LEMMA StepUntold ==
    ASSUME RestOK, [Next]_vars, NEW x \in Node, Forgotten(x)
    PROVE  Untold(x)'
<1>0. Untold(x) /\ Unlisted(x)
  BY DEF Forgotten, Untold, Unlisted
<1>1. ASSUME NEW n \in Node, NEW y \in Node, Exchange(n, y) PROVE Untold(x)'
  BY <1>0, <1>1 DEF Exchange, RestOK, Untold, Unlisted
<1>2. ASSUME NEW n \in Node, NEW s \in Node, NEW i \in Node, MergeLooks(n, s, i)
      PROVE  Untold(x)'
  BY <1>0, <1>2 DEF MergeLooks, RestOK, Untold
<1>3. ASSUME NEW n \in Node, NEW s \in Node, NEW i \in Node, MergeInserts(n, s, i)
      PROVE  Untold(x)'
  <2>1. fresh' = [fresh EXCEPT ![n][s] = @ \ {i}] /\ learn' = learn
    BY <1>3 DEF MergeInserts
  <2> QED BY <1>0, <2>1 DEF RestOK, Untold
<1>4. ASSUME NEW y \in Node, Stop(y) PROVE Untold(x)'
  BY <1>0, <1>4 DEF Stop, NoRows, RestOK, Untold
<1>5. CASE UNCHANGED <<learn, fresh>>
  BY <1>0, <1>5 DEF Untold
<1>6. ASSUME NEW n \in Node, NEW y \in Node,
             \/ Join(n, y)
             \/ RoundStarts(n)
             \/ PingSucceeds(n, y)
             \/ PingFails(n, y)
             \/ CleanUp(n)
             \/ HandlePong(n, y)
             \/ HandleNodeRemove(n, y)
             \/ HandleNodeLeaving(n, y)
             \/ LinkEnds(n, y)
             \/ Restart(n)
      PROVE  UNCHANGED <<learn, fresh>>
  BY <1>6 DEF Join, RoundStarts, PingSucceeds, PingFails, CleanUp, HandlePong,
              HandleNodeRemove, HandleNodeLeaving, LinkEnds, Restart
<1>7. CASE Tick \/ UNCHANGED vars
  BY <1>5, <1>7 DEF Tick, vars
<1> QED BY <1>1, <1>2, <1>3, <1>4, <1>5, <1>6, <1>7 DEF Next, RoundStep, Merge

\* Joins are only ever used up.
LEMMA StepJoins ==
    ASSUME [Next]_vars PROVE joins' \subseteq joins
  BY DEF Next, RoundStep, Merge, vars, Join, RoundStarts, PingSucceeds, PingFails,
         CleanUp, Exchange, MergeLooks, MergeInserts, HandlePong,
         HandleNodeRemove, HandleNodeLeaving, LinkEnds, Stop, Restart, Tick

\* A node that no table, packet or pending join names is never listed again,
\* though rounds and PONGs that know it may still be under way.
THEOREM ForgottenCorrect == Spec => ForgottenStays
<1> DEFINE IInv == TablesOK /\ RestOK
<1>1. Init => IInv
  BY InitTablesOK, InitRestOK
<1>2. IInv /\ [Next]_vars => IInv'
  BY StepTablesOK, StepRestOK
<1>3. IInv /\ [Next]_vars => [\A x \in Node : Forgotten(x) => Forgotten(x)']_vars
  <2> SUFFICES ASSUME IInv, [Next]_vars, NEW x \in Node, Forgotten(x)
               PROVE  Forgotten(x)'
    OBVIOUS
  <2>1. Unlisted(x)' /\ Untold(x)' /\ joins' \subseteq joins
    BY StepUnlisted, StepUntold, StepJoins
  <2> QED BY <2>1 DEF Forgotten, Unlisted, Untold
<1> QED BY <1>1, <1>2, <1>3, PTL DEF Spec, ForgottenStays
=============================================================================
