----------------------------- MODULE CliProofs ------------------------------
(***************************************************************************)
(* Proofs about Cli, for any number of invocations, identities and         *)
(* addresses.                                                              *)
(*                                                                         *)
(* KeysKept needs which saves have begun: an identity that is on its way   *)
(* to the node table or to the network had its save begun, so a later save *)
(* counts as done over it; and a save under way finds the file empty or    *)
(* was overtaken.  OneNodePerIdentity needs who holds a port: a process    *)
(* that serves holds the one of its identity until its server is closed.   *)
(* NoticesLoss needs that a chat without a connection is past its loop or  *)
(* about to leave it.                                                      *)
(***************************************************************************)
EXTENDS Cli, TLAPS

\* What the operations on the table of ports return.
LEMMA PutPort ==
    ASSUME NEW f, IsTable(f, Addr, Proc), NEW a \in Addr, NEW p \in Proc
    PROVE  /\ IsTable(Put(f, a, p), Addr, Proc)
           /\ a \in DOMAIN Put(f, a, p) /\ Put(f, a, p)[a] = p
           /\ \A b \in DOMAIN f : b # a => b \in DOMAIN Put(f, a, p) /\ Put(f, a, p)[b] = f[b]
BY DEF IsTable, Put

LEMMA ClosedPort ==
    ASSUME IsTable(port, Addr, Proc), NEW p \in Proc
    PROVE  /\ IsTable(Closed(p), Addr, Proc)
           /\ \A b \in DOMAIN port :
                port[b] # p => b \in DOMAIN Closed(p) /\ Closed(p)[b] = port[b]
BY DEF IsTable, Closed, DropAll

-----------------------------------------------------------------------------
\* Where a process is about to save an identity of its own.
Saving(p) == pc[p] \in {"save", "write"}

\* Where it has one that is in the node's key file, or was.
Past(p) == pc[p] \in {"list", "bind", "dial", "serve", "stop"}

\* The identities that have left the save of their process.
Out(x) ==
    \/ file["node"] = x \/ file["cell"] = x
    \/ x \in listed
    \/ \E p \in Proc : Past(p) /\ id[p] = x

\* What is saved is new, and what is out was once saved.
Fresh ==
    /\ \A p \in Proc : Saving(p) => id[p] \in used /\ ~Out(id[p])
    /\ \A p, q \in Proc : Saving(p) /\ Saving(q) /\ id[p] = id[q] => p = q
    /\ \A p \in Proc : pc[p] = "save" => \A k \in {"node", "cell"} : id[p] \notin opened[k]
    /\ \A p \in Proc : pc[p] = "write" => id[p] \in opened[Kind(cmd[p])]
    /\ \A k \in {"node", "cell"} : opened[k] \subseteq used
    /\ \A k \in {"node", "cell"} : file[k] \in Key => file[k] \in opened[k]
    /\ \A p \in Proc : Past(p) => id[p] \in opened["node"]
    /\ listed \subseteq opened["node"]

\* The keys of an identity are where its save put them, or were overtaken.
Kept ==
    /\ \A p \in Proc :
         pc[p] = "write" => file[Kind(cmd[p])] = "empty" \/ id[p] \in replaced
    /\ \A p \in Proc : Past(p) => file["node"] = id[p] \/ id[p] \in replaced
    /\ \A x \in listed : file["node"] = x \/ x \in replaced

\* A process that serves listens on the address of its identity.
Listens ==
    \A p \in Proc :
        Serving(p) => At[id[p]] \in DOMAIN port /\ port[At[id[p]]] = p

\* A chat that took a line without a connection is about to leave its loop and
\* never gets a connection again.
Leaving ==
    \A p \in Proc :
        late[p] > 0 =>
            /\ late[p] = 1
            /\ p \notin link
            /\ pc[p] \in {"send", "leave", "leaveReading", "joinReader", "over"}

CliInv == TypeOK /\ Fresh /\ Kept /\ Listens /\ Leaving

LEMMA InitInv == Init => CliInv
<1> SUFFICES ASSUME Init PROVE CliInv
    OBVIOUS
<1>1. IsTable(port, Addr, Proc)
    BY DEF Init, IsTable, EmptyTable
<1>2. TypeOK
    BY <1>1 DEF Init, TypeOK
<1>3. Fresh /\ Kept
    BY CliAssumption DEF Init, Fresh, Kept, Saving, Past
<1>4. Listens
    BY DEF Init, Listens, Serving
<1>5. Leaving
    BY DEF Init, Leaving
<1> QED
    BY <1>2, <1>3, <1>4, <1>5 DEF CliInv

-----------------------------------------------------------------------------
\* Every step of a command keeps the types.
LEMMA StepTypeOK == CliInv /\ [Next]_vars => TypeOK'
<1> SUFFICES ASSUME CliInv, [Next]_vars PROVE TypeOK'
    OBVIOUS
<1> USE CliAssumption DEF CliInv, TypeOK, Goto
<1>1. ASSUME NEW p \in Proc, Enter(p) PROVE TypeOK'
  <2>1. \/ pc' = [pc EXCEPT ![p] = "load"] /\ id' = id /\ used' = used
        \/ /\ pc' = [pc EXCEPT ![p] = "save"]
           /\ \E x \in Key : id' = [id EXCEPT ![p] = x] /\ used' = used \cup {x}
      BY <1>1 DEF Enter
  <2>2. id' \in [Proc -> Key \cup {None}]
      BY <2>1
  <2>3. used' \subseteq Key
      BY <2>1
  <2>4. UNCHANGED <<cmd, file, opened, replaced, listed, port, signalled, link, late>>
      BY <1>1 DEF Enter, nodeVars, chatVars
  <2> QED
      BY <2>1, <2>2, <2>3, <2>4
<1>2. ASSUME NEW p \in Proc, SaveOpens(p) \/ SaveWrites(p) PROVE TypeOK'
  <2>1. id[p] \in Key /\ Kind(cmd[p]) \in {"node", "cell"}
      BY <1>2 DEF SaveOpens, SaveWrites, Fresh, Saving, Kind
  <2>2. replaced' \subseteq Key
      BY <1>2, <2>1 DEF SaveOpens, SaveWrites, Overtakes
  <2>3. file' \in [{"node", "cell"} -> Key \cup {None} \cup Torn]
      BY <1>2, <2>1 DEF SaveOpens, SaveWrites, Torn
  <2>4. opened' \in [{"node", "cell"} -> SUBSET Key]
      BY <1>2, <2>1 DEF SaveOpens, SaveWrites
  <2> QED
      BY <1>2, <2>2, <2>3, <2>4 DEF SaveOpens, SaveWrites, nodeVars, chatVars
<1>4. ASSUME NEW p \in Proc, Load(p) \/ LoadCell(p) PROVE TypeOK'
    BY <1>4 DEF Load, LoadCell, keyVars, nodeVars, chatVars
<1>5. ASSUME NEW p \in Proc, UpsertSelf(p) PROVE TypeOK'
  <2>1. id[p] \in Key
      BY <1>5 DEF UpsertSelf, Fresh, Past
  <2> QED
      BY <1>5, <2>1 DEF UpsertSelf, keyVars, chatVars
<1>6. ASSUME NEW p \in Proc, Start(p) PROVE TypeOK'
  <2>1. At[id[p]] \in Addr
      BY <1>6 DEF Start, Fresh, Past
  <2>2. IsTable(port', Addr, Proc)
      BY <1>6, <2>1, PutPort, ClosedPort DEF Start, Abandons, Ends
  <2> QED
      BY <1>6, <2>2 DEF Start, Abandons, Ends, keyVars, chatVars
<1>7. ASSUME NEW p \in Proc, Join(p) \/ Signal(p) \/ StopListening(p) \/ StopEnds(p) \/ Kill(p)
      PROVE  TypeOK'
  <2>1. IsTable(port', Addr, Proc)
      BY <1>7, ClosedPort DEF Join, Signal, StopListening, StopEnds, Kill, Abandons, Ends
  <2> QED
      BY <1>7, <2>1
         DEF Join, Signal, StopListening, StopEnds, Kill, Abandons, Ends, keyVars, chatVars
<1>8. ASSUME NEW p \in Proc, ChatConnects(p) \/ ConnectionLost(p) \/ Disconnect(p)
      PROVE  TypeOK'
    BY <1>8 DEF ChatConnects, ConnectionLost, Disconnect, keyVars, nodeVars
<1>9. ASSUME NEW p \in Proc, NEW line \in {"message", "quit", "other"}, TypeLine(p, line)
      PROVE  TypeOK'
    BY <1>9 DEF TypeLine, Looped, keyVars, nodeVars
<1>10. ASSUME NEW p \in Proc, SendLine(p) \/ Interrupt(p) \/ ReaderReturns(p)
       PROVE  TypeOK'
    BY <1>10 DEF SendLine, Interrupt, ReaderReturns, Looped, chatVars, keyVars, nodeVars
<1>11. CASE UNCHANGED vars
    BY <1>11 DEF vars, chatVars, keyVars, nodeVars
<1> QED
    BY <1>1, <1>2, <1>4, <1>5, <1>6, <1>7, <1>8, <1>9, <1>10, <1>11 DEF Next

\* The steps that change neither files nor the saves leave both parts alone when
\* no process comes to save or to be past its save.
LEMMA QuietStep ==
    ASSUME CliInv, NEW p \in Proc,
           cmd' = cmd, file' = file, used' = used, opened' = opened, replaced' = replaced,
           listed' = listed,
           \A q \in Proc : q # p => pc'[q] = pc[q] /\ id'[q] = id[q],
           ~Saving(p)',
           Past(p)' => Past(p) /\ id'[p] = id[p]
    PROVE  Fresh' /\ Kept'
<1>1. \A q \in Proc : Saving(q)' => q # p /\ Saving(q) /\ id'[q] = id[q] /\ pc'[q] = pc[q]
    BY DEF Saving
<1>2. \A q \in Proc : Past(q)' => Past(q) /\ id'[q] = id[q]
    BY DEF Past
<1>3. \A x : Out(x)' => Out(x)
    BY <1>2 DEF Out
<1>4. Fresh'
    BY <1>1, <1>2, <1>3 DEF CliInv, Fresh, Saving
<1>5. Kept'
    BY <1>1, <1>2 DEF CliInv, Kept, Saving
<1> QED
    BY <1>4, <1>5

\* No step saves an identity twice, or takes a known one out of the key file
\* without counting it as replaced.
LEMMA StepKept == CliInv /\ [Next]_vars => Fresh' /\ Kept'
<1> SUFFICES ASSUME CliInv, [Next]_vars PROVE Fresh' /\ Kept'
    OBVIOUS
<1> USE CliAssumption DEF CliInv, TypeOK, Goto
<1>1. ASSUME NEW p \in Proc, Enter(p) PROVE Fresh' /\ Kept'
  <2>1. CASE pc' = [pc EXCEPT ![p] = "load"] /\ id' = id /\ used' = used
      BY <1>1, <2>1, QuietStep DEF Enter, Saving, Past, nodeVars
  <2>2. CASE pc' = [pc EXCEPT ![p] = "save"]
    <3>1. PICK x \in Key \ used : id' = [id EXCEPT ![p] = x] /\ used' = used \cup {x}
        BY <1>1, <2>2 DEF Enter
    <3>2. UNCHANGED <<cmd, file, opened, replaced, listed>>
        BY <1>1 DEF Enter, nodeVars
    <3>3. \A q \in Proc : Past(q)' => q # p /\ Past(q) /\ id'[q] = id[q]
        BY <2>2, <3>1 DEF Past
    <3>4. \A y : Out(y)' => Out(y)
        BY <3>2, <3>3 DEF Out
    <3>5. \A k \in {"node", "cell"} : x \notin opened[k] /\ file[k] # x
        BY DEF Fresh
    <3>6. ~Out(x)
        BY <3>5 DEF Out, Fresh
    <3>7. id'[p] = x /\ pc'[p] = "save"
        BY <2>2, <3>1
    <3>8. \A q \in Proc : q # p => pc'[q] = pc[q] /\ id'[q] = id[q]
        BY <2>2, <3>1
    <3>9. \A q \in Proc : Saving(q) => id[q] # x
        BY DEF Fresh
    <3>10. Fresh'
        BY <3>1, <3>2, <3>3, <3>4, <3>5, <3>6, <3>7, <3>8, <3>9 DEF Fresh, Saving
    <3>11. Kept'
        BY <3>2, <3>3, <3>7, <3>8 DEF Kept
    <3> QED
        BY <3>10, <3>11
  <2> QED
      BY <1>1, <2>1, <2>2 DEF Enter
<1>2. ASSUME NEW p \in Proc, SaveOpens(p) \/ SaveWrites(p) PROVE Fresh' /\ Kept'
  <2> DEFINE k == Kind(cmd[p])
             x == id[p]
  <2>1. /\ k \in {"node", "cell"} /\ Saving(p) /\ x \in used /\ ~Out(x) /\ x \in Key
        /\ x \notin listed /\ file[k] # x
        /\ UNCHANGED <<cmd, id, used, listed>>
        /\ replaced' = replaced \cup (opened[k] \ {x})
        /\ \A q \in Proc : q # p => pc'[q] = pc[q]
      BY <1>2 DEF SaveOpens, SaveWrites, Overtakes, Saving, Fresh, Kind, Out, nodeVars
  <2>2. \A j \in {"node", "cell"} : j # k => file'[j] = file[j] /\ opened'[j] = opened[j]
      BY <1>2, <2>1 DEF SaveOpens, SaveWrites
  <2>3. \A q \in Proc : q # p /\ Saving(q) => id[q] # x
      BY <2>1 DEF Fresh
  <2>4. \A q \in Proc : Past(q) => id[q] # x
      BY <2>1 DEF Out
  <2>5. \A y \in Key : file["node"] = y /\ y \in opened["node"]
                      => file'["node"] = y \/ y \in replaced'
      BY <2>1, <2>2
  <2> HIDE DEF k, x
  <2>6. CASE SaveOpens(p)
    <3>1. /\ pc[p] = "save" /\ pc'[p] = "write" /\ file'[k] = "empty"
          /\ opened'[k] = opened[k] \cup {x}
        BY <2>1, <2>6 DEF SaveOpens, k, x
    <3>2. \A q \in Proc : Past(q)' <=> Past(q)
        BY <2>1, <3>1 DEF Past
    <3>3. \A q \in Proc : Saving(q)' <=> Saving(q)
        BY <2>1, <3>1 DEF Saving
    <3>4. "empty" \notin Key
        BY DEF Torn
    <3>5. \A y \in Key : Out(y)' => Out(y)
        BY <2>1, <2>2, <3>1, <3>2, <3>4 DEF Out
    <3>6. Fresh'
      <4>1. \A q \in Proc : Saving(q)' => id'[q] \in used' /\ ~Out(id[q])'
        <5>1. \A q \in Proc : Saving(q) => id[q] \in Key
            BY DEF Fresh
        <5> QED
            BY <2>1, <3>3, <3>5, <5>1 DEF Fresh
      <4>2. \A q, r \in Proc : Saving(q)' /\ Saving(r)' /\ id'[q] = id'[r] => q = r
          BY <2>1, <3>3 DEF Fresh
      <4>3. \A q \in Proc : pc'[q] = "save" => \A j \in {"node", "cell"} : id'[q] \notin opened'[j]
          BY <2>1, <2>2, <2>3, <3>1 DEF Fresh, Saving
      <4>4. \A q \in Proc : pc'[q] = "write" => id'[q] \in opened'[Kind(cmd'[q])]
        <5>1. \A j \in {"node", "cell"} : opened[j] \subseteq opened'[j]
            BY <2>1, <2>2, <3>1
        <5> QED
            BY <2>1, <3>1, <5>1 DEF Fresh, Kind, k, x
      <4>5. \A j \in {"node", "cell"} : opened'[j] \subseteq used'
          BY <2>1, <2>2, <3>1 DEF Fresh
      <4>6. \A j \in {"node", "cell"} : file'[j] \in Key => file'[j] \in opened'[j]
          BY <2>1, <2>2, <3>1, <3>4 DEF Fresh
      <4>7. /\ \A q \in Proc : Past(q)' => id'[q] \in opened'["node"]
            /\ listed' \subseteq opened'["node"]
          BY <2>1, <2>2, <3>1, <3>2 DEF Fresh
      <4> QED
          BY <4>1, <4>2, <4>3, <4>4, <4>5, <4>6, <4>7 DEF Fresh
    <3>7. Kept'
      <4>1. \A q \in Proc : pc'[q] = "write"
                               => file'[Kind(cmd'[q])] = "empty" \/ id'[q] \in replaced'
          BY <2>1, <2>2, <3>1 DEF Kept, Kind, k
      <4>2. \A q \in Proc : Past(q)' => file'["node"] = id'[q] \/ id'[q] \in replaced'
          BY <2>1, <2>5, <3>2 DEF Kept, Fresh
      <4>3. \A y \in listed' : file'["node"] = y \/ y \in replaced'
          BY <2>1, <2>5 DEF Kept, Fresh
      <4> QED
          BY <4>1, <4>2, <4>3 DEF Kept
    <3> QED
        BY <3>6, <3>7
  <2>7. CASE SaveWrites(p)
    <3>1. /\ pc[p] = "write" /\ pc'[p] \in {"list", "over"} /\ opened' = opened
          /\ pc'[p] = "list" => k = "node"
          /\ \/ file'[k] = x
             \/ file[k] # "empty" /\ file'[k] = "mixed"
        BY <2>1, <2>7 DEF SaveWrites, Kind, k, x
    <3>2. x \in opened[k] /\ (file[k] = "empty" \/ x \in replaced)
        BY <3>1 DEF Fresh, Kept, k, x
    <3>3. \A q \in Proc : q # p => (Past(q)' <=> Past(q))
        BY <2>1 DEF Past
    <3>4. \A q \in Proc : Saving(q)' => q # p /\ Saving(q)
        BY <2>1, <3>1 DEF Saving
    <3>5. "mixed" \notin Key
        BY DEF Torn
    <3>6. Past(p)' => pc'[p] = "list" /\ k = "node"
        BY <3>1 DEF Past
    <3>7. \A y \in Key : Out(y)' => Out(y) \/ y = x
      <4>1. \A q \in Proc : Past(q)' => Past(q) \/ id'[q] = x
          BY <2>1, <3>3 DEF x
      <4> QED
          BY <2>1, <2>2, <3>1, <3>5, <4>1 DEF Out
    <3>8. Fresh'
      <4>1. \A q \in Proc : Saving(q)' => id'[q] \in used' /\ ~Out(id[q])'
        <5>1. \A q \in Proc : Saving(q) => id[q] \in Key
            BY DEF Fresh
        <5> QED
            BY <2>1, <2>3, <3>4, <3>7, <5>1 DEF Fresh
      <4>2. \A q, r \in Proc : Saving(q)' /\ Saving(r)' /\ id'[q] = id'[r] => q = r
          BY <2>1, <3>4 DEF Fresh
      <4>3. \A q \in Proc : pc'[q] = "save" => \A j \in {"node", "cell"} : id'[q] \notin opened'[j]
          BY <2>1, <3>1 DEF Fresh
      <4>4. \A q \in Proc : pc'[q] = "write" => id'[q] \in opened'[Kind(cmd'[q])]
          BY <2>1, <3>1 DEF Fresh
      <4>5. \A j \in {"node", "cell"} : opened'[j] \subseteq used'
          BY <2>1, <3>1 DEF Fresh
      <4>6. \A j \in {"node", "cell"} : file'[j] \in Key => file'[j] \in opened'[j]
          BY <2>1, <2>2, <3>1, <3>2, <3>5 DEF Fresh
      <4>7. \A q \in Proc : Past(q)' => id'[q] \in opened'["node"]
          BY <2>1, <3>1, <3>2, <3>3, <3>6 DEF Fresh, x
      <4>8. listed' \subseteq opened'["node"]
          BY <2>1, <3>1 DEF Fresh
      <4> QED
          BY <4>1, <4>2, <4>3, <4>4, <4>5, <4>6, <4>7, <4>8 DEF Fresh
    <3>9. Kept'
      <4>1. \A q \in Proc : pc'[q] = "write"
                               => file'[Kind(cmd'[q])] = "empty" \/ id'[q] \in replaced'
        <5> SUFFICES ASSUME NEW q \in Proc, pc'[q] = "write"
                     PROVE  file'[Kind(cmd[q])] = "empty" \/ id[q] \in replaced'
            BY <2>1
        <5>1. q # p /\ pc[q] = "write" /\ Saving(q) /\ id[q] # x
            BY <2>1, <2>3, <3>1 DEF Saving
        <5>2. id[q] \in opened[Kind(cmd[q])] /\ Kind(cmd[q]) \in {"node", "cell"}
            BY <5>1 DEF Fresh, Kind
        <5>3. CASE Kind(cmd[q]) = k
            BY <2>1, <5>1, <5>2, <5>3
        <5>4. CASE Kind(cmd[q]) # k
            BY <2>1, <2>2, <5>1, <5>2, <5>4 DEF Kept
        <5> QED
            BY <5>3, <5>4
      <4>2. \A q \in Proc : Past(q)' => file'["node"] = id'[q] \/ id'[q] \in replaced'
        <5>1. ASSUME NEW q \in Proc, q # p, Past(q)
              PROVE  file'["node"] = id[q] \/ id[q] \in replaced'
            BY <2>1, <2>5, <5>1 DEF Kept, Fresh
        <5>2. Past(p)' => file'["node"] = x \/ x \in replaced'
            BY <2>1, <3>1, <3>2, <3>6
        <5> QED
            BY <2>1, <3>3, <5>1, <5>2 DEF x
      <4>3. \A y \in listed' : file'["node"] = y \/ y \in replaced'
          BY <2>1, <2>5 DEF Kept, Fresh
      <4> QED
          BY <4>1, <4>2, <4>3 DEF Kept
    <3> QED
        BY <3>8, <3>9
  <2> QED
      BY <1>2, <2>6, <2>7
<1>4. ASSUME NEW p \in Proc, Load(p) PROVE Fresh' /\ Kept'
  <2>1. CASE pc' = [pc EXCEPT ![p] = "over"] /\ id' = id
      BY <1>4, <2>1, QuietStep DEF Load, Saving, Past, keyVars, nodeVars
  <2>2. CASE file["node"] \in Key /\ pc' = [pc EXCEPT ![p] = "bind"]
    <3>1. /\ id'[p] = file["node"] /\ pc'[p] = "bind"
          /\ UNCHANGED <<cmd, file, used, opened, replaced, listed>>
          /\ \A q \in Proc : q # p => pc'[q] = pc[q] /\ id'[q] = id[q]
        BY <1>4, <2>2 DEF Load, keyVars, nodeVars
    <3>2. \A q \in Proc : Saving(q)' => q # p /\ Saving(q) /\ id'[q] = id[q]
        BY <3>1 DEF Saving
    <3>3. \A q \in Proc : Past(q)' => id'[q] = file["node"] \/ (Past(q) /\ id'[q] = id[q])
        BY <3>1 DEF Past
    <3>4. \A y : Out(y)' => Out(y)
        BY <3>1, <3>3 DEF Out
    <3>5. Fresh'
        BY <2>2, <3>1, <3>2, <3>3, <3>4 DEF Fresh
    <3>6. Kept'
        BY <3>1, <3>3 DEF Kept
    <3> QED
        BY <3>5, <3>6
  <2> QED
      BY <1>4, <2>1, <2>2 DEF Load
<1>5. ASSUME NEW p \in Proc, UpsertSelf(p) PROVE Fresh' /\ Kept'
  <2>1. /\ Past(p) /\ listed' = listed \cup {id[p]}
        /\ UNCHANGED <<cmd, id, file, used, opened, replaced>>
        /\ pc'[p] = "bind" /\ \A q \in Proc : q # p => pc'[q] = pc[q]
      BY <1>5 DEF UpsertSelf, Past, keyVars
  <2>2. \A q \in Proc : Past(q)' <=> Past(q)
      BY <2>1 DEF Past
  <2>3. \A q \in Proc : Saving(q)' => q # p /\ Saving(q)
      BY <2>1 DEF Saving
  <2>4. \A y : Out(y)' => Out(y)
      BY <2>1, <2>2 DEF Out
  <2>5. Fresh'
      BY <2>1, <2>2, <2>3, <2>4 DEF Fresh
  <2>6. Kept'
      BY <2>1, <2>2 DEF Kept
  <2> QED
      BY <2>5, <2>6
<1>6. ASSUME NEW p \in Proc,
             \/ Start(p) \/ Join(p) \/ Signal(p) \/ StopListening(p) \/ StopEnds(p) \/ Kill(p)
      PROVE  Fresh' /\ Kept'
    BY <1>6, QuietStep
       DEF Start, Join, Signal, StopListening, StopEnds, Kill, Abandons, Ends, Saving, Past,
           keyVars
<1>7. ASSUME NEW p \in Proc,
             \/ LoadCell(p) \/ ChatConnects(p) \/ SendLine(p) \/ Interrupt(p)
             \/ Disconnect(p) \/ ReaderReturns(p)
             \/ \E line \in {"message", "quit", "other"} : TypeLine(p, line)
      PROVE  Fresh' /\ Kept'
    BY <1>7, QuietStep
       DEF LoadCell, ChatConnects, SendLine, Interrupt, Disconnect, ReaderReturns, TypeLine,
           Looped, Saving, Past, keyVars, nodeVars
<1>8. CASE UNCHANGED <<pc, cmd, id, file, used, opened, replaced, listed>>
    BY <1>8 DEF Fresh, Kept, Saving, Past, Out
<1> QED
    BY <1>1, <1>2, <1>4, <1>5, <1>6, <1>7, <1>8
       DEF Next, ConnectionLost, vars, keyVars, nodeVars

\* No step takes a port from the process that serves on it, and a process comes
\* to serve only on a port that nobody has.
LEMMA StepListens == CliInv /\ [Next]_vars => Listens'
<1> SUFFICES ASSUME CliInv, [Next]_vars PROVE Listens'
    OBVIOUS
<1> USE DEF CliInv, TypeOK, Listens, Serving, Goto
<1>1. ASSUME NEW p \in Proc, Start(p) PROVE Listens'
  <2>1. At[id[p]] \in Addr
      BY <1>1, CliAssumption DEF Start, Fresh, Past
  <2>2. CASE At[id[p]] \in DOMAIN port
    <3>1. /\ id' = id /\ ~Serving(p)'
          /\ \A q \in Proc : q # p => pc'[q] = pc[q]
          /\ port' \in {port, Closed(p)}
        BY <1>1, <2>2 DEF Start, Abandons, Ends
    <3> QED
        BY <3>1, ClosedPort
  <2>3. CASE At[id[p]] \notin DOMAIN port
    <3>1. port' = Put(port, At[id[p]], p) /\ id' = id
        BY <1>1, <2>3 DEF Start
    <3>2. ASSUME NEW q \in Proc, Serving(q)', q # p
          PROVE  /\ At[id[q]] \in DOMAIN port /\ port[At[id[q]]] = q
                 /\ At[id[q]] # At[id[p]]
      <4>1. pc'[q] = pc[q]
          BY <1>1, <2>3, <3>2 DEF Start
      <4> QED
          BY <2>3, <3>2, <4>1
    <3>3. /\ At[id[p]] \in DOMAIN port' /\ port'[At[id[p]]] = p
          /\ \A b \in DOMAIN port : b # At[id[p]] => b \in DOMAIN port' /\ port'[b] = port[b]
        BY <2>1, <3>1, PutPort
    <3> QED
        BY <3>1, <3>2, <3>3
  <2> QED
      BY <2>2, <2>3
<1>2. ASSUME NEW p \in Proc, id' = id,
             \A q \in Proc : q # p => pc'[q] = pc[q],
             Serving(p)' => Serving(p) /\ port' = port,
             port' \in {port, Closed(p)}
      PROVE  Listens'
    BY <1>2, ClosedPort
<1>3. ASSUME NEW p \in Proc,
             Join(p) \/ Signal(p) \/ StopListening(p) \/ StopEnds(p) \/ Kill(p)
      PROVE  Listens'
    BY <1>2, <1>3 DEF Join, Signal, StopListening, StopEnds, Kill, Abandons, Ends
<1>4. ASSUME NEW p \in Proc, port' = port,
             \A q \in Proc : q # p => pc'[q] = pc[q] /\ id'[q] = id[q],
             ~Serving(p)'
      PROVE  Listens'
    BY <1>4
<1>5. ASSUME NEW p \in Proc,
             Enter(p) \/ SaveOpens(p) \/ SaveWrites(p) \/ Load(p) \/ LoadCell(p)
      PROVE  Listens'
  <2>1. CASE Enter(p)
      BY <1>4, <2>1 DEF Enter, nodeVars
  <2>2. CASE SaveOpens(p) \/ SaveWrites(p)
      BY <1>4, <2>2 DEF SaveOpens, SaveWrites, nodeVars
  <2>3. CASE Load(p)
      BY <1>4, <2>3 DEF Load, nodeVars
  <2>4. CASE LoadCell(p)
      BY <1>4, <2>4 DEF LoadCell, nodeVars
  <2> QED
      BY <1>5, <2>1, <2>2, <2>3, <2>4
<1>6. ASSUME NEW p \in Proc, UpsertSelf(p) PROVE Listens'
    BY <1>4, <1>6 DEF UpsertSelf
<1>7. ASSUME NEW p \in Proc,
             \/ ChatConnects(p) \/ SendLine(p) \/ Interrupt(p) \/ Disconnect(p)
             \/ ReaderReturns(p)
             \/ \E line \in {"message", "quit", "other"} : TypeLine(p, line)
      PROVE  Listens'
    BY <1>4, <1>7
       DEF ChatConnects, SendLine, Interrupt, Disconnect, ReaderReturns, TypeLine, Looped,
           nodeVars
<1>8. CASE UNCHANGED <<pc, id, port>>
    BY <1>8
<1> QED
    BY <1>1, <1>3, <1>5, <1>6, <1>7, <1>8
       DEF Next, ConnectionLost, vars, nodeVars

\* No step gives a chat that lost its connection another one or another turn
\* of its loop.
LEMMA StepLeaving == CliInv /\ [Next]_vars => Leaving'
<1> SUFFICES ASSUME CliInv, [Next]_vars PROVE Leaving'
    OBVIOUS
<1> USE DEF CliInv, TypeOK, Leaving, Goto
<1>1. ASSUME NEW p \in Proc, ChatConnects(p) \/ ConnectionLost(p) \/ Disconnect(p)
      PROVE  Leaving'
    BY <1>1 DEF ChatConnects, ConnectionLost, Disconnect
<1>2. ASSUME NEW p \in Proc, NEW line \in {"message", "quit", "other"}, TypeLine(p, line)
      PROVE  Leaving'
    BY <1>2 DEF TypeLine, Looped
<1>3. ASSUME NEW p \in Proc, SendLine(p) \/ Interrupt(p) \/ ReaderReturns(p)
      PROVE  Leaving'
    BY <1>3 DEF SendLine, Interrupt, ReaderReturns, Looped, chatVars
<1>4. ASSUME NEW p \in Proc,
             \/ Enter(p) \/ SaveOpens(p) \/ SaveWrites(p) \/ Load(p) \/ LoadCell(p)
             \/ UpsertSelf(p) \/ Start(p) \/ Join(p) \/ Signal(p) \/ StopListening(p)
             \/ StopEnds(p) \/ Kill(p)
      PROVE  Leaving'
    BY <1>4
       DEF Enter, SaveOpens, SaveWrites, Load, LoadCell, UpsertSelf, Start, Join, Signal,
           StopListening, StopEnds, Kill, Abandons, Ends, chatVars
<1>5. CASE UNCHANGED vars
    BY <1>5 DEF vars, chatVars
<1> QED
    BY <1>1, <1>2, <1>3, <1>4, <1>5 DEF Next

-----------------------------------------------------------------------------
\* The invariant holds in every state of every run of the commands.
LEMMA Invariance == Spec => []CliInv
<1>1. CliInv /\ [Next]_vars => CliInv'
    BY StepTypeOK, StepKept, StepListens, StepLeaving DEF CliInv
<1> QED
    BY <1>1, InitInv, PTL DEF Spec

\* TypeOK is an invariant of the commands.
THEOREM CliTypeCorrect == Spec => []TypeOK
<1>1. CliInv => TypeOK
    BY DEF CliInv
<1> QED
    BY <1>1, Invariance, PTL

\* Wherever commands are killed or fail, a node that is in the node table or on
\* the network has its keys in the key file, unless identity.save was done over
\* its own save.
THEOREM KeysKeptCorrect == Spec => []KeysKept
<1>1. CliInv => KeysKept
    BY DEF CliInv, Kept, Past, Serving, Known, KeysKept
<1> QED
    BY <1>1, Invariance, PTL

\* However commands overlap, fail, are stopped and overwrite the key file, no two
\* processes serve under the same identity.
THEOREM OneNodeCorrect == Spec => []OneNodePerIdentity
<1>1. CliInv => OneNodePerIdentity
    BY DEF CliInv, Listens, OneNodePerIdentity
<1> QED
    BY <1>1, Invariance, PTL

\* The loop of cell connect takes at most one line after its connection is gone.
THEOREM NoticesLossCorrect == Spec => []NoticesLoss
<1>1. CliInv => NoticesLoss
    BY DEF CliInv, TypeOK, Leaving, NoticesLoss
<1> QED
    BY <1>1, Invariance, PTL
=============================================================================
