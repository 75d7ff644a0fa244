--------------------------- MODULE TransportProofs ---------------------------
(***************************************************************************)
(* Proofs about Transport, for any sets of connections and of peers.       *)
(*                                                                         *)
(* Both safety invariants are inductive together with the type invariant:  *)
(* a removal takes an entry and never changes one, so it cannot strand an  *)
(* entry (RegistrySound), and it can take the entry of an open connection  *)
(* only when that peer has had two of them or a NODE_LEAVING named it      *)
(* (SoleConnectionRegistered).  What stop leaves open rests on the latter: *)
(* its list is the registry, and nothing later takes a connection off the  *)
(* list but its closing.                                                   *)
(***************************************************************************)
EXTENDS Transport, TLAPS

\* What Put and Drop, the operations on ConnectionRegistry._conns, return.
LEMMA PutIsTable ==
    ASSUME NEW K, NEW V, NEW f, IsTable(f, K, V), NEW x \in K, NEW v \in V
    PROVE  IsTable(Put(f, x, v), K, V)
BY DEF IsTable, Put

LEMMA DropIsTable ==
    ASSUME NEW K, NEW V, NEW f, IsTable(f, K, V), NEW x
    PROVE  IsTable(Drop(f, x), K, V)
BY DEF IsTable, Drop

LEMMA EmptyIsTable ==
    ASSUME NEW K, NEW V
    PROVE  /\ IsTable(EmptyTable, K, V)
           /\ DOMAIN EmptyTable = {}
BY DEF IsTable, EmptyTable

-----------------------------------------------------------------------------
\* The initial state and every step of the node's transport keep the types.
LEMMA InitTypeOK == TransportInit => TransportTypeOK
BY EmptyIsTable DEF TransportInit, TransportTypeOK

LEMMA StepTypeOK ==
    TransportTypeOK /\ [TransportNext]_transportVars => TransportTypeOK'
<1> SUFFICES ASSUME TransportTypeOK, [TransportNext]_transportVars
             PROVE  TransportTypeOK'
    OBVIOUS
<1> USE DEF TransportTypeOK, stopVars
<1>1. ASSUME NEW k \in Conn, Accept(k) PROVE TransportTypeOK'
    BY <1>1, PutIsTable DEF Accept, Register
<1>2. ASSUME NEW k \in Conn, Dial(k) PROVE TransportTypeOK'
    BY <1>2, PutIsTable DEF Dial, Register
<1>3. ASSUME NEW k \in Conn, WsCloses(k) PROVE TransportTypeOK'
    BY <1>3 DEF WsCloses
<1>4. ASSUME NEW k \in Conn, LoopEnds(k) PROVE TransportTypeOK'
    BY <1>4, DropIsTable DEF LoopEnds, LoopLeaves
<1>5. ASSUME NEW k \in Conn, UnpackFails(k) PROVE TransportTypeOK'
  <2>1. wsN' \in [Conn -> BOOLEAN]
      BY <1>5 DEF UnpackFails
  <2> QED
      BY <1>5, <2>1, DropIsTable DEF UnpackFails, LoopLeaves
<1>6. ASSUME NEW k \in Conn, SendFails(k) PROVE TransportTypeOK'
    BY <1>6, DropIsTable DEF SendFails
<1>7. ASSUME NEW k \in Conn, NEW p \in Peer, PeerLeaves(k, p) PROVE TransportTypeOK'
    BY <1>7, DropIsTable DEF PeerLeaves
<1>8. CASE ServerCloses
    BY <1>8 DEF ServerCloses
<1>9. CASE StopCollects \/ StopReturns
    BY <1>9 DEF StopCollects, StopReturns, IsTable
<1>12. ASSUME NEW k \in Conn, StopCloses(k) PROVE TransportTypeOK'
    BY <1>12 DEF StopCloses
<1>10. CASE Die
    BY <1>10, EmptyIsTable DEF Die
<1>11. CASE UNCHANGED transportVars
    BY <1>11 DEF transportVars
<1> QED
    BY <1>1, <1>2, <1>3, <1>4, <1>5, <1>6, <1>7, <1>8, <1>9, <1>10, <1>11, <1>12
       DEF TransportNext

\* TransportTypeOK is an invariant of the transport.
THEOREM TransportTypeCorrect == TransportSpec => []TransportTypeOK
BY InitTypeOK, StepTypeOK, PTL DEF TransportSpec

-----------------------------------------------------------------------------
\* No step of the transport leaves an entry behind that names a connection of
\* another peer or a connection whose receive loop is over.
LEMMA StepRegistrySound ==
    TransportTypeOK /\ RegistrySound /\ [TransportNext]_transportVars
        => RegistrySound'
<1> SUFFICES ASSUME TransportTypeOK, RegistrySound, [TransportNext]_transportVars
             PROVE  RegistrySound'
    OBVIOUS
<1> USE DEF TransportTypeOK, RegistrySound, IsTable
<1>1. ASSUME NEW k \in Conn, Register(k), UNCHANGED peer PROVE RegistrySound'
    BY <1>1 DEF Register, Put
<1>2. ASSUME NEW k \in Conn, LoopLeaves(k), UNCHANGED peer PROVE RegistrySound'
    BY <1>2 DEF LoopLeaves, Drop
<1>3. ASSUME NEW k \in Conn, NEW p \in Peer, SendFails(k) \/ PeerLeaves(k, p)
      PROVE  RegistrySound'
    BY <1>3 DEF SendFails, PeerLeaves, Drop
<1>4. CASE UNCHANGED <<registry, peer, loop>>
    BY <1>4
<1>5. CASE Die
    BY <1>5, EmptyIsTable DEF Die
<1> QED
    BY <1>1, <1>2, <1>3, <1>4, <1>5
       DEF TransportNext, transportVars, Accept, Dial, WsCloses, LoopEnds,
           UnpackFails, ServerCloses, StopCollects, StopCloses, StopReturns

\* connections.get never returns a connection of another peer, nor one whose
\* _recv_loop has ended.
THEOREM RegistryCorrect == TransportSpec => []RegistrySound
<1>1. TransportInit => RegistrySound
    BY EmptyIsTable DEF TransportInit, RegistrySound
<1> QED
    BY <1>1, StepRegistrySound, TransportTypeCorrect, PTL DEF TransportSpec

-----------------------------------------------------------------------------
\* No step of the transport takes the entry of an open connection that is the
\* only one its peer ever made.
LEMMA StepSoleRegistered ==
    TransportTypeOK /\ SoleConnectionRegistered /\ [TransportNext]_transportVars
        => SoleConnectionRegistered'
<1> SUFFICES ASSUME TransportTypeOK, SoleConnectionRegistered,
                    [TransportNext]_transportVars,
                    NEW k \in Conn,
                    loop'[k] = "live", wsN'[k], ~Contested(k)'
             PROVE  peer'[k] \in DOMAIN registry' /\ registry'[peer'[k]] = k
    BY DEF SoleConnectionRegistered
<1> DEFINE Filed == peer[k] \in DOMAIN registry /\ registry[peer[k]] = k
<1> USE DEF TransportTypeOK, Contested, Used
<1>1. ASSUME NEW j \in Conn, Register(j), UNCHANGED <<peer, left>>
      PROVE  Filed'
  <2>1. CASE j = k
      BY <1>1, <2>1 DEF Register, Put
  <2>2. CASE j # k
    <3>1. peer[j] # peer[k]
        BY <1>1, <2>2 DEF Register
    <3>2. Filed
        BY <1>1, <2>2 DEF Register, SoleConnectionRegistered
    <3> QED
        BY <1>1, <3>1, <3>2 DEF Register, Put
  <2> QED
      BY <2>1, <2>2
<1>2. ASSUME NEW j \in Conn, LoopLeaves(j), UNCHANGED <<peer, left>>,
             wsN'[k] => wsN[k]
      PROVE  Filed'
  <2>1. j # k /\ peer[j] # peer[k]
      BY <1>2 DEF LoopLeaves
  <2>2. Filed
      BY <1>2, <2>1 DEF LoopLeaves, SoleConnectionRegistered
  <2> QED
      BY <1>2, <2>1, <2>2 DEF LoopLeaves, Drop
<1>3. ASSUME NEW j \in Conn, SendFails(j)
      PROVE  Filed'
  <2>1. peer[j] # peer[k]
      BY <1>3 DEF SendFails
  <2>2. Filed
      BY <1>3 DEF SendFails, SoleConnectionRegistered
  <2> QED
      BY <1>3, <2>1, <2>2 DEF SendFails, Drop
<1>6. ASSUME NEW j \in Conn, NEW p \in Peer, PeerLeaves(j, p)
      PROVE  Filed'
  <2>1. p # peer[k]
      BY <1>6 DEF PeerLeaves
  <2>2. Filed
      BY <1>6 DEF PeerLeaves, SoleConnectionRegistered
  <2> QED
      BY <1>6, <2>1, <2>2 DEF PeerLeaves, Drop
<1>4. ASSUME UNCHANGED <<registry, peer, loop, left>>, wsN'[k] => wsN[k]
      PROVE  Filed'
    BY <1>4 DEF SoleConnectionRegistered
<1>5. CASE Die
    BY <1>5 DEF Die
<1> QED
    BY <1>1, <1>2, <1>3, <1>4, <1>5, <1>6
       DEF TransportNext, transportVars, Accept, Dial, WsCloses, LoopEnds,
           UnpackFails, ServerCloses, StopCollects, StopCloses, StopReturns,
           LoopLeaves

\* A peer with a single connection, open and read, which no NODE_LEAVING
\* named, is found in the registry.
THEOREM SoleConnectionCorrect == TransportSpec => []SoleConnectionRegistered
<1>1. TransportInit => SoleConnectionRegistered
    BY DEF TransportInit, SoleConnectionRegistered
<1> QED
    BY <1>1, StepSoleRegistered, TransportTypeCorrect, PTL DEF TransportSpec

-----------------------------------------------------------------------------
\* An id that names no connection yet has no open WebSocket.
OpenIsUsed == \A k \in Conn : wsN[k] => Used(k)

\* A WebSocket is open only from its registration on.
LEMMA OnlyUsedOpen == TransportSpec => []OpenIsUsed
<1>1. TransportInit => OpenIsUsed
    BY DEF TransportInit, OpenIsUsed
<1>2. TransportTypeOK /\ OpenIsUsed /\ [TransportNext]_transportVars => OpenIsUsed'
    BY DEF OpenIsUsed, Used, TransportTypeOK, TransportNext, transportVars,
           Accept, Dial, Register, WsCloses, LoopEnds, UnpackFails, LoopLeaves,
           SendFails, PeerLeaves, ServerCloses, StopCollects, StopCloses,
           StopReturns, Die
<1> QED
    BY <1>1, <1>2, TransportTypeCorrect, PTL DEF TransportSpec

\* No step after all() makes an open connection that stop's list lacks, other
\* than a late one or one that lost its entry or its loop.
LEMMA StepStopCloses ==
    TransportTypeOK /\ OpenIsUsed /\ SoleConnectionRegistered
        /\ StopClosesRegistered /\ [TransportNext]_transportVars
        => StopClosesRegistered'
<1> SUFFICES ASSUME TransportTypeOK, OpenIsUsed, SoleConnectionRegistered,
                    StopClosesRegistered, [TransportNext]_transportVars,
                    server' \in {"ending", "closed"}, NEW k \in Conn, wsN'[k]
             PROVE  \/ k \in closing' \/ loop'[k] = "done"
                    \/ Contested(k)' \/ k \in late'
    BY DEF StopClosesRegistered
<1> DEFINE Excused == k \in closing \/ loop[k] = "done" \/ Contested(k) \/ k \in late
<1>1. CASE StopCollects
  <2>1. loop[k] # "live" \/ Contested(k) \/ \E p \in DOMAIN registry : registry[p] = k
      BY <1>1 DEF StopCollects, SoleConnectionRegistered
  <2>2. loop[k] # "free"
      BY <1>1 DEF StopCollects, OpenIsUsed, Used
  <2> QED
      BY <1>1, <2>1, <2>2 DEF StopCollects, TransportTypeOK, Contested, Used
<1>2. CASE ~StopCollects
  <2>1. server \in {"ending", "closed"}
      BY <1>2 DEF TransportNext, transportVars, stopVars, Accept, Dial, WsCloses,
             LoopEnds, UnpackFails, SendFails, PeerLeaves, ServerCloses, StopCloses,
             StopReturns, Die
  <2>2. ASSUME NEW j \in Conn, Dial(j) PROVE Excused'
    <3>1. CASE j = k
        BY <2>1, <2>2, <3>1 DEF Dial
    <3>2. CASE j # k
      <4>1. Excused
          BY <2>1, <2>2, <3>2 DEF Dial, Register, StopClosesRegistered, TransportTypeOK
      <4>2. Contested(k) => Contested(k)'
          BY <2>2 DEF Dial, Register, Contested, Used, TransportTypeOK
      <4> QED
          BY <2>2, <3>2, <4>1, <4>2 DEF Dial, Register, TransportTypeOK
    <3> QED
        BY <3>1, <3>2
  <2>3. ASSUME NEW j \in Conn, LoopLeaves(j), wsN'[k] => wsN[k],
               UNCHANGED <<peer, left, stopVars>>
        PROVE  Excused'
    <3>1. Excused
        BY <2>1, <2>3 DEF StopClosesRegistered
    <3>2. Contested(k) => Contested(k)'
        BY <2>3 DEF LoopLeaves, Contested, Used, TransportTypeOK
    <3> QED
        BY <2>3, <3>1, <3>2 DEF LoopLeaves, stopVars, TransportTypeOK
  <2>4. ASSUME NEW j \in Conn, StopCloses(j) PROVE Excused'
      BY <2>1, <2>4 DEF StopCloses, StopClosesRegistered, Contested, Used, TransportTypeOK
  <2>5. ASSUME wsN'[k] => wsN[k], left \subseteq left',
               UNCHANGED <<loop, peer, closing, late>>
        PROVE  Excused'
      BY <2>1, <2>5 DEF StopClosesRegistered, Contested, Used
  <2> QED
      BY <1>2, <2>1, <2>2, <2>3, <2>4, <2>5
         DEF TransportNext, transportVars, stopVars, Accept, WsCloses, LoopEnds,
             UnpackFails, LoopLeaves, SendFails, PeerLeaves, ServerCloses,
             StopReturns, Die, TransportTypeOK
<1> QED
    BY <1>1, <1>2

\* Transport.stop closes every connection that is the only one of its peer,
\* although others close, break and register while it awaits.
THEOREM StopCorrect == TransportSpec => []StopClosesRegistered
<1>1. TransportInit => StopClosesRegistered
    BY DEF TransportInit, StopClosesRegistered
<1> QED
    BY <1>1, StepStopCloses, TransportTypeCorrect, OnlyUsedOpen,
       SoleConnectionCorrect, PTL DEF TransportSpec
=============================================================================
