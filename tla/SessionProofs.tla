--------------------------- MODULE SessionProofs ---------------------------
(***************************************************************************)
(* Proofs about Session: what CellClient promises of a client by itself    *)
(* still holds beside a node and links that fail, and what the application *)
(* is given is unaltered.  For any number of WebSockets and messages.      *)
(*                                                                         *)
(* Unaltered needs an invariant over everything on its way, Traced: each   *)
(* packet that the cell sent, that the node has or that the node passed on *)
(* is made from something that was said, with the signature of its last    *)
(* hop and unchanged otherwise.                                            *)
(***************************************************************************)
EXTENDS Session, CellClientProofs, SequenceTheorems

\* The packet that its sender makes of s, before it is signed.
Made(s) == Packet("msg", s.text, s.from, Address(Cell), encrypt(s.text, s.key, s.text))

\* What can be on its way to the node, be held by it, be on its way to the cell.
Upward ==
    {pack(sign_packet(RegisterPacket, Cell))}
        \cup {pack(sign_packet(Made(s), Cell)) : s \in said}
Kept == {sign_packet(Made(s), k) : s \in said, k \in {Cell, Stranger}}
Downward == {pack(sign_packet(Made(s), Server)) : s \in said}

Traced ==
    /\ \A s \in said : s = [text |-> s.text, from |-> s.from, key |-> s.key]
    /\ up \in [Sock -> Seq(Upward)]
    /\ down \in [Sock -> Seq(Downward)]
    /\ held \subseteq Kept
    /\ Unaltered

-----------------------------------------------------------------------------
\* Every step of a session is a step of its client or leaves the client alone.
LEMMA SessionClient == [SessionNext]_sessionVars => [Next]_vars
<1> SUFFICES ASSUME [SessionNext]_sessionVars PROVE [Next]_vars
    OBVIOUS
<1>1. ASSUME NEW k \in Sock,
             \/ ClientConnects(k) \/ CallbackRaises(k) \/ Runs(k) \/ CellSeesClose(k)
             \/ CellLosesLink(k)
      PROVE  Next \/ UNCHANGED vars
    BY <1>1 DEF ClientConnects, CallbackRaises, Runs, ClientTaskStarts, ClientReads,
                ClientTaskEnds, CellSeesClose, CellLosesLink, Next
<1>2. ASSUME NEW k \in Sock,
             \/ NodeAccepts(k) \/ Serves(k) \/ NodeSeesClose(k) \/ NodeLosesLink(k)
      PROVE  UNCHANGED vars
    BY <1>2 DEF NodeAccepts, Serves, NodeReads, NodeLoopEnds, NodeSeesClose, NodeLosesLink
<1>3. CASE ClientRegisters \/ ClientCancels \/ ClientCloses
    BY <1>3 DEF ClientRegisters, ClientCancels, ClientCloses, Next
<1>4. ASSUME \/ \E m \in Msg : ClientSends(m)
             \/ \E m \in Msg, from, key \in {Cell, Stranger} : StrangerSends(m, from, key)
             \/ \E p \in held : NodePasses(p)
             \/ NodeDies
      PROVE  UNCHANGED vars
    BY <1>4 DEF ClientSends, StrangerSends, NodePasses, NodeDies
<1>5. CASE UNCHANGED sessionVars
    BY <1>5 DEF sessionVars
<1> QED
    BY <1>1, <1>2, <1>3, <1>4, <1>5 DEF SessionNext

\* The node and its links do not break the types of the client they serve.
THEOREM SessionTypeCorrect == SessionSpec => []TypeOK
<1>1. SessionInit => Typed
    BY DEF SessionInit, Init, Typed, TypeOK
<1>2. Typed => TypeOK
    BY DEF Typed
<1>3. Typed /\ [SessionNext]_sessionVars => Typed'
    BY SessionClient, StepTyped
<1> QED
    BY <1>1, <1>2, <1>3, PTL DEF SessionSpec

\* A careful application never takes messages from two connections at once, and
\* its client is connected as long as its task reads an open socket, whatever the
\* node and the links do.
THEOREM SessionReaderCorrect ==
    ASSUME DisconnectsFirst
    PROVE  SessionSpec => [](OneReader /\ ConnectedWhileReading)
<1>1. SessionInit => Typed /\ Tidy
    BY TidyInit DEF SessionInit
<1>2. Typed /\ Tidy /\ [SessionNext]_sessionVars => (Typed /\ Tidy)'
    BY SessionClient, StepTyped, StepTidy
<1> QED
    BY <1>1, <1>2, TidyImplies, PTL DEF SessionSpec

-----------------------------------------------------------------------------
\* What is packed and unpacked, or stored and read back, is the same packet.
LEMMA Roundtrip ==
    ASSUME NEW s, NEW k
    PROVE  /\ unpack(pack(sign_packet(Made(s), k))) = sign_packet(Made(s), k)
           /\ deserialize_packet(serialize_packet(sign_packet(Made(s), k)))
                = sign_packet(Made(s), k)
BY DEF unpack, pack, get, sign_packet, Made, Packet, deserialize_packet, serialize_packet,
       PROTO_VERSION

\* A signature replaces the one before.
LEMMA Resigned ==
    ASSUME NEW s, NEW j, NEW k
    PROVE  sign_packet(sign_packet(Made(s), j), k) = sign_packet(Made(s), k)
BY DEF sign_packet, sign_data, sign, Made, Packet

\* The packet says what it was made from.
LEMMA MadeIs ==
    ASSUME NEW s, NEW k
    PROVE  LET p == sign_packet(Made(s), k)
           IN  /\ p.type = "msg"
               /\ p.from_addr = s.from
               /\ Text(p) = s.text
               /\ decrypts(p.payload, Cell) => s.key = Cell
<1> DEFINE p == sign_packet(Made(s), k)
<1>1. /\ p.type = "msg" /\ p.from_addr = s.from
      /\ p.payload = encrypt(s.text, s.key, s.text)
    BY DEF sign_packet, Made, Packet
<1>2. Text(p) = s.text
    BY <1>1 DEF Text, encrypt
<1>3. ASSUME decrypts(p.payload, Cell) PROVE s.key = Cell
  <2>1. {s.text, s.key} = {Cell, s.text}
      BY <1>1, <1>3 DEF decrypts, encrypt, kdf, exchange
  <2> QED
      BY <2>1
<1> QED
    BY <1>1, <1>2, <1>3

\* What was said stays said, and what is on its way stays traced to it.
LEMMA TracedLater ==
    ASSUME Traced, said \subseteq said'
    PROVE  /\ Upward \subseteq Upward' /\ Kept \subseteq Kept' /\ Downward \subseteq Downward'
           /\ up \in [Sock -> Seq(Upward')]
           /\ down \in [Sock -> Seq(Downward')]
           /\ held \subseteq Kept'
           /\ Unaltered /\ got' = got => Unaltered'
<1>1. Upward \subseteq Upward' /\ Kept \subseteq Kept' /\ Downward \subseteq Downward'
    BY DEF Upward, Kept, Downward
<1>2. \A k \in Sock : up[k] \in Seq(Upward') /\ down[k] \in Seq(Downward')
  <2> TAKE k \in Sock
  <2>1. up[k] \in Seq(Upward) /\ down[k] \in Seq(Downward)
      BY DEF Traced
  <2> QED
      BY <1>1, <2>1, SeqMonotonic
<1>3. up \in [Sock -> Seq(Upward')] /\ down \in [Sock -> Seq(Downward')]
    BY <1>2 DEF Traced
<1>4. held \subseteq Kept' /\ (got' = got => Unaltered')
    BY <1>1 DEF Traced, Unaltered
<1> QED
    BY <1>1, <1>3, <1>4

\* A frame is written, and arrives or not.
LEMMA WireWritten ==
    ASSUME NEW S, NEW wire \in [Sock -> Seq(S)], NEW k, NEW hears, NEW d \in S
    PROVE  Transmit(wire, k, hears, d) \in [Sock -> Seq(S)]
<1>1. k \in Sock => wire[k] \in Seq(S)
    OBVIOUS
<1> QED
    BY <1>1, AppendProperties DEF Transmit

\* A frame is read, or a failing link cuts off the end.
LEMMA WireRead ==
    ASSUME NEW S, NEW wire \in [Sock -> Seq(S)], NEW k
    PROVE  /\ wire[k] # <<>> => [wire EXCEPT ![k] = Tail(@)] \in [Sock -> Seq(S)]
           /\ k \in Sock => \A i \in 0 .. Len(wire[k]) :
                               [wire EXCEPT ![k] = SubSeq(@, 1, i)] \in [Sock -> Seq(S)]
           /\ k \in Sock /\ wire[k] # <<>> => Head(wire[k]) \in S
<1>1. k \in Sock => wire[k] \in Seq(S)
    OBVIOUS
<1>2. k \in Sock /\ wire[k] # <<>> => Head(wire[k]) \in S /\ Tail(wire[k]) \in Seq(S)
    BY <1>1, HeadTailProperties
<1>3. ASSUME k \in Sock, NEW i \in 0 .. Len(wire[k])
      PROVE  SubSeq(wire[k], 1, i) \in Seq(S)
    BY <1>1, <1>3, LenProperties, SubSeqProperties
<1> QED
    BY <1>2, <1>3

\* No step puts anything on its way that nobody said, or gives the application
\* anything that was not.
LEMMA StepTraced == Traced /\ [SessionNext]_sessionVars => Traced'
<1> SUFFICES ASSUME Traced, [SessionNext]_sessionVars PROVE Traced'
    OBVIOUS
<1>1. /\ up \in [Sock -> Seq(Upward)] /\ down \in [Sock -> Seq(Downward)]
      /\ held \subseteq Kept /\ Unaltered
    BY DEF Traced
<1>2. said' = said => Upward' = Upward /\ Kept' = Kept /\ Downward' = Downward
    BY DEF Upward, Kept, Downward
\* What is left to show when nothing is said.
<1>3. ASSUME said' = said, up' \in [Sock -> Seq(Upward)], down' \in [Sock -> Seq(Downward)],
             held' \subseteq Kept, Unaltered'
      PROVE  Traced'
    BY <1>2, <1>3 DEF Traced
<1>4. ASSUME UNCHANGED <<said, got>> PROVE Unaltered'
    BY <1>1, <1>4 DEF Unaltered
<1>5. ASSUME UNCHANGED <<up, down, said, got>>, held' \subseteq held PROVE Traced'
    BY <1>1, <1>3, <1>4, <1>5
\* Steps that only the connections and the tasks see.
<1>6. ASSUME NEW k \in Sock,
             \/ ClientConnects(k) \/ ClientTaskStarts(k) \/ ClientTaskEnds(k)
             \/ NodeAccepts(k) \/ NodeLoopEnds(k) \/ CellSeesClose(k) \/ NodeSeesClose(k)
      PROVE  Traced'
    BY <1>5, <1>6 DEF ClientConnects, ClientTaskStarts, ClientTaskEnds, NodeAccepts,
                      NodeLoopEnds, CellSeesClose, NodeSeesClose, wireVars, noteVars
<1>7. CASE ClientCancels \/ ClientCloses \/ UNCHANGED sessionVars
    BY <1>5, <1>7 DEF ClientCancels, ClientCloses, sessionVars, wireVars, noteVars
<1>8. CASE ClientRegisters
  <2>1. pack(sign_packet(RegisterPacket, Cell)) \in Upward
      BY DEF Upward
  <2> DEFINE d == pack(sign_packet(RegisterPacket, Cell))
  <2> HIDE DEF d
  <2>2. up' \in [Sock -> Seq(Upward)]
    <3>1. up' = up \/ up' = Transmit(up, sock, NodeHears(sock), d)
        BY <1>8 DEF ClientRegisters, d
    <3>2. Transmit(up, sock, NodeHears(sock), d) \in [Sock -> Seq(Upward)]
        BY <1>1, <2>1, WireWritten DEF d
    <3> QED
        BY <1>1, <3>1, <3>2
  <2> QED
      BY <1>1, <1>3, <1>4, <1>8, <2>2 DEF ClientRegisters, noteVars
\* The task reads the next packet, and goes on or is over.
<1>9. ASSUME NEW k \in Sock, down[k] # <<>>, got' = Hears(unpack(Head(down[k]))),
             down' = [down EXCEPT ![k] = Tail(@)], UNCHANGED <<up, held, said>>
      PROVE  Traced'
  <2>1. Head(down[k]) \in Downward /\ down' \in [Sock -> Seq(Downward)]
      BY <1>1, <1>9, WireRead
  <2>2. PICK s \in said : Head(down[k]) = pack(sign_packet(Made(s), Server))
      BY <2>1 DEF Downward
  <2> DEFINE p == sign_packet(Made(s), Server)
  <2>3. unpack(Head(down[k])) = p
      BY <2>2, Roundtrip
  <2>4. /\ p.from_addr = s.from /\ Text(p) = s.text
        /\ decrypts(p.payload, Cell) => s.key = Cell
      BY MadeIs
  <2> HIDE DEF p
  <2>5. s = [text |-> s.text, from |-> s.from, key |-> s.key]
      BY DEF Traced
  <2>6. ForUs(p) => [text |-> Text(p), from |-> p.from_addr, key |-> Cell] \in said
      BY <2>4, <2>5 DEF ForUs
  <2>7. Unaltered'
      BY <1>1, <1>9, <2>3, <2>6 DEF Unaltered, Hears
  <2> QED
      BY <1>1, <1>3, <1>9, <2>1, <2>7
<1>10. ASSUME NEW k \in Sock, ClientReads(k) \/ CallbackRaises(k) PROVE Traced'
    BY <1>9, <1>10 DEF ClientReads, CallbackRaises
\* Something is said.
<1>11. ASSUME NEW m \in Msg, ClientSends(m) PROVE Traced'
  <2> DEFINE s == [text |-> m, from |-> Address(Cell), key |-> Cell]
             d == pack(sign_packet(MsgPacket(m, Cell, Cell), Cell))
  <2>1. said' = said \cup {s} /\ UNCHANGED <<down, held, got>>
      BY <1>11 DEF ClientSends
  <2>2. d = pack(sign_packet(Made(s), Cell))
      BY DEF MsgPacket, Made
  <2>3. d \in Upward'
      BY <2>1, <2>2 DEF Upward
  <2>4. s = [text |-> s.text, from |-> s.from, key |-> s.key]
      OBVIOUS
  <2>5. up' = Transmit(up, ws, NodeHears(ws), d)
      BY <1>11 DEF ClientSends
  <2> HIDE DEF s, d
  <2>6. up' \in [Sock -> Seq(Upward')]
      BY <2>1, <2>3, <2>5, TracedLater, WireWritten
  <2> QED
      BY <2>1, <2>4, <2>6, TracedLater DEF Traced
<1>12. ASSUME NEW m \in Msg, NEW from \in {Cell, Stranger}, NEW key \in {Cell, Stranger},
              StrangerSends(m, from, key)
       PROVE  Traced'
  <2> DEFINE s == [text |-> m, from |-> Address(from), key |-> key]
  <2>1. said' = said \cup {s} /\ UNCHANGED <<up, down, got>>
      BY <1>12 DEF StrangerSends, wireVars
  <2>2. MsgPacket(m, from, key) = Made(s)
      BY DEF MsgPacket, Made
  <2>3. held' = held \cup {sign_packet(Made(s), Stranger)}
      BY <1>12, <2>2, Roundtrip DEF StrangerSends, Takes
  <2>4. s = [text |-> s.text, from |-> s.from, key |-> s.key]
      OBVIOUS
  <2> HIDE DEF s
  <2>5. sign_packet(Made(s), Stranger) \in Kept'
      BY <2>1 DEF Kept
  <2> QED
      BY <2>1, <2>3, <2>4, <2>5, TracedLater DEF Traced
\* The node reads, and keeps what it read as it was.
<1>13. ASSUME NEW k \in Sock, NodeReads(k) PROVE Traced'
  <2>1. up[k] # <<>> /\ up' = [up EXCEPT ![k] = Tail(@)] /\ UNCHANGED <<down, said, got>>
      BY <1>13 DEF NodeReads
  <2>2. Head(up[k]) \in Upward /\ up' \in [Sock -> Seq(Upward)]
      BY <1>1, <2>1, WireRead
  <2>3. CASE Head(up[k]) = pack(sign_packet(RegisterPacket, Cell))
    <3>1. unpack(Head(up[k])).type = "cell_register"
        BY <2>3 DEF unpack, pack, get, sign_packet, RegisterPacket, Packet
    <3>2. held' = held
        BY <1>13, <3>1 DEF NodeReads
    <3> QED
        BY <1>1, <1>3, <1>4, <2>1, <2>2, <3>2
  <2>4. ASSUME NEW s \in said, Head(up[k]) = pack(sign_packet(Made(s), Cell)) PROVE Traced'
    <3>1. held' = held \/ held' = held \cup {sign_packet(Made(s), Cell)}
        BY <1>13, <2>4, Roundtrip DEF NodeReads, Takes
    <3>2. sign_packet(Made(s), Cell) \in Kept
        BY DEF Kept
    <3> QED
        BY <1>1, <1>3, <1>4, <2>1, <2>2, <3>1, <3>2
  <2> QED
      BY <2>2, <2>3, <2>4 DEF Upward
\* The node passes on, with its own signature.
<1>14. ASSUME NEW p \in held, NodePasses(p) PROVE Traced'
  <2>1. PICK s \in said, j \in {Cell, Stranger} : p = sign_packet(Made(s), j)
      BY <1>1 DEF Kept
  <2>2. send_via(p) \in Downward
      BY <2>1, Resigned DEF send_via, Downward
  <2>3. \/ down' = down
        \/ \E k : down' = Transmit(down, k, CellHears(k), send_via(p))
      BY <1>14 DEF NodePasses
  <2> DEFINE d == send_via(p)
  <2> HIDE DEF d
  <2>4. down' \in [Sock -> Seq(Downward)]
    <3>1. \A k : Transmit(down, k, CellHears(k), d) \in [Sock -> Seq(Downward)]
        BY <1>1, <2>2, WireWritten DEF d
    <3> QED
        BY <1>1, <2>3, <3>1 DEF d
  <2> QED
      BY <1>1, <1>3, <1>4, <1>14, <2>4 DEF NodePasses
<1>15. ASSUME NodeDies PROVE Traced'
  <2>1. up' \in [Sock -> Seq(Upward)]
      BY <1>15, EmptySeq DEF NodeDies
  <2> QED
      BY <1>1, <1>3, <1>4, <1>15, <2>1 DEF NodeDies
\* A link fails.
<1>16. ASSUME NEW k \in Sock, CellLosesLink(k) PROVE Traced'
  <2>1. down' \in [Sock -> Seq(Downward)]
      BY <1>1, <1>16, WireRead DEF CellLosesLink, Lose
  <2> QED
      BY <1>1, <1>3, <1>4, <1>16, <2>1 DEF CellLosesLink
<1>17. ASSUME NEW k \in Sock, NodeLosesLink(k) PROVE Traced'
  <2>1. up' \in [Sock -> Seq(Upward)]
      BY <1>1, <1>17, WireRead DEF NodeLosesLink, Lose
  <2> QED
      BY <1>1, <1>3, <1>4, <1>17, <2>1 DEF NodeLosesLink
<1> QED
    BY <1>6, <1>7, <1>8, <1>10, <1>11, <1>12, <1>13, <1>14, <1>15, <1>16, <1>17
       DEF SessionNext, Runs, Serves

\* Whatever the application's on_message is given was sent to this cell, encrypted
\* for it, as it is: with this plaintext and under this sender's address.
THEOREM UnalteredCorrect == SessionSpec => []Unaltered
<1>1. SessionInit => Traced
    BY EmptySeq DEF SessionInit, Traced, Unaltered
<1>2. Traced => Unaltered
    BY DEF Traced
<1> QED
    BY <1>1, <1>2, StepTraced, PTL DEF SessionSpec
=============================================================================
