------------------------------ MODULE Session ------------------------------
(***************************************************************************)
(* One cell, the node it connects to and the WebSockets between them: the  *)
(* client of CellClient, the node's connections of Transport, and the      *)
(* packets of Packets on their way up and down.  A WebSocket is ordered    *)
(* and loses nothing until it closes; each end sees it close by itself.    *)
(* A close by the other end is seen after what it sent, and a link that    *)
(* fails loses what had not arrived.                                       *)
(*                                                                         *)
(* Of the node's inside only what is seen from here remains: it has some   *)
(* messages, in memory or in its buffer, and passes any of them on to the  *)
(* cell at any time, any number of times.  Delivery says when it does.     *)
(***************************************************************************)
EXTENDS CellClient, Transport, Packets, Sequences, FiniteSets, Naturals

CONSTANTS
    Cell,      \* the cell's key pair
    Server,    \* the node's key pair
    Stranger,  \* the key pair of another cell
    Msg,       \* plaintexts, each sent at most once
    MaxWire    \* bound: packets on their way to the cell on one WebSocket

ASSUME SessionAssumption ==
    /\ Conn = Sock
    /\ Peer = {Cell}
    /\ Cell # Server /\ Stranger \notin {Cell, Server}
    /\ MaxWire \in Nat \ {0}

VARIABLES
    up,     \* up[k]: packets that the cell sent on k and the node has not read
    down,   \* down[k]: packets that the node sent on k and the cell has not read
    held,   \* MSG packets for the cell that the node has taken
    said,   \* what was sent to the cell: plaintext, the address given as the
            \* sender's, the key it is encrypted for (history)
    got,    \* the calls of on_message: plaintext and sender's address
    cut     \* plaintexts that a failing link lost (history)

wireVars == <<up, down>>
noteVars == <<held, said, got, cut>>
sessionVars == <<vars, transportVars, wireVars, noteVars>>

SessionInit ==
    /\ Init
    /\ TransportInit
    /\ up = [k \in Sock |-> <<>>]
    /\ down = [k \in Sock |-> <<>>]
    /\ held = {}
    /\ said = {}
    /\ got = {}
    /\ cut = {}

Address(cell) == <<cell, Server>>

\* The packet of send and of send_message: m is encrypted with the public key
\* "key" that the sender believes to be the recipient's.
MsgPacket(m, from, key) ==
    Packet("msg", m, Address(from), Address(Cell), encrypt(m, key, m))

RegisterPacket == Packet("cell_register", Cell, Cell, Server, Cell)

Text(d) == d.payload.ciphertext.text

\* The plaintexts of the MSG packets in a sequence of encoded packets.
Texts(wire) ==
    {Text(wire[i]) : i \in {j \in DOMAIN wire : wire[j].type = "msg"}}

\* A frame written to WebSocket k arrives unless the other end is closed, which
\* the writer may not have seen yet.
NodeHears(k) == loop[k] = "free" \/ wsN[k]
CellHears(k) == open[k]

Transmit(wire, k, hears, d) == [wire EXCEPT ![k] = IF hears THEN Append(@, d) ELSE @]
-----------------------------------------------------------------------------
\* The client.  A connect that gets through leaves the node to finish its half
\* of the handshake (NodeAccepts).
ClientConnects(k) ==
    /\ Connect(k) \/ ConnectFails(k)
    /\ UNCHANGED <<transportVars, wireVars, noteVars>>

ClientRegisters ==
    /\ \/ /\ RegisterSent
          /\ up' = Transmit(up, sock, NodeHears(sock), pack(sign_packet(RegisterPacket, Cell)))
       \/ RegisterFails /\ UNCHANGED up
    /\ UNCHANGED <<transportVars, down, noteVars>>

ClientTaskStarts(k) ==
    /\ TaskStarts(k)
    /\ UNCHANGED <<transportVars, wireVars, noteVars>>

\* send, to the cell itself with its own key (a wrong key is StrangerSends's
\* case); without a connection it raises.
ClientSends(m) ==
    /\ Calm
    /\ connected
    /\ \A s \in said : s.text # m
    /\ up' = Transmit(up, ws, NodeHears(ws), pack(sign_packet(MsgPacket(m, Cell, Cell), Cell)))
    /\ cut' = IF NodeHears(ws) THEN cut ELSE cut \cup {m}
    /\ said' = said \cup {[text |-> m, from |-> Address(Cell), key |-> Cell]}
    /\ UNCHANGED <<vars, transportVars, down, held, got>>

\* The receive task takes the next packet: one that the node did not sign, that
\* is no message or that does not decrypt is dropped.
ForUs(p) ==
    /\ verify_packet(p, Server)
    /\ p.type = "msg"
    /\ decrypts(p.payload, Cell)

Hears(p) ==
    IF ForUs(p) THEN got \cup {[text |-> Text(p), from |-> p.from_addr]} ELSE got

ClientReads(k) ==
    /\ task[k] = "running"
    /\ down[k] # <<>>
    /\ got' = Hears(unpack(Head(down[k])))
    /\ down' = [down EXCEPT ![k] = Tail(@)]
    /\ UNCHANGED <<vars, transportVars, up, held, said, cut>>

\* on_message raises: it has the message, and the receive task is over.
CallbackRaises(k) ==
    /\ down[k] # <<>>
    /\ ForUs(unpack(Head(down[k])))
    /\ TaskRaises(k) \/ TaskEnds(k)
    /\ got' = Hears(unpack(Head(down[k])))
    /\ down' = [down EXCEPT ![k] = Tail(@)]
    /\ UNCHANGED <<transportVars, up, held, said, cut>>

ClientTaskEnds(k) ==
    /\ down[k] = <<>>
    /\ TaskEnds(k)
    /\ UNCHANGED <<transportVars, wireVars, noteVars>>

ClientCancels ==
    /\ DisconnectCancels
    /\ UNCHANGED <<transportVars, wireVars, noteVars>>

ClientCloses ==
    /\ DisconnectCloses
    /\ UNCHANGED <<transportVars, wireVars, noteVars>>
-----------------------------------------------------------------------------
\* The node.  Its half of the handshake is over after the client's, or although
\* the client's failed, or never.  (When it is over first, what it sends waits
\* for the client all the same.)
NodeAccepts(k) ==
    /\ task[k] # "free"
    /\ Accept(k)
    /\ UNCHANGED <<vars, wireVars, noteVars>>

\* The message is kept in memory, or in message_buffer until it is flushed.
Takes(p, stored) ==
    held \cup {IF stored THEN deserialize_packet(serialize_packet(p)) ELSE p}

\* The receive loop takes the next packet and drops it if the connection's peer
\* did not sign it.
NodeReads(k) ==
    /\ loop[k] = "live"
    /\ up[k] # <<>>
    /\ up' = [up EXCEPT ![k] = Tail(@)]
    /\ LET p == unpack(Head(up[k]))
       IN  IF verify_packet(p, peer[k]) /\ p.type = "msg"
           THEN \E stored \in BOOLEAN : held' = Takes(p, stored)
           ELSE UNCHANGED held
    /\ UNCHANGED <<vars, transportVars, down, said, got, cut>>

\* Another cell's message for the cell arrives at the node.  Neither the node
\* nor the cell compares the sender's address in it with anything.
StrangerSends(m, from, key) ==
    /\ \A s \in said : s.text # m
    /\ said' = said \cup {[text |-> m, from |-> Address(from), key |-> key]}
    /\ \E stored \in BOOLEAN :
         held' = Takes(sign_packet(MsgPacket(m, from, key), Stranger), stored)
    /\ UNCHANGED <<vars, transportVars, wireVars, got, cut>>

\* Mutant of send_via: a packet that is passed on keeps its signature.
send_via_unsigned(p) == pack(p)

\* send_via signs with the node's key, whoever signed before.
send_via(p) == pack(sign_packet(p, Server))

\* send_to(cell, p): the frame is written if the registered connection is open.
NodePasses(p) ==
    /\ Cell \in DOMAIN registry
    /\ LET k == registry[Cell]
       IN  \/ /\ wsN[k]
              /\ Len(down[k]) < MaxWire
              /\ down' = Transmit(down, k, CellHears(k), send_via(p))
              /\ cut' = IF CellHears(k) THEN cut ELSE cut \cup {Text(p)}
              /\ UNCHANGED transportVars
           \/ /\ SendFails(k)
              /\ UNCHANGED <<down, cut>>
    /\ UNCHANGED <<vars, up, held, said, got>>

NodeLoopEnds(k) ==
    /\ up[k] = <<>>
    /\ LoopEnds(k)
    /\ UNCHANGED <<vars, wireVars, noteVars>>

\* The process dies with what it had read and not stored; what it had sent
\* may arrive.  Its sockets, those still in the handshake too, are closed by
\* the operating system, and it is started again.
NodeDies ==
    /\ loop' = [k \in Sock |-> IF Used(k) \/ task[k] # "free" THEN "done" ELSE "free"]
    /\ wsN' = [k \in Sock |-> FALSE]
    /\ registry' = EmptyTable
    /\ \E H \in SUBSET held : held' = H
    /\ up' = [k \in Sock |-> <<>>]
    /\ cut' = cut \cup UNION {Texts(up[k]) : k \in Sock}
    /\ UNCHANGED <<vars, peer, dialled, left, stopVars, down, said, got>>
-----------------------------------------------------------------------------
\* An end of WebSocket k sees that the other end closed it.
CellSeesClose(k) ==
    /\ Used(k) /\ ~wsN[k]
    /\ SocketCloses(k)
    /\ UNCHANGED <<transportVars, wireVars, noteVars>>

NodeSeesClose(k) ==
    /\ task[k] # "free" /\ ~open[k]
    /\ WsCloses(k)
    /\ UNCHANGED <<vars, wireVars, noteVars>>

\* The link fails, which the two ends see one after the other: keepalive.
Lose(wire, k) ==
    \E i \in 0 .. Len(wire[k]) :
        /\ cut' = cut \cup Texts(SubSeq(wire[k], i + 1, Len(wire[k])))
        /\ wire' = [wire EXCEPT ![k] = SubSeq(@, 1, i)]

CellLosesLink(k) ==
    /\ SocketCloses(k)
    /\ Lose(down, k)
    /\ UNCHANGED <<transportVars, up, held, said, got>>

NodeLosesLink(k) ==
    /\ WsCloses(k)
    /\ Lose(up, k)
    /\ UNCHANGED <<vars, down, held, said, got>>

\* What the client's tasks, the node's loops and the library do by themselves.
Runs(k) ==
    \/ ClientTaskStarts(k)
    \/ ClientReads(k)
    \/ ClientTaskEnds(k)

Serves(k) == NodeReads(k) \/ NodeLoopEnds(k)

SessionNext ==
    \/ \E k \in Sock :
         \/ ClientConnects(k)
         \/ CallbackRaises(k)
         \/ Runs(k)
         \/ NodeAccepts(k)
         \/ Serves(k)
         \/ CellSeesClose(k)
         \/ NodeSeesClose(k)
         \/ CellLosesLink(k)
         \/ NodeLosesLink(k)
    \/ \E m \in Msg : ClientSends(m)
    \/ \E m \in Msg, from, key \in {Cell, Stranger} : StrangerSends(m, from, key)
    \/ \E p \in held : NodePasses(p)
    \/ ClientRegisters
    \/ ClientCancels
    \/ ClientCloses
    \/ NodeDies

\* asyncio runs every ready task on either side; nothing is assumed of the
\* application, of what the node passes on or of when links fail.
SessionSpec ==
    /\ SessionInit
    /\ [][SessionNext]_sessionVars
    /\ \A k \in Sock : WF_sessionVars(Runs(k)) /\ WF_sessionVars(Serves(k))
    /\ WF_sessionVars(ClientCloses)
-----------------------------------------------------------------------------
\* What the application is given is what somebody sent to this cell, encrypted
\* for it, with the plaintext and the sender's address that they sent: nothing
\* on the way makes up, alters or mixes up messages, although two signature
\* checks, the node's signature in place of the sender's, the buffer's encoding
\* and decryption lie between.  Who that somebody was it does not say: the
\* address is the sender's word, and nothing checks it.
Unaltered ==
    \A g \in got : [text |-> g.text, from |-> g.from, key |-> Cell] \in said

\* A message that is on its way to a cell that reads is given to the
\* application, unless the link fails, the reader ends (a disconnect, or a
\* callback that raises) or it was encrypted with another key: nothing else
\* is lost, although nobody acknowledges anything.
PassedIsRead ==
    \A m \in Msg :
        (/\ \E k \in Sock : m \in Texts(down[k]) /\ task[k] = "running"
         /\ \E s \in said : s.text = m /\ s.key = Cell)
            ~> \/ m \in {g.text : g \in got} \cup cut
               \/ \A k \in Sock : task[k] # "running"

\* A message that the cell sent and that is on its way is taken by the node,
\* unless the link fails.
SentIsTaken ==
    \A m \in Msg :
        (\E k \in Sock : m \in Texts(up[k]) /\ loop[k] = "live")
            ~> (m \in {Text(p) : p \in held} \cup cut)
=============================================================================
