------------------------------ MODULE Transport ------------------------------
(***************************************************************************)
(* The connections of one Nevod node (node/transport.py): the receive loop *)
(* of each authenticated connection and ConnectionRegistry, the dict from  *)
(* peer id to the connection that packets for that peer are sent on.       *)
(*                                                                         *)
(* A connection id names one WebSocket for its whole life.  The model      *)
(* begins where mutual authentication has succeeded: between the end of    *)
(* _do_auth and connections.add the code does not suspend, so both are one *)
(* step.  Operations of the registry never suspend either: its asyncio     *)
(* lock is never held across an await, so it is always free.               *)
(***************************************************************************)
EXTENDS Tables

CONSTANTS
    Conn,   \* WebSocket connections
    Peer    \* peer_node_id values: ids of remote nodes and of cells alike

VARIABLES
    loop,      \* loop[k]: "free" (unused id), "live" (_recv_loop runs), "done"
    peer,      \* peer[k]: the identity proven at the other end of k
    dialled,   \* the connections this node opened itself
    wsN,       \* wsN[k]: this node's end of the WebSocket is open
    registry,  \* ConnectionRegistry._conns
    left,      \* ids named by a NODE_LEAVING packet that was handled
    server,    \* "serving", "closing" (stop awaits wait_closed), "ending"
               \* (stop closes one connection after the other), "closed"
    closing,   \* the connections stop collected and has not closed yet
    late       \* history: connections registered after stop collected them

stopVars == <<server, closing, late>>
transportVars == <<loop, peer, dialled, wsN, registry, left, stopVars>>

Used(k) == loop[k] # "free"

TransportTypeOK ==
    /\ loop \in [Conn -> {"free", "live", "done"}]
    /\ peer \in [Conn -> Peer]
    /\ dialled \subseteq Conn
    /\ wsN \in [Conn -> BOOLEAN]
    /\ IsTable(registry, Peer, Conn)
    /\ left \subseteq Peer
    /\ server \in {"serving", "closing", "ending", "closed"}
    /\ closing \subseteq Conn
    /\ late \subseteq Conn

TransportInit ==
    /\ loop = [k \in Conn |-> "free"]
    /\ peer \in [Conn -> Peer]
    /\ dialled = {}
    /\ wsN = [k \in Conn |-> FALSE]
    /\ registry = EmptyTable
    /\ left = {}
    /\ server = "serving"
    /\ closing = {}
    /\ late = {}
-----------------------------------------------------------------------------
\* Common to both ends of a handshake: the connection is registered under the
\* peer's id, whatever was there before, and its receive loop starts.
Register(k) ==
    /\ loop[k] = "free"
    /\ loop' = [loop EXCEPT ![k] = "live"]
    /\ wsN' = [wsN EXCEPT ![k] = TRUE]
    /\ registry' = Put(registry, peer[k], k)

\* _handle_incoming once _do_auth returned.
Accept(k) ==
    /\ server = "serving"
    /\ Register(k)
    /\ UNCHANGED <<peer, dialled, left, stopVars>>

\* connect and connect_to_node once _do_auth returned.  Nothing stops a handler
\* that was already dialling from finishing while or after stop runs, and
\* what registers after stop took its list is not on it.
Dial(k) ==
    /\ Register(k)
    /\ dialled' = dialled \cup {k}
    /\ late' = IF server \in {"ending", "closed"} THEN late \cup {k} ELSE late
    /\ UNCHANGED <<peer, left, server, closing>>

\* The WebSocket library sees the peer's close frame, loses the TCP
\* connection, or gives up after a keepalive timeout.
WsCloses(k) ==
    /\ Used(k)
    /\ wsN[k]
    /\ wsN' = [wsN EXCEPT ![k] = FALSE]
    /\ UNCHANGED <<loop, peer, dialled, registry, left, stopVars>>

\* Mutant of LoopLeaves: the entry is not removed.
LoopLeavesKeepsEntry(k) ==
    /\ loop[k] = "live"
    /\ loop' = [loop EXCEPT ![k] = "done"]
    /\ UNCHANGED registry

\* Mutant of LoopLeaves: the entry is set to None instead of popped.
LoopLeavesNone(k) ==
    /\ loop[k] = "live"
    /\ loop' = [loop EXCEPT ![k] = "done"]
    /\ registry' = Put(registry, peer[k], "None")

\* The finally clauses of _recv_loop and _handle_incoming remove the entry of
\* the PEER, which may by now be another connection.
LoopLeaves(k) ==
    /\ loop[k] = "live"
    /\ loop' = [loop EXCEPT ![k] = "done"]
    /\ registry' = Drop(registry, peer[k])

\* The iteration over a closed WebSocket ends.
LoopEnds(k) ==
    /\ ~wsN[k]
    /\ LoopLeaves(k)
    /\ UNCHANGED <<peer, dialled, wsN, left, stopVars>>

\* unpack raises on a malformed packet, outside the inner try: the loop dies.
\* The server closes an accepted WebSocket whose handler returned; nobody
\* closes a dialled one.
UnpackFails(k) ==
    /\ wsN[k]
    /\ LoopLeaves(k)
    /\ wsN' = [wsN EXCEPT ![k] = k \in dialled]
    /\ UNCHANGED <<peer, dialled, left, stopVars>>

\* Mutant of SendFails: any failed send, a timeout too, drops the entry.
SendFailsAnyError(k) ==
    /\ Used(k)
    /\ registry' = Drop(registry, peer[k])
    /\ UNCHANGED <<loop, peer, dialled, wsN, left, stopVars>>

\* send_to: a send on k raises ConnectionClosed and the peer's entry is
\* removed.  The sender looked k up earlier, so k need not be registered now.
SendFails(k) ==
    /\ Used(k)
    /\ ~wsN[k]
    /\ registry' = Drop(registry, peer[k])
    /\ UNCHANGED <<loop, peer, dialled, wsN, left, stopVars>>

\* _handle_node_leaving, the transport's part: the entry of the id that the
\* packet names as its sender goes, and the connection it came on stays as it
\* is.  Nothing compares the name with the connection's peer.
PeerLeaves(k, p) ==
    /\ loop[k] = "live"
    /\ registry' = Drop(registry, p)
    /\ left' = left \cup {p}
    /\ UNCHANGED <<loop, peer, dialled, wsN, stopVars>>

\* stop, up to its first await: the listening socket and the accepted
\* connections are closed.
ServerCloses ==
    /\ server = "serving"
    /\ server' = "closing"
    /\ wsN' = [k \in Conn |-> wsN[k] /\ k \in dialled]
    /\ UNCHANGED <<loop, peer, dialled, registry, left, closing, late>>

\* Mutant of StopCollects: stop relies on the server closing everything.
StopCollectsNothing ==
    /\ server = "closing"
    /\ \A k \in Conn \ dialled : loop[k] # "live"
    /\ server' = "ending"
    /\ closing' = {}
    /\ UNCHANGED <<loop, peer, dialled, wsN, registry, left, late>>

\* stop after wait_closed: the handlers of accepted connections have returned,
\* and all() lists the connections that are registered now.
StopCollects ==
    /\ server = "closing"
    /\ \A k \in Conn \ dialled : loop[k] # "live"
    /\ server' = "ending"
    /\ closing' = {registry[p] : p \in DOMAIN registry}
    /\ UNCHANGED <<loop, peer, dialled, wsN, registry, left, late>>

\* One turn of stop's loop: it awaits the closing of one listed connection,
\* and everything else may happen meanwhile.
StopCloses(k) ==
    /\ server = "ending"
    /\ k \in closing
    /\ wsN' = [wsN EXCEPT ![k] = FALSE]
    /\ closing' = closing \ {k}
    /\ UNCHANGED <<loop, peer, dialled, registry, left, server, late>>

StopReturns ==
    /\ server = "ending"
    /\ closing = {}
    /\ server' = "closed"
    /\ UNCHANGED <<loop, peer, dialled, wsN, registry, left, closing, late>>

\* The process dies: no connection and no loop survives, and the next process
\* starts with an empty registry.
Die ==
    /\ loop' = [k \in Conn |-> IF loop[k] = "live" THEN "done" ELSE loop[k]]
    /\ wsN' = [k \in Conn |-> FALSE]
    /\ registry' = EmptyTable
    /\ server' = "serving"
    /\ closing' = {}
    /\ late' = {}
    /\ UNCHANGED <<peer, dialled, left>>

TransportNext ==
    \/ \E k \in Conn :
         \/ Accept(k)
         \/ Dial(k)
         \/ WsCloses(k)
         \/ LoopEnds(k)
         \/ UnpackFails(k)
         \/ SendFails(k)
         \/ \E p \in Peer : PeerLeaves(k, p)
         \/ StopCloses(k)
    \/ ServerCloses
    \/ StopCollects
    \/ StopReturns
    \/ Die

\* A loop whose WebSocket is closed is woken by the library, and asyncio runs
\* every task that is ready.
TransportSpec ==
    /\ TransportInit
    /\ [][TransportNext]_transportVars
    /\ \A k \in Conn : WF_transportVars(LoopEnds(k))
-----------------------------------------------------------------------------
\* Every entry names a connection of the peer it is filed under, whose receive
\* loop still runs: get never returns a connection that nobody reads from.
RegistrySound ==
    \A p \in DOMAIN registry :
        /\ peer[registry[p]] = p
        /\ loop[registry[p]] = "live"

\* Some other connection of k's peer has existed, or a NODE_LEAVING, of
\* whoever it was, named the peer.
Contested(k) ==
    \/ peer[k] \in left
    \/ \E j \in Conn \ {k} : Used(j) /\ peer[j] = peer[k]

\* A peer that only ever made one connection and that no NODE_LEAVING packet
\* named can be reached over it for as long as it is open and read, whatever
\* becomes of the connections of the others.
SoleConnectionRegistered ==
    \A k \in Conn :
        (loop[k] = "live" /\ wsN[k] /\ ~Contested(k)) =>
            (peer[k] \in DOMAIN registry /\ registry[peer[k]] = k)

\* While stop's list is being closed, and once stop has returned, a connection
\* that is open and not on the list lost its entry to another connection of
\* the same peer or to a NODE_LEAVING, or its receive loop to a malformed
\* packet, or was registered after stop had taken the list.
StopClosesRegistered ==
    server \in {"ending", "closed"} =>
        \A k \in Conn :
            wsN[k] => k \in closing \/ loop[k] = "done" \/ Contested(k) \/ k \in late

\* A registered connection that closed does not stay registered: a later
\* lookup of the peer finds nothing or a newer connection.
ClosedLeaves ==
    \A k \in Conn, p \in Peer :
        (p \in DOMAIN registry /\ registry[p] = k /\ ~wsN[k])
            ~> ~(p \in DOMAIN registry /\ registry[p] = k)

\* transport.py:7 "After auth: connection registered in ConnectionRegistry",
\* read as what callers of get rely on: a peer that no NODE_LEAVING named and
\* that has an open connection which is being read has an entry.
LiveIsRegistered ==
    \A k \in Conn :
        (loop[k] = "live" /\ wsN[k] /\ peer[k] \notin left) =>
            peer[k] \in DOMAIN registry
=============================================================================
