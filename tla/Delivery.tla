------------------------------ MODULE Delivery ------------------------------
(***************************************************************************)
(* Message delivery on one Nevod node: the packet handlers of node/node.py *)
(* for MSG and CELL_REGISTER, send_message and register_cell_locally, and  *)
(* all of node/router.py, over the connections of Transport and the tables *)
(* of MessageBuffer.                                                       *)
(*                                                                         *)
(* Each connection runs its handlers one at a time, in its receive loop;   *)
(* each API caller runs its own.  Handlers interleave wherever the code    *)
(* awaits the database or the network, and pc[t] names the await that      *)
(* handler t is at.  A send is two steps: the connection is looked up and  *)
(* then written to, possibly behind other writers, and the write completes *)
(* later, when the transport's buffer has drained or the connection died.  *)
(*                                                                         *)
(* The other nodes are only seen through the connections: whether one has  *)
(* an online row in node_table and answers a dial is a free choice.        *)
(***************************************************************************)
EXTENDS Transport, MessageBuffer, Sequences, FiniteSets

CONSTANTS
    Cell,        \* cell ids
    LocalCell,   \* the cells that the embedder registers itself
    Node,        \* ids of the other nodes
    Me,          \* this node's id
    Api,         \* callers of the node's API
    Msg,         \* packets of type MSG, each with its own id
    Dest,        \* Dest[m]: the cell, or for node-to-node packets the node, of m
    None,
    Rows,        \* presence rows that may be there at the start
    HasHandler,  \* the embedder gave Node an on_message callback
    Events,      \* environment events that occur: subset of AllEvents
    MaxMessages  \* bound: how many messages of Msg the node gets to see

AllEvents == {"close", "crash", "clock", "leave", "malformed", "raise"}

ASSUME DeliveryAssumption ==
    /\ Peer = Cell \cup Node
    /\ LocalCell \subseteq Cell
    /\ Me \notin Peer
    /\ Dest \in [Msg -> Cell \cup Node \cup {Me}]
    /\ HasHandler \in BOOLEAN
    /\ Events \subseteq AllEvents
    /\ MaxMessages \in Nat
    /\ Api \cap Conn = {}

Thread == Conn \cup Api
Host == Node \cup {Me}

\* A row of presence_table.
Presence == [home : Host, visiting : Host \cup {None}]

ASSUME RowsAssumption == Rows \subseteq Presence

\* None is no id and no row.
ASSUME NoneAssumption == None \notin Cell \cup Host \cup Msg \cup Conn \cup Presence

VARIABLES
    cells,      \* keys of the cells table
    presence,   \* presence_table
    buffer,     \* message_buffer
    h,          \* h[t]: the handler that thread t is running
    regd,       \* connections whose cell has sent its CELL_REGISTER
    submitted,  \* messages that entered the node
    sent,       \* sent[m]: how often m was written, counted up to twice (history)
    fate        \* fate[m]: what else happened to m (history)

tableVars == <<cells, presence, buffer>>
historyVars == <<submitted, sent, fate>>
vars == <<transportVars, tableVars, h, regd, historyVars>>

\* The nodes that route tries, in order: at most two.
Routes == {<<>>} \cup {<<x>> : x \in Host} \cup {<<x, y>> : x, y \in Host}

\* The state of a handler: the cell it registers (None in a MSG handler), the
\* snapshot its flush has left, the message it routes, the nodes left to try
\* and the connection it is sending on.
Handler ==
    [pc   : {"idle", "register", "announce", "collect", "flush", "presence",
             "lookup", "try", "send", "drain", "dial", "dialSend", "dialDrain",
             "buffer", "delete"},
     reg  : Cell \cup {None},
     todo : SUBSET Msg,
     msg  : Msg \cup {None},
     try  : Routes,
     via  : Conn \cup {None}]

Idle ==
    [pc |-> "idle", reg |-> None, todo |-> {}, msg |-> None, try |-> <<>>, via |-> None]

\* What the properties need to know of the past of a message: the callback
\* took it; it had no recipient, none that could be reached, or the callback
\* raised; it was being routed when the process died; it was written and the
\* write reported as failed, or two flushes had it; it was buffered after its
\* cell registered, or left in the buffer by a flush that was broken off.
Fate == {"buffered", "expired", "handed", "given up", "crashed", "doubtful", "late"}

TypeOK ==
    /\ TransportTypeOK
    /\ cells \subseteq Cell
    /\ IsTable(presence, Cell, Presence)
    /\ IsTable(buffer, Msg, 0 .. TtlMessage)
    /\ h \in [Thread -> Handler]
    /\ regd \subseteq Conn
    /\ submitted \subseteq Msg
    /\ sent \in [Msg -> 0 .. 2]
    /\ fate \in [Msg -> SUBSET Fate]

Recipients == {Dest[m] : m \in Msg} \cap Cell

\* The tables hold what earlier registrations left: a home cell of this node
\* has a row in cells; the presence of other cells, or of a home cell that
\* visits another node, was set by the embedder with update_presence.
\* Bound: there are no rows yet for cells that no message is for.
Init ==
    /\ TransportInit
    /\ cells \in SUBSET Recipients
    /\ \E K \in SUBSET Recipients : presence \in [K -> Rows]
    /\ \A c \in DOMAIN presence : presence[c].home = Me => c \in cells
    /\ buffer = EmptyTable
    /\ h = [t \in Thread |-> Idle]
    /\ regd = {}
    /\ submitted = {}
    /\ sent = [m \in Msg |-> 0]
    /\ fate = [m \in Msg |-> {}]
-----------------------------------------------------------------------------
Become(t, r) == h' = [h EXCEPT ![t] = r]

Goto(t, pc) == Become(t, [h[t] EXCEPT !.pc = pc])

\* Adds the events F to the history of message m, or of every message of M.
Note(m, F) == fate' = [fate EXCEPT ![m] = @ \cup F]
NoteAll(M, f) == fate' = [m \in Msg |-> IF m \in M THEN fate[m] \cup {f} ELSE fate[m]]

\* route returns: to flush_buffer, which deletes the row, or to the caller.
Returned(r) ==
    IF r.reg = None THEN Idle
    ELSE [r EXCEPT !.pc = "delete", !.try = <<>>, !.via = None]

\* _send_to_node returned False: the next node is tried; after the last one a
\* cell's message is buffered and a node-to-node message is given up.
GivenUp(r) == Len(r.try) = 1 /\ Dest[r.msg] \notin Cell

\* Mutant of NodeMissed: route gives up after the last node.
NodeMissedNoBuffer(r) ==
    IF Len(r.try) = 1 THEN Returned(r)
    ELSE [r EXCEPT !.pc = "try", !.try = Tail(@), !.via = None]

NodeMissed(r) ==
    IF GivenUp(r) THEN Returned(r)
    ELSE [r EXCEPT !.pc = IF Len(r.try) = 1 THEN "buffer" ELSE "try",
                   !.try = Tail(@), !.via = None]

\* send_to returned False.  For another node a dial follows; here, the
\* on_message callback takes the message or, without one, it is dropped, and
\* _send_to_node returns True all the same.
Local(r) == Head(r.try) = Me

Unsent(r) ==
    IF Local(r) THEN Returned(r)
    ELSE [r EXCEPT !.pc = "dial", !.via = None]

Handed(r) == IF Local(r) /\ HasHandler THEN {"handed"} ELSE {}

\* The frame of t's message is written to its connection.
Write(t) ==
    /\ wsN[h[t].via]
    /\ sent' = [sent EXCEPT ![h[t].msg] = IF @ < 2 THEN @ + 1 ELSE @]

\* A send reported as failed after its frame was written: the peer may have it.
Doubt(r) == IF r.pc \in {"drain", "dialDrain"} THEN {"doubtful"} ELSE {}
-----------------------------------------------------------------------------
\* Message m enters the node.
Submit(m) ==
    /\ m \notin submitted
    /\ Cardinality(submitted) < MaxMessages
    /\ submitted' = submitted \cup {m}

\* A MSG packet arrives on connection k, from a cell or from another node.
RecvMsg(k, m) ==
    /\ loop[k] = "live"
    /\ h[k] = Idle
    /\ Submit(m)
    /\ Become(k, IF Dest[m] \in Cell
                 THEN [Idle EXCEPT !.pc = "presence", !.msg = m]
                 ELSE [Idle EXCEPT !.pc = "try", !.msg = m, !.try = <<Dest[m]>>])
    /\ UNCHANGED <<transportVars, tableVars, regd, sent, fate>>

\* send_message: the recipient's key is looked up, then the packet is routed.
SendMessage(u, m) ==
    /\ h[u] = Idle
    /\ get_cell(cells, Dest[m])
    /\ Submit(m)
    /\ Become(u, [Idle EXCEPT !.pc = "presence", !.msg = m])
    /\ UNCHANGED <<transportVars, tableVars, regd, sent, fate>>

\* The CELL_REGISTER that CellClient.connect sends first on its connection.
\* One for a cell that is not the proven peer is ignored.
RecvRegister(k, c) ==
    /\ loop[k] = "live"
    /\ h[k] = Idle
    /\ k \notin regd
    /\ c = peer[k]
    /\ regd' = regd \cup {k}
    /\ Become(k, [Idle EXCEPT !.pc = "register", !.reg = c])
    /\ UNCHANGED <<transportVars, tableVars, historyVars>>

\* register_cell_locally is called by the embedder.
RegisterCellLocally(u, c) ==
    /\ h[u] = Idle
    /\ Become(u, [Idle EXCEPT !.pc = "register", !.reg = c])
    /\ UNCHANGED <<transportVars, tableVars, regd, historyVars>>

\* storage.register_cell
RegisterCell(t) ==
    /\ h[t].pc = "register"
    /\ cells' = cells \cup {h[t].reg}
    /\ Goto(t, "announce")
    /\ UNCHANGED <<transportVars, presence, buffer, regd, historyVars>>

\* Mutant of UpdatePresence: nothing is flushed.
UpdatePresenceNoFlush(t) ==
    /\ h[t].pc = "announce"
    /\ presence' = update_presence(presence, h[t].reg, Me, None)
    /\ Become(t, Idle)
    /\ UNCHANGED <<transportVars, cells, buffer, regd, historyVars>>

\* update_presence makes this node the cell's home; only a CELL_REGISTER is
\* followed by a flush.
UpdatePresence(t) ==
    /\ h[t].pc = "announce"
    /\ presence' = update_presence(presence, h[t].reg, Me, None)
    /\ IF t \in Conn THEN Goto(t, "collect") ELSE Become(t, Idle)
    /\ UNCHANGED <<transportVars, cells, buffer, regd, historyVars>>

\* flush_buffer takes its snapshot of the buffer.
CollectBuffered(t) ==
    /\ h[t].pc = "collect"
    /\ LET rows == get_buffered(buffer, Dest, h[t].reg)
       IN  /\ Become(t, [h[t] EXCEPT !.pc = "flush", !.todo = rows])
           /\ NoteAll({m \in rows : \E o \in Thread \ {t} : m \in h[o].todo}, "doubtful")
    /\ UNCHANGED <<transportVars, tableVars, regd, submitted, sent>>

\* Mutant of FlushNext: the row is deleted before the message is routed.
FlushNextDeletes(t, m) ==
    /\ h[t].pc = "flush"
    /\ m \in h[t].todo
    /\ buffer' = delete_buffered(buffer, m)
    /\ Become(t, [h[t] EXCEPT !.pc = "presence", !.msg = m])
    /\ UNCHANGED <<transportVars, cells, presence, regd, historyVars>>

FlushNext(t, m) ==
    /\ h[t].pc = "flush"
    /\ m \in h[t].todo
    /\ Become(t, [h[t] EXCEPT !.pc = "presence", !.msg = m])
    /\ UNCHANGED <<transportVars, tableVars, regd, historyVars>>

FlushDone(t) ==
    /\ h[t].pc = "flush"
    /\ h[t].todo = {}
    /\ Become(t, Idle)
    /\ UNCHANGED <<transportVars, tableVars, regd, historyVars>>

\* Mutant of DeleteBuffered: the row of a flushed message stays.
DeleteBufferedKeepsRow(t) ==
    /\ h[t].pc = "delete"
    /\ Become(t, [h[t] EXCEPT !.pc = "flush", !.msg = None,
                              !.todo = @ \ {h[t].msg}])
    /\ UNCHANGED <<transportVars, tableVars, regd, historyVars>>

\* Mutant of DeleteBuffered: the flush does not go on to the next message.
DeleteBufferedKeepsTodo(t) ==
    /\ h[t].pc = "delete"
    /\ buffer' = delete_buffered(buffer, h[t].msg)
    /\ Become(t, [h[t] EXCEPT !.pc = "flush", !.msg = None])
    /\ UNCHANGED <<transportVars, cells, presence, regd, historyVars>>

\* delete_buffered, whatever became of the message.
DeleteBuffered(t) ==
    /\ h[t].pc = "delete"
    /\ buffer' = delete_buffered(buffer, h[t].msg)
    /\ Become(t, [h[t] EXCEPT !.pc = "flush", !.msg = None,
                              !.todo = @ \ {h[t].msg}])
    /\ UNCHANGED <<transportVars, cells, presence, regd, historyVars>>
-----------------------------------------------------------------------------
\* route reads the recipient's presence: the visiting node first, then home.
GetPresence(t) ==
    /\ h[t].pc = "presence"
    /\ LET row == get_presence(presence, Dest[h[t].msg], None)
       IN  IF row = None
           THEN Goto(t, "lookup")
           ELSE Become(t, [h[t] EXCEPT
                    !.pc = "try",
                    !.try = IF row.visiting = None THEN <<row.home>>
                            ELSE <<row.visiting, row.home>>])
    /\ UNCHANGED <<transportVars, tableVars, regd, historyVars>>

\* Without presence: a known cell is delivered to here, another is dropped.
GetCell(t) ==
    /\ h[t].pc = "lookup"
    /\ IF get_cell(cells, Dest[h[t].msg])
       THEN /\ Become(t, [h[t] EXCEPT !.pc = "try", !.try = <<Me>>])
            /\ UNCHANGED fate
       ELSE /\ Become(t, Returned(h[t]))
            /\ Note(h[t].msg, {"given up"})
    /\ UNCHANGED <<transportVars, tableVars, regd, submitted, sent>>

\* send_to looks for the connection: the cell's own on this node, else the
\* next node's.
Addressee(r) == IF Local(r) THEN Dest[r.msg] ELSE Head(r.try)

\* Mutant of SendTo: without a connection to the addressee, any will do.
SendToAnyone(t) ==
    /\ h[t].pc = "try"
    /\ IF DOMAIN registry # {}
       THEN /\ \E p \in DOMAIN registry :
                 Become(t, [h[t] EXCEPT !.pc = "send", !.via = registry[p]])
            /\ UNCHANGED fate
       ELSE /\ Become(t, Unsent(h[t]))
            /\ Note(h[t].msg, Handed(h[t]))
    /\ UNCHANGED <<transportVars, tableVars, regd, submitted, sent>>

SendTo(t) ==
    /\ h[t].pc = "try"
    /\ LET p == Addressee(h[t])
       IN  IF p \in DOMAIN registry
           THEN /\ Become(t, [h[t] EXCEPT !.pc = "send", !.via = registry[p]])
                /\ UNCHANGED fate
           ELSE /\ Become(t, Unsent(h[t]))
                /\ Note(h[t].msg, Handed(h[t]))
    /\ UNCHANGED <<transportVars, tableVars, regd, submitted, sent>>

SendWrites(t) ==
    /\ h[t].pc = "send"
    /\ Write(t)
    /\ Goto(t, "drain")
    /\ UNCHANGED <<transportVars, tableVars, regd, submitted, fate>>

\* send_to saw ConnectionClosed, before or after the frame was written.
SendToFails(t) ==
    /\ h[t].pc \in {"send", "drain"}
    /\ SendFails(h[t].via)
    /\ Become(t, Unsent(h[t]))
    /\ Note(h[t].msg, Handed(h[t]) \cup Doubt(h[t]))
    /\ UNCHANGED <<tableVars, regd, submitted, sent>>

\* The on_message callback raises, and _deliver_local with it: the handler is
\* over, a flush too, with its row and the rows after it still there.
CallbackRaises(t) ==
    /\ "raise" \in Events
    /\ HasHandler
    /\ \/ /\ h[t].pc = "try"
          /\ Addressee(h[t]) \notin DOMAIN registry
          /\ UNCHANGED transportVars
       \/ /\ h[t].pc \in {"send", "drain"}
          /\ SendFails(h[t].via)
    /\ Local(h[t])
    /\ Become(t, Idle)
    /\ fate' = [m \in Msg |->
                  fate[m] \cup (IF m = h[t].msg THEN {"given up"} \cup Doubt(h[t]) ELSE {})
                          \cup (IF m \in h[t].todo THEN {"late"} ELSE {})]
    /\ UNCHANGED <<tableVars, regd, submitted, sent>>

\* The write completes: send_to or send_via returns.
SendReturns(t) ==
    /\ h[t].pc \in {"drain", "dialDrain"}
    /\ Become(t, Returned(h[t]))
    /\ UNCHANGED <<transportVars, tableVars, regd, historyVars>>

\* connect_to_node succeeds on connection k, which is registered.
DialSucceeds(t, k) ==
    /\ h[t].pc = "dial"
    /\ peer[k] = Head(h[t].try)
    /\ Dial(k)
    /\ Become(t, [h[t] EXCEPT !.pc = "dialSend", !.via = k])
    /\ UNCHANGED <<tableVars, regd, historyVars>>

\* The node has no online row in node_table, or cannot be connected to.
DialFails(t) ==
    /\ h[t].pc = "dial"
    /\ Become(t, NodeMissed(h[t]))
    /\ Note(h[t].msg, IF GivenUp(h[t]) THEN {"given up"} ELSE {})
    /\ UNCHANGED <<transportVars, tableVars, regd, submitted, sent>>

SendViaWrites(t) ==
    /\ h[t].pc = "dialSend"
    /\ Write(t)
    /\ Goto(t, "dialDrain")
    /\ UNCHANGED <<transportVars, tableVars, regd, submitted, fate>>

\* send_via raises; the router catches it and leaves the registry alone.
SendViaFails(t) ==
    /\ h[t].pc \in {"dialSend", "dialDrain"}
    /\ ~wsN[h[t].via]
    /\ Become(t, NodeMissed(h[t]))
    /\ Note(h[t].msg, Doubt(h[t])
                        \cup IF GivenUp(h[t]) THEN {"given up"} ELSE {})
    /\ UNCHANGED <<transportVars, tableVars, regd, submitted, sent>>

\* The cell registered here after route had read its presence.
Raced(m) ==
    Dest[m] \in DOMAIN presence /\ presence[Dest[m]] = [home |-> Me, visiting |-> None]

\* Neither node could be reached: buffer_message.
BufferMessage(t) ==
    /\ h[t].pc = "buffer"
    /\ buffer' = buffer_message(buffer, h[t].msg)
    /\ Note(h[t].msg, {"buffered"} \cup IF Raced(h[t].msg) THEN {"late"} ELSE {})
    /\ Become(t, Returned(h[t]))
    /\ UNCHANGED <<transportVars, cells, presence, regd, submitted, sent>>
-----------------------------------------------------------------------------
restVars == <<tableVars, h, regd, historyVars>>

\* A cell or another node connects and authenticates.
PeerConnects(k) ==
    /\ Accept(k)
    /\ UNCHANGED restVars

ConnCloses(k) ==
    /\ "close" \in Events
    /\ WsCloses(k)
    /\ UNCHANGED restVars

\* A receive loop ends only between two handlers.
LoopStops(k) ==
    /\ h[k] = Idle
    /\ LoopEnds(k)
    /\ UNCHANGED restVars

MalformedPacket(k) ==
    /\ "malformed" \in Events
    /\ h[k] = Idle
    /\ UnpackFails(k)
    /\ UNCHANGED restVars

\* A NODE_LEAVING from any peer, a cell too, naming any id as its sender.
NodeLeaves(k, p) ==
    /\ "leave" \in Events
    /\ h[k] = Idle
    /\ PeerLeaves(k, p)
    /\ UNCHANGED restVars

\* The process dies and is started again on the same database.
Crash ==
    /\ "crash" \in Events
    /\ Die
    /\ h' = [t \in Thread |-> Idle]
    /\ NoteAll({m \in Msg : \E t \in Thread : h[t].msg = m}, "crashed")
    /\ UNCHANGED <<tableVars, regd, submitted, sent>>

Tick ==
    /\ "clock" \in Events
    /\ buffer' = AgeMessages(buffer)
    /\ UNCHANGED <<transportVars, cells, presence, h, regd, historyVars>>

\* The gossip round's cleanup_expired_messages.
Cleanup ==
    /\ ExpiredMessages(buffer) # {}
    /\ buffer' = cleanup_expired_messages(buffer)
    /\ NoteAll(ExpiredMessages(buffer), "expired")
    /\ UNCHANGED <<transportVars, cells, presence, h, regd, submitted, sent>>

\* Thread t's handler takes its next step.
Advance(t) ==
    \/ RegisterCell(t)
    \/ UpdatePresence(t)
    \/ CollectBuffered(t)
    \/ \E m \in Msg : FlushNext(t, m)
    \/ FlushDone(t)
    \/ DeleteBuffered(t)
    \/ GetPresence(t)
    \/ GetCell(t)
    \/ SendTo(t)
    \/ SendWrites(t)
    \/ SendToFails(t)
    \/ CallbackRaises(t)
    \/ SendReturns(t)
    \/ \E k \in Conn : DialSucceeds(t, k)
    \/ DialFails(t)
    \/ SendViaWrites(t)
    \/ SendViaFails(t)
    \/ BufferMessage(t)

Next ==
    \/ \E t \in Thread : Advance(t)
    \/ \E k \in Conn, m \in Msg : RecvMsg(k, m)
    \/ \E k \in Conn, c \in Cell : RecvRegister(k, c)
    \/ \E u \in Api, m \in Msg : SendMessage(u, m)
    \/ \E u \in Api, c \in LocalCell : RegisterCellLocally(u, c)
    \/ \E k \in Conn :
         \/ PeerConnects(k)
         \/ ConnCloses(k)
         \/ LoopStops(k)
         \/ MalformedPacket(k)
         \/ \E p \in Peer : NodeLeaves(k, p)
    \/ Crash
    \/ Tick
    \/ Cleanup

\* asyncio runs every task that is ready, the database answers, a write ends
\* (the library's keepalive closes a connection whose peer is silent), and the
\* gossip engine's rounds recur.  A dial need not end: route sets no timeout
\* and _do_auth waits for the peer's packets as long as they take.
Spec ==
    /\ Init
    /\ [][Next]_vars
    /\ \A t \in Thread : WF_vars(h[t].pc # "dial" /\ Advance(t))
    /\ \A k \in Conn : WF_vars(LoopStops(k))
    /\ WF_vars(Cleanup)
-----------------------------------------------------------------------------
\* A message is only ever written to a connection of the cell it is for, or to
\* another node, however registrations, reconnections and sends interleave.
NoMisdelivery ==
    \A t \in Thread :
        h[t].via # None => peer[h[t].via] \in Node \cup {Dest[h[t].msg]}

\* A message is written twice only if two registrations of its cell flushed it
\* at the same time, a write was reported failed after the fact, or the
\* process died while it was being sent.
TwiceNeedsCause ==
    \A m \in Msg :
        sent[m] > 1 => fate[m] \cap {"doubtful", "crashed"} # {}

Excused == {m \in Msg : fate[m] \cap {"expired", "given up", "crashed"} # {}}

Delivered(m) == sent[m] > 0 \/ "handed" \in fate[m]

\* What router.py:8 promises, "If both unreachable -> buffer the message
\* (72h TTL)": a message the node took on is being routed, is in the buffer,
\* was passed on, expired, or was for nobody the node knows.
Accounted(m) ==
    \/ \E t \in Thread : h[t].msg = m
    \/ m \in DOMAIN buffer
    \/ Delivered(m)
    \/ m \in Excused

NoMessageVanishes == \A m \in submitted : Accounted(m)

\* A buffered message leaves the buffer only by being passed on or by
\* expiring: a crash in the middle of a flush loses nothing.
BufferedNotLost ==
    \A m \in Msg :
        "buffered" \in fate[m] =>
            (m \in DOMAIN buffer \/ Delivered(m) \/ "expired" \in fate[m])

\* A message stays in the buffer of a cell that is connected and registered
\* here only if route had read its presence before the registration, or the
\* embedder's callback broke off the flush.
StrandedNeedsCause ==
    \A k \in regd, m \in DOMAIN buffer :
        (loop[k] = "live" /\ peer[k] = Dest[m] /\ h[k].reg = None /\ buffer[m] > 0) =>
            "late" \in fate[m]

\* Delivery implements Mailbox: a message is in memory while a handler routes
\* it or has it in the snapshot of a flush.
InMemory(m) == \E t \in Thread : h[t].msg = m \/ m \in h[t].todo

Place ==
    [m \in Msg |-> IF m \in DOMAIN buffer THEN "stored"
                  ELSE IF InMemory(m) THEN "moving"
                  ELSE IF m \in submitted THEN "gone" ELSE "new"]

Box == INSTANCE Mailbox WITH place <- Place,
                             passed <- {m \in Msg : Delivered(m)},
                             excused <- Excused

\* Whatever handlers, faults and the clock do, the node keeps what Mailbox
\* promises: a message leaves memory and the database only when it was passed
\* on or given up for a reason.
ImplementsMailbox == Box!MailboxSafe

\* Every handler ends, and with it the receive loop is free for the next
\* packet, unless it is in a dial that never ends: no flush goes on for ever
\* and no handler waits for another.
HandlersFinish ==
    \A t \in Thread : []<>(h[t] = Idle) \/ <>[](h[t].pc = "dial")

\* Connection k is registered and closed.
Defunct(k) == ~wsN[k] /\ \E p \in DOMAIN registry : registry[p] = k

\* A registered connection that closed does not stay registered, unless the
\* handler in its own receive loop is in such a dial.
ClosedIsForgotten ==
    \A k \in Conn : []<>~Defunct(k) \/ <>[](h[k].pc = "dial")

\* A cell's CELL_REGISTER empties the buffer of what was in it for the cell.
RegistrationFlushes ==
    \A k \in Conn, m \in Msg :
        (m \in DOMAIN buffer /\ h[k].pc = "announce" /\ h[k].reg = Dest[m])
            ~> m \notin DOMAIN buffer
=============================================================================
