--------------------------- MODULE DeliveryProofs ---------------------------
(***************************************************************************)
(* Proofs about Delivery, for any number of cells, nodes, connections and  *)
(* messages, and with every fault of the environment.                      *)
(*                                                                         *)
(* The inductive invariant comes in layers.  DInv says what each handler   *)
(* knows at each of its awaits; above all, that the cell of a flush has    *)
(* this node as its home and visits no other, so that a flush never dials  *)
(* and never buffers.  On top of it, Held says who has a message and Once  *)
(* who may still write it, Passed what a handler that is done with a       *)
(* message has done (KeptInv adds what that gives), and Flushed what a     *)
(* registered connection leaves in the buffer.                             *)
(***************************************************************************)
EXTENDS Delivery, TransportProofs

-----------------------------------------------------------------------------
\* The awaits at which a handler has a connection to write to, those at which
\* it works on a node, and those at which it has a message.
Sending == {"send", "drain", "dialSend", "dialDrain"}
Trying == Sending \cup {"try", "dial"}
Routing == Trying \cup {"presence", "lookup", "buffer", "delete"}

\* The cell's presence names this node and no other.
HomeHere(c) ==
    c \in DOMAIN presence /\ presence[c] = [home |-> Me, visiting |-> None]

\* What is true of a handler wherever it waits.
MsgShape(r) ==
    /\ r.pc = "idle" => r = Idle
    /\ r.pc \in {"register", "announce", "collect", "flush"} => r.reg # None /\ r.msg = None
    /\ r.pc \in {"register", "announce", "collect"} => r.todo = {}
    /\ r.pc \in Routing => r.msg \in Msg
    /\ r.pc \in {"presence", "lookup", "buffer"} => Dest[r.msg] \in Cell

\* The nodes it has left to try and the connection it writes to.
TryShape(r) ==
    /\ r.pc \in Trying <=> r.try # <<>>
    /\ r.pc \in {"dial", "dialSend", "dialDrain"} => Head(r.try) # Me
    /\ r.pc \notin Sending => r.via = None
    /\ r.pc \in Sending => /\ r.via \in Conn
                           /\ Used(r.via)
                           /\ peer[r.via] = Addressee(r)

\* The handler of a MSG packet has no snapshot; that of a CELL_REGISTER only
\* routes messages of its snapshot, and only to its own cell here.
FlushShape(r) ==
    /\ r.reg = None => r.todo = {} /\ r.pc # "delete"
    /\ r.reg # None =>
         /\ r.pc \notin {"lookup", "dial", "dialSend", "dialDrain", "buffer"}
         /\ r.msg # None => r.msg \in r.todo
         /\ \A m \in r.todo : Dest[m] = r.reg
         /\ r.pc \in Trying => r.try = <<Me>>
         /\ r.pc \notin {"register", "announce"} => HomeHere(r.reg)

Shape(r) == MsgShape(r) /\ TryShape(r) /\ FlushShape(r)

DInv ==
    /\ TypeOK
    /\ RegistrySound
    /\ \A t \in Thread : Shape(h[t])

\* Who has message m.  Before it is buffered, one handler; afterwards flushes
\* only, and when two have it, it is marked.
Held ==
    /\ \A m \in Msg : "buffered" \in fate[m] => m \in submitted
    /\ \A t \in Thread, m \in Msg :
         h[t].reg = None /\ h[t].msg = m =>
             /\ m \in submitted
             /\ "buffered" \notin fate[m]
             /\ \A o \in Thread : h[o].msg = m => o = t
    /\ \A m \in DOMAIN buffer : "buffered" \in fate[m]
    /\ \A t \in Thread : \A m \in h[t].todo : "buffered" \in fate[m]
    /\ \A t, o \in Thread : \A m \in h[t].todo \cap h[o].todo :
         t # o => "doubtful" \in fate[m]

Clean(m) == fate[m] \cap {"doubtful", "crashed"} = {}

\* Where a message waits before it is written.
Unwritten == {"presence", "lookup", "try", "send", "dial", "dialSend", "buffer"}

\* How often a message without a cause to repeat was written.
Once ==
    \A m \in Msg : Clean(m) =>
        /\ sent[m] <= 1
        /\ m \notin submitted => sent[m] = 0
        /\ \A t \in Thread :
             /\ h[t].msg = m /\ h[t].pc \in Unwritten => sent[m] = 0
             /\ m \in h[t].todo /\ h[t].msg # m => sent[m] = 0
        /\ m \in DOMAIN buffer /\ sent[m] > 0 =>
             \E t \in Thread :
                 h[t].reg # None /\ h[t].msg = m /\ h[t].pc \in {"drain", "delete"}

\* What was passed on before its row is deleted.
Passed ==
    \A t \in Thread :
        /\ h[t].pc \in {"drain", "dialDrain"} => sent[h[t].msg] > 0
        /\ h[t].pc = "delete" => Delivered(h[t].msg)

\* A connection that has registered is done with the buffer of its cell, but
\* for the rows of its snapshot.
Flushed ==
    /\ \A k \in Conn : h[k].reg # None => h[k].reg = peer[k]
    /\ \A k \in regd :
         /\ Used(k)
         /\ (loop[k] = "live" /\ h[k].pc \notin {"register", "announce"}) => HomeHere(peer[k])
         /\ \A m \in DOMAIN buffer :
              (/\ loop[k] = "live" /\ peer[k] = Dest[m] /\ buffer[m] > 0
               /\ h[k].pc \notin {"register", "announce", "collect"}) =>
                  "late" \in fate[m] \/ m \in h[k].todo
-----------------------------------------------------------------------------
\* What the nodes left to try may look like.
LEMMA RouteBuilt ==
    <<>> \in Routes /\ \A x, y \in Host : <<x>> \in Routes /\ <<x, y>> \in Routes
BY DEF Routes

LEMMA RouteLeft ==
    ASSUME NEW s \in Routes, s # <<>>
    PROVE  /\ Head(s) \in Host
           /\ Len(s) \in {1, 2}
           /\ Len(s) = 1 => Tail(s) = <<>>
           /\ Len(s) = 2 => Tail(s) # <<>>
           /\ Tail(s) \in Routes
<1>1. CASE \E x \in Host : s = <<x>>
    BY <1>1 DEF Routes
<1>2. CASE \E x, y \in Host : s = <<x, y>>
    BY <1>2 DEF Routes
<1> QED
    BY <1>1, <1>2 DEF Routes

LEMMA IdleOK == Idle \in Handler /\ Shape(Idle)
<1>1. Idle \in Handler
    BY RouteBuilt DEF Idle, Handler
<1>2. MsgShape(Idle)
    BY DEF Idle, MsgShape, Routing, Trying, Sending
<1>3. TryShape(Idle) /\ FlushShape(Idle)
    BY DEF Idle, TryShape, FlushShape, Trying, Sending
<1> QED
    BY <1>1, <1>2, <1>3 DEF Shape

\* A handler stays well formed where route returns to its caller,
LEMMA ReturnedOK ==
    ASSUME NEW r \in Handler, Shape(r), r.pc \in Routing
    PROVE  Returned(r) \in Handler /\ Shape(Returned(r))
<1>1. CASE r.reg = None
    BY <1>1, IdleOK DEF Returned
<1>2. CASE r.reg # None
  <2> DEFINE q == [r EXCEPT !.pc = "delete", !.try = <<>>, !.via = None]
  <2>1. /\ q.pc = "delete" /\ q.reg = r.reg /\ q.todo = r.todo /\ q.msg = r.msg
        /\ q.try = <<>> /\ q.via = None /\ q \in Handler
      BY RouteBuilt DEF Handler
  <2> HIDE DEF q
  <2>2. MsgShape(q)
      BY <2>1 DEF Shape, MsgShape, Routing, Trying, Sending
  <2>3. TryShape(q)
      BY <2>1 DEF Shape, TryShape, Trying, Sending
  <2>4. FlushShape(q)
      BY <1>2, <2>1 DEF Shape, FlushShape, Routing, Trying, Sending
  <2> QED
      BY <1>2, <2>1, <2>2, <2>3, <2>4 DEF Shape, Returned, q
<1> QED
    BY <1>1, <1>2

\* where send_to returned False,
LEMMA UnsentOK ==
    ASSUME NEW r \in Handler, Shape(r), r.pc \in {"try", "send", "drain"}
    PROVE  Unsent(r) \in Handler /\ Shape(Unsent(r))
<1>1. CASE Local(r)
    BY <1>1, ReturnedOK DEF Unsent, Routing, Trying, Sending
<1>2. CASE ~Local(r)
  <2> DEFINE q == [r EXCEPT !.pc = "dial", !.via = None]
  <2>1. /\ q.pc = "dial" /\ q.reg = r.reg /\ q.todo = r.todo /\ q.msg = r.msg
        /\ q.try = r.try /\ q.via = None /\ q \in Handler
      BY DEF Handler
  <2>2. r.reg = None /\ r.try # <<>>
      BY <1>2 DEF Shape, FlushShape, TryShape, Trying, Sending, Local
  <2> HIDE DEF q
  <2>3. MsgShape(q)
      BY <2>1 DEF Shape, MsgShape, Routing, Trying, Sending
  <2>4. TryShape(q)
      BY <1>2, <2>1, <2>2 DEF TryShape, Trying, Sending, Local
  <2>5. FlushShape(q)
      BY <2>1, <2>2 DEF Shape, FlushShape
  <2> QED
      BY <1>2, <2>1, <2>3, <2>4, <2>5 DEF Shape, Unsent, q
<1> QED
    BY <1>1, <1>2

\* and where a dial or the write after it failed.
LEMMA NodeMissedOK ==
    ASSUME NEW r \in Handler, Shape(r), r.pc \in {"dial", "dialSend", "dialDrain"}
    PROVE  NodeMissed(r) \in Handler /\ Shape(NodeMissed(r))
<1>1. CASE GivenUp(r)
    BY <1>1, ReturnedOK DEF NodeMissed, Routing, Trying, Sending
<1>2. CASE ~GivenUp(r)
  <2> DEFINE pc == IF Len(r.try) = 1 THEN "buffer" ELSE "try"
             q == [r EXCEPT !.pc = pc, !.try = Tail(@), !.via = None]
  <2>1. r.reg = None /\ r.try # <<>> /\ r.msg \in Msg
      BY DEF Shape, FlushShape, TryShape, MsgShape, Routing, Trying, Sending
  <2>2. Tail(r.try) \in Routes /\ r.try \in Routes
      BY <2>1, RouteLeft DEF Handler
  <2>3. pc \in {"buffer", "try"} /\ (pc = "try" <=> Tail(r.try) # <<>>)
      BY <2>1, <2>2, RouteLeft
  <2>4. pc = "buffer" => Dest[r.msg] \in Cell
      BY <1>2, <2>1, <2>2, RouteLeft DEF GivenUp
  <2> HIDE DEF pc
  <2>5. /\ q.pc = pc /\ q.reg = r.reg /\ q.todo = r.todo /\ q.msg = r.msg
        /\ q.try = Tail(r.try) /\ q.via = None /\ q \in Handler
      BY <2>2, <2>3 DEF Handler
  <2>6. NodeMissed(r) = q
      BY <1>2 DEF NodeMissed, pc
  <2> HIDE DEF q
  <2>7. MsgShape(q)
      BY <2>1, <2>3, <2>4, <2>5 DEF MsgShape
  <2>8. TryShape(q)
      BY <2>3, <2>5 DEF TryShape, Trying, Sending
  <2>9. FlushShape(q)
      BY <2>1, <2>3, <2>5 DEF Shape, FlushShape
  <2> QED
      BY <2>5, <2>6, <2>7, <2>8, <2>9 DEF Shape
<1> QED
    BY <1>1, <1>2

-----------------------------------------------------------------------------
\* Every step of a handler or of the environment is a step of the transport, or
\* leaves its state alone.
LEMMA StepTransport == DInv /\ [Next]_vars => [TransportNext]_transportVars
<1> SUFFICES ASSUME DInv, [Next]_vars PROVE [TransportNext]_transportVars
    OBVIOUS
<1>1. ASSUME NEW t \in Thread, Advance(t) PROVE [TransportNext]_transportVars
  <2>1. ASSUME h[t].pc \in {"send", "drain"}, SendFails(h[t].via) PROVE TransportNext
    <3>1. h[t].via \in Conn
        BY <2>1 DEF DInv, Shape, TryShape, Sending
    <3> QED
        BY <2>1, <3>1 DEF TransportNext
  <2>2. ASSUME NEW k \in Conn, DialSucceeds(t, k) PROVE TransportNext
      BY <2>2 DEF DialSucceeds, TransportNext
  <2>3. ASSUME SendToFails(t) \/ CallbackRaises(t) PROVE [TransportNext]_transportVars
      BY <2>1, <2>3 DEF SendToFails, CallbackRaises
  <2> QED
      BY <1>1, <2>2, <2>3
         DEF Advance, RegisterCell, UpdatePresence, CollectBuffered, FlushNext, FlushDone,
             DeleteBuffered, GetPresence, GetCell, SendTo, SendWrites, SendReturns,
             DialFails, SendViaWrites, SendViaFails, BufferMessage
<1>2. ASSUME NEW k \in Conn,
             PeerConnects(k) \/ ConnCloses(k) \/ LoopStops(k) \/ MalformedPacket(k)
                 \/ \E p \in Peer : NodeLeaves(k, p)
      PROVE  TransportNext
    BY <1>2 DEF PeerConnects, ConnCloses, LoopStops, MalformedPacket, NodeLeaves,
                TransportNext
<1>3. CASE Crash
    BY <1>3 DEF Crash, TransportNext
<1> QED
    BY <1>1, <1>2, <1>3
       DEF Next, RecvMsg, RecvRegister, SendMessage, RegisterCellLocally, Tick, Cleanup, vars

\* What no step of the transport changes.
LEMMA TransportKeeps ==
    ASSUME TransportTypeOK, [TransportNext]_transportVars
    PROVE  /\ peer' = peer
           /\ \A k \in Conn : Used(k) => Used(k)'
<1> USE DEF TransportTypeOK, Used
<1>1. ASSUME NEW k \in Conn, Accept(k) \/ Dial(k)
      PROVE  peer' = peer /\ \A j \in Conn : Used(j) => Used(j)'
    BY <1>1 DEF Accept, Dial, Register
<1>2. ASSUME NEW k \in Conn, LoopEnds(k) \/ UnpackFails(k)
      PROVE  peer' = peer /\ \A j \in Conn : Used(j) => Used(j)'
    BY <1>2 DEF LoopEnds, UnpackFails, LoopLeaves
<1>3. ASSUME NEW k \in Conn, WsCloses(k) \/ SendFails(k) \/ StopCloses(k)
                 \/ \E p \in Peer : PeerLeaves(k, p)
      PROVE  peer' = peer /\ \A j \in Conn : Used(j) => Used(j)'
    BY <1>3 DEF WsCloses, SendFails, PeerLeaves, StopCloses
<1>4. ASSUME ServerCloses \/ StopCollects \/ StopReturns \/ UNCHANGED transportVars
      PROVE  peer' = peer /\ \A j \in Conn : Used(j) => Used(j)'
    BY <1>4 DEF ServerCloses, StopCollects, StopReturns, transportVars
<1>5. ASSUME Die
      PROVE  peer' = peer /\ \A j \in Conn : Used(j) => Used(j)'
    BY <1>5 DEF Die
<1> QED
    BY <1>1, <1>2, <1>3, <1>4, <1>5 DEF TransportNext

\* A handler that does not move stays well formed,
LEMMA Unmoved ==
    ASSUME DInv, peer' = peer, \A k \in Conn : Used(k) => Used(k)',
           \A c \in Cell : HomeHere(c) => HomeHere(c)',
           NEW o \in Thread, h'[o] = h[o]
    PROVE  h'[o] \in Handler /\ Shape(h[o])'
<1> USE DEF DInv, Shape
<1>1. h[o] \in Handler /\ h[o].reg \in Cell \cup {None}
    BY DEF TypeOK, Handler
<1>2. MsgShape(h[o])'
    BY DEF MsgShape
<1>3. TryShape(h[o])'
    BY DEF TryShape, Addressee, Local
<1>4. FlushShape(h[o])'
    BY <1>1 DEF FlushShape
<1> QED
    BY <1>1, <1>2, <1>3, <1>4

\* and so do all when one of them becomes r.
LEMMA Moved ==
    ASSUME DInv, peer' = peer, \A k \in Conn : Used(k) => Used(k)', presence' = presence,
           NEW t \in Thread, NEW r \in Handler, Shape(r), Become(t, r)
    PROVE  h' \in [Thread -> Handler] /\ \A o \in Thread : Shape(h[o])'
<1>1. h' = [h EXCEPT ![t] = r] /\ h \in [Thread -> Handler] /\ h'[t] = r
    BY DEF Become, DInv, TypeOK
<1>2. ASSUME NEW o \in Thread, o # t PROVE Shape(h[o])'
    BY <1>1, <1>2, Unmoved DEF HomeHere
<1>3. Shape(h[t])'
  <2>1. MsgShape(h[t])'
      BY <1>1 DEF Shape, MsgShape
  <2>2. TryShape(h[t])'
      BY <1>1 DEF Shape, TryShape, Addressee, Local
  <2>3. FlushShape(h[t])'
      BY <1>1 DEF Shape, FlushShape, HomeHere
  <2> QED
      BY <2>1, <2>2, <2>3 DEF Shape
<1> QED
    BY <1>1, <1>2, <1>3

-----------------------------------------------------------------------------
\* What a handler becomes is well formed: the handlers that begin,
LEMMA BeginOK ==
    ASSUME NEW pc \in {"presence", "register", "try"}, NEW r,
           \/ /\ pc = "presence"
              /\ \E m \in Msg : Dest[m] \in Cell /\ r = [Idle EXCEPT !.pc = pc, !.msg = m]
           \/ /\ pc = "register"
              /\ \E c \in Cell : r = [Idle EXCEPT !.pc = pc, !.reg = c]
           \/ /\ pc = "try"
              /\ \E m \in Msg : /\ Dest[m] \notin Cell
                                /\ r = [Idle EXCEPT !.pc = pc, !.msg = m, !.try = <<Dest[m]>>]
    PROVE  r \in Handler /\ Shape(r)
<1> USE DeliveryAssumption, NoneAssumption
<1>1. ASSUME NEW m \in Msg, Dest[m] \in Cell, r = [Idle EXCEPT !.pc = "presence", !.msg = m]
      PROVE  r \in Handler /\ Shape(r)
  <2>1. /\ r.pc = "presence" /\ r.reg = None /\ r.todo = {} /\ r.msg = m /\ r.try = <<>>
        /\ r.via = None /\ r \in Handler
      BY <1>1, RouteBuilt DEF Idle, Handler
  <2> QED
      BY <1>1, <2>1
         DEF Shape, MsgShape, TryShape, FlushShape, Trying, Sending
<1>2. ASSUME NEW c \in Cell, r = [Idle EXCEPT !.pc = "register", !.reg = c]
      PROVE  r \in Handler /\ Shape(r)
  <2>1. /\ r.pc = "register" /\ r.reg = c /\ r.todo = {} /\ r.msg = None /\ r.try = <<>>
        /\ r.via = None /\ r \in Handler
      BY <1>2, RouteBuilt DEF Idle, Handler
  <2> QED
      BY <1>2, <2>1
         DEF Shape, MsgShape, TryShape, FlushShape, Trying, Sending, Routing
<1>3. ASSUME NEW m \in Msg, Dest[m] \notin Cell,
             r = [Idle EXCEPT !.pc = "try", !.msg = m, !.try = <<Dest[m]>>]
      PROVE  r \in Handler /\ Shape(r)
  <2>1. <<Dest[m]>> \in Routes /\ <<Dest[m]>> # <<>>
      BY <1>3, RouteBuilt DEF Host
  <2>2. /\ r.pc = "try" /\ r.reg = None /\ r.todo = {} /\ r.msg = m /\ r.try = <<Dest[m]>>
        /\ r.via = None /\ r \in Handler
      BY <1>3, <2>1 DEF Idle, Handler
  <2> QED
      BY <1>3, <2>1, <2>2
         DEF Shape, MsgShape, TryShape, FlushShape, Trying, Sending, Routing
<1> QED
    BY <1>1, <1>2, <1>3

\* the handlers of a registration and of its flush,
LEMMA FlushOK ==
    ASSUME NEW r \in Handler, Shape(r), r.reg # None, NEW q,
           \/ r.pc = "register" /\ q = [r EXCEPT !.pc = "announce"]
           \/ /\ r.pc = "collect"
              /\ \E M \in SUBSET Msg : /\ \A m \in M : Dest[m] = r.reg
                                       /\ q = [r EXCEPT !.pc = "flush", !.todo = M]
           \/ r.pc = "flush" /\ \E m \in r.todo : q = [r EXCEPT !.pc = "presence", !.msg = m]
           \/ r.pc = "delete" /\ q = [r EXCEPT !.pc = "flush", !.msg = None,
                                               !.todo = @ \ {r.msg}]
    PROVE  q \in Handler /\ Shape(q)
<1> USE NoneAssumption DEF Shape
<1>1. /\ r.reg \in Cell /\ r.todo \subseteq Msg /\ r.try \in Routes
      /\ r.via \in Conn \cup {None} /\ r.msg \in Msg \cup {None}
    BY DEF Handler
<1>2. CASE r.pc = "register" /\ q = [r EXCEPT !.pc = "announce"]
  <2>1. /\ q.pc = "announce" /\ q.reg = r.reg /\ q.todo = r.todo /\ q.msg = r.msg
        /\ q.try = r.try /\ q.via = r.via /\ q \in Handler
      BY <1>2 DEF Handler
  <2> QED
      BY <1>2, <2>1 DEF MsgShape, TryShape, FlushShape, Trying, Sending, Routing
<1>3. ASSUME NEW M \in SUBSET Msg, \A m \in M : Dest[m] = r.reg, r.pc = "collect",
             q = [r EXCEPT !.pc = "flush", !.todo = M]
      PROVE  q \in Handler /\ Shape(q)
  <2>1. /\ q.pc = "flush" /\ q.reg = r.reg /\ q.todo = M /\ q.msg = r.msg
        /\ q.try = r.try /\ q.via = r.via /\ q \in Handler
      BY <1>3 DEF Handler
  <2> QED
      BY <1>3, <2>1 DEF MsgShape, TryShape, FlushShape, Trying, Sending, Routing
<1>4. ASSUME NEW m \in r.todo, r.pc = "flush", q = [r EXCEPT !.pc = "presence", !.msg = m]
      PROVE  q \in Handler /\ Shape(q)
  <2>1. /\ q.pc = "presence" /\ q.reg = r.reg /\ q.todo = r.todo /\ q.msg = m
        /\ q.try = r.try /\ q.via = r.via /\ q \in Handler
      BY <1>1, <1>4 DEF Handler
  <2> QED
      BY <1>1, <1>4, <2>1 DEF MsgShape, TryShape, FlushShape, Trying, Sending, Routing
<1>5. CASE r.pc = "delete" /\ q = [r EXCEPT !.pc = "flush", !.msg = None,
                                            !.todo = @ \ {r.msg}]
  <2>1. /\ q.pc = "flush" /\ q.reg = r.reg /\ q.todo = r.todo \ {r.msg} /\ q.msg = None
        /\ q.try = r.try /\ q.via = r.via /\ q \in Handler
      BY <1>1, <1>5 DEF Handler
  <2> QED
      BY <1>1, <1>5, <2>1 DEF MsgShape, TryShape, FlushShape, Trying, Sending, Routing
<1> QED
    BY <1>2, <1>3, <1>4, <1>5

\* and the handlers that route.
LEMMA RouteOK ==
    ASSUME NEW r \in Handler, Shape(r), NEW q,
           \/ r.pc = "presence" /\ r.reg = None /\ q = [r EXCEPT !.pc = "lookup"]
           \/ /\ r.pc \in {"presence", "lookup"}
              /\ \E s \in Routes \ {<<>>} : /\ r.reg # None => s = <<Me>>
                                            /\ q = [r EXCEPT !.pc = "try", !.try = s]
           \/ /\ r.pc = "try"
              /\ \E k \in Conn : /\ Used(k) /\ peer[k] = Addressee(r)
                                 /\ q = [r EXCEPT !.pc = "send", !.via = k]
           \/ r.pc = "send" /\ q = [r EXCEPT !.pc = "drain"]
           \/ r.pc = "dialSend" /\ q = [r EXCEPT !.pc = "dialDrain"]
    PROVE  q \in Handler /\ Shape(q)
<1> USE NoneAssumption DEF Shape
<1>1. /\ r.reg \in Cell \cup {None} /\ r.todo \subseteq Msg /\ r.try \in Routes
      /\ r.via \in Conn \cup {None} /\ r.msg \in Msg \cup {None}
    BY DEF Handler
<1>2. CASE r.pc = "presence" /\ r.reg = None /\ q = [r EXCEPT !.pc = "lookup"]
  <2>1. /\ q.pc = "lookup" /\ q.reg = r.reg /\ q.todo = r.todo /\ q.msg = r.msg
        /\ q.try = r.try /\ q.via = r.via /\ q \in Handler
      BY <1>2 DEF Handler
  <2> QED
      BY <1>2, <2>1 DEF MsgShape, TryShape, FlushShape, Trying, Sending, Routing
<1>3. ASSUME r.pc \in {"presence", "lookup"}, NEW s \in Routes \ {<<>>},
             r.reg # None => s = <<Me>>, q = [r EXCEPT !.pc = "try", !.try = s]
      PROVE  q \in Handler /\ Shape(q)
  <2>1. /\ q.pc = "try" /\ q.reg = r.reg /\ q.todo = r.todo /\ q.msg = r.msg
        /\ q.try = s /\ q.via = r.via /\ q \in Handler
      BY <1>3 DEF Handler
  <2> QED
      BY <1>3, <2>1 DEF MsgShape, TryShape, FlushShape, Trying, Sending, Routing
<1>4. ASSUME r.pc = "try", NEW k \in Conn, Used(k), peer[k] = Addressee(r),
             q = [r EXCEPT !.pc = "send", !.via = k]
      PROVE  q \in Handler /\ Shape(q)
  <2>1. /\ q.pc = "send" /\ q.reg = r.reg /\ q.todo = r.todo /\ q.msg = r.msg
        /\ q.try = r.try /\ q.via = k /\ q \in Handler
      BY <1>4 DEF Handler
  <2>2. Addressee(q) = Addressee(r)
      BY <2>1 DEF Addressee, Local
  <2> QED
      BY <1>4, <2>1, <2>2 DEF MsgShape, TryShape, FlushShape, Trying, Sending, Routing
<1>5. ASSUME NEW pc \in {"drain", "dialDrain"},
             r.pc = IF pc = "drain" THEN "send" ELSE "dialSend",
             q = [r EXCEPT !.pc = pc]
      PROVE  q \in Handler /\ Shape(q)
  <2>1. /\ q.pc = pc /\ q.reg = r.reg /\ q.todo = r.todo /\ q.msg = r.msg
        /\ q.try = r.try /\ q.via = r.via /\ q \in Handler
      BY <1>5 DEF Handler
  <2>2. Addressee(q) = Addressee(r)
      BY <2>1 DEF Addressee, Local
  <2> QED
      BY <1>5, <2>1, <2>2 DEF MsgShape, TryShape, FlushShape, Trying, Sending, Routing
<1> QED
    BY <1>2, <1>3, <1>4, <1>5

\* Every step of a handler keeps every handler well formed.
LEMMA AdvanceShape ==
    ASSUME DInv, peer' = peer, \A k \in Conn : Used(k) => Used(k)',
           NEW t \in Thread, Advance(t)
    PROVE  h' \in [Thread -> Handler] /\ \A o \in Thread : Shape(h[o])'
<1> DEFINE Goal == h' \in [Thread -> Handler] /\ \A o \in Thread : Shape(h[o])'
<1>1. h[t] \in Handler /\ Shape(h[t])
    BY DEF DInv, TypeOK
<1>2. ASSUME NEW q \in Handler, Shape(q), Become(t, q), presence' = presence PROVE Goal
    BY <1>2, Moved
<1>3. h[t].pc \in {"register", "announce", "collect", "flush", "delete"} => h[t].reg # None
    BY <1>1, NoneAssumption DEF Shape, MsgShape, FlushShape
<1>4. h[t].reg \in Cell \cup {None} /\ h[t].todo \subseteq Msg /\ h[t].msg \in Msg \cup {None}
    BY <1>1 DEF Handler
<1> HIDE DEF Goal
<1>5. ASSUME RegisterCell(t) \/ FlushDone(t) \/ DeleteBuffered(t)
      PROVE  Goal
    BY <1>1, <1>2, <1>3, <1>5, FlushOK, IdleOK
       DEF RegisterCell, FlushDone, DeleteBuffered, Goto, tableVars
<1>6. ASSUME NEW m \in Msg, FlushNext(t, m) PROVE Goal
    BY <1>1, <1>2, <1>3, <1>6, FlushOK DEF FlushNext, tableVars
<1>7. ASSUME CollectBuffered(t) PROVE Goal
  <2> DEFINE rows == get_buffered(buffer, Dest, h[t].reg)
  <2>1. rows \subseteq Msg /\ \A m \in rows : Dest[m] = h[t].reg
      BY DEF get_buffered, DInv, TypeOK, IsTable
  <2>2. /\ h[t].pc = "collect" /\ Become(t, [h[t] EXCEPT !.pc = "flush", !.todo = rows])
        /\ presence' = presence
      BY <1>7 DEF CollectBuffered, tableVars
  <2> HIDE DEF rows
  <2> QED
      BY <1>1, <1>2, <1>3, <2>1, <2>2, FlushOK
<1>8. ASSUME UpdatePresence(t) PROVE Goal
  <2>1. PICK c \in Cell :
           /\ h[t].pc = "announce" /\ h[t].reg = c
           /\ presence' = Put(presence, c, [home |-> Me, visiting |-> None])
      BY <1>3, <1>4, <1>8 DEF UpdatePresence, update_presence
  <2>2. HomeHere(c)' /\ \A x \in Cell : HomeHere(x) => HomeHere(x)'
      BY <2>1 DEF HomeHere, Put
  <2>3. \E q \in Handler :
           /\ h' = [h EXCEPT ![t] = q]
           /\ q = Idle \/ q = [h[t] EXCEPT !.pc = "collect"]
      BY <1>1, <1>8, IdleOK DEF UpdatePresence, Goto, Become, Handler
  <2>4. h' \in [Thread -> Handler]
      BY <2>3 DEF DInv, TypeOK
  <2>5. ASSUME NEW o \in Thread, o # t PROVE Shape(h[o])'
      BY <2>2, <2>3, <2>5, Unmoved DEF DInv, TypeOK
  <2>6. Shape(h[t])'
    <3>1. CASE h'[t] = Idle
        BY <3>1, NoneAssumption
           DEF Shape, MsgShape, TryShape, FlushShape, Idle, Trying, Sending, Routing
    <3>2. CASE h'[t] = [h[t] EXCEPT !.pc = "collect"]
      <4>1. /\ h'[t].pc = "collect" /\ h'[t].reg = h[t].reg /\ h'[t].todo = h[t].todo
            /\ h'[t].msg = h[t].msg /\ h'[t].try = h[t].try /\ h'[t].via = h[t].via
          BY <1>1, <3>2 DEF Handler
      <4> QED
          BY <1>1, <2>1, <2>2, <4>1
             DEF Shape, MsgShape, TryShape, FlushShape, Trying, Sending, Routing
    <3> QED
        BY <2>3, <3>1, <3>2 DEF DInv, TypeOK
  <2> QED
      BY <2>4, <2>5, <2>6 DEF Goal
<1>9. ASSUME GetPresence(t) PROVE Goal
  <2> DEFINE row == get_presence(presence, Dest[h[t].msg], None)
             s == IF row.visiting = None THEN <<row.home>> ELSE <<row.visiting, row.home>>
  <2>1. h[t].pc = "presence" /\ presence' = presence /\ h[t].msg \in Msg
      BY <1>1, <1>9 DEF GetPresence, tableVars, Shape, MsgShape, Routing
  <2>2. h[t].reg # None => row = [home |-> Me, visiting |-> None]
    <3>1. h[t].reg # None => Dest[h[t].msg] = h[t].reg /\ HomeHere(h[t].reg)
        BY <1>1, <2>1, NoneAssumption DEF Shape, FlushShape
    <3> QED
        BY <3>1 DEF get_presence, HomeHere
  <2>3. row = None \/ row \in Presence
      BY DEF get_presence, DInv, TypeOK, IsTable
  <2>4. CASE row = None
    <3>1. h[t].reg = None
        BY <2>2, <2>4, NoneAssumption DEF Presence, Host
    <3>2. Become(t, [h[t] EXCEPT !.pc = "lookup"])
        BY <1>9, <2>4 DEF GetPresence, Goto
    <3> QED
        BY <1>1, <1>2, <2>1, <3>1, <3>2, RouteOK
  <2>5. CASE row # None
    <3>1. row.home \in Host /\ row.visiting \in Host \cup {None}
        BY <2>3, <2>5 DEF Presence
    <3>2. s \in Routes \ {<<>>}
        BY <3>1, RouteBuilt
    <3>3. h[t].reg # None => s = <<Me>>
        BY <2>2
    <3>4. Become(t, [h[t] EXCEPT !.pc = "try", !.try = s])
        BY <1>9, <2>5 DEF GetPresence
    <3> HIDE DEF s
    <3> QED
        BY <1>1, <1>2, <2>1, <3>2, <3>3, <3>4, RouteOK
  <2> QED
      BY <2>4, <2>5
<1>10. ASSUME GetCell(t) PROVE Goal
  <2>1. h[t].pc = "lookup" /\ presence' = presence /\ h[t].reg = None
      BY <1>1, <1>10 DEF GetCell, tableVars, Shape, FlushShape
  <2>2. \/ Become(t, Returned(h[t]))
        \/ Become(t, [h[t] EXCEPT !.pc = "try", !.try = <<Me>>])
      BY <1>10 DEF GetCell
  <2>3. <<Me>> \in Routes \ {<<>>}
      BY RouteBuilt DEF Host
  <2> QED
      BY <1>1, <1>2, <2>1, <2>2, <2>3, RouteOK, ReturnedOK DEF Routing
<1>11. ASSUME SendTo(t) PROVE Goal
  <2>1. h[t].pc = "try" /\ presence' = presence
      BY <1>11 DEF SendTo, tableVars
  <2>2. CASE Addressee(h[t]) \in DOMAIN registry
    <3> DEFINE k == registry[Addressee(h[t])]
    <3>1. k \in Conn /\ Used(k) /\ peer[k] = Addressee(h[t])
        BY <2>2 DEF DInv, TypeOK, TransportTypeOK, IsTable, RegistrySound, Used
    <3>2. Become(t, [h[t] EXCEPT !.pc = "send", !.via = k])
        BY <1>11, <2>2 DEF SendTo
    <3> HIDE DEF k
    <3> QED
        BY <1>1, <1>2, <2>1, <3>1, <3>2, RouteOK
  <2>3. CASE Addressee(h[t]) \notin DOMAIN registry
      BY <1>1, <1>2, <1>11, <2>1, <2>3, UnsentOK DEF SendTo
  <2> QED
      BY <2>2, <2>3
<1>12. ASSUME SendWrites(t) \/ SendViaWrites(t) PROVE Goal
    BY <1>1, <1>2, <1>12, RouteOK DEF SendWrites, SendViaWrites, Goto, tableVars
<1>13. ASSUME SendToFails(t) PROVE Goal
    BY <1>1, <1>2, <1>13, UnsentOK DEF SendToFails, tableVars
<1>14. ASSUME CallbackRaises(t) PROVE Goal
    BY <1>1, <1>2, <1>14, IdleOK DEF CallbackRaises, tableVars
<1>15. ASSUME SendReturns(t) PROVE Goal
    BY <1>1, <1>2, <1>15, ReturnedOK DEF SendReturns, tableVars, Routing, Trying, Sending
<1>16. ASSUME DialFails(t) \/ SendViaFails(t) PROVE Goal
    BY <1>1, <1>2, <1>16, NodeMissedOK DEF DialFails, SendViaFails, tableVars
<1>17. ASSUME BufferMessage(t) PROVE Goal
    BY <1>1, <1>2, <1>17, ReturnedOK DEF BufferMessage, Routing
<1>18. ASSUME NEW k \in Conn, DialSucceeds(t, k) PROVE Goal
  <2> DEFINE q == [h[t] EXCEPT !.pc = "dialSend", !.via = k]
  <2>1. /\ h[t].pc = "dial" /\ peer[k] = Head(h[t].try) /\ h' = [h EXCEPT ![t] = q]
        /\ presence' = presence /\ loop'[k] = "live"
      BY <1>18 DEF DialSucceeds, Become, tableVars, Dial, Register, DInv, TypeOK,
                   TransportTypeOK
  <2>2. /\ q.pc = "dialSend" /\ q.reg = h[t].reg /\ q.todo = h[t].todo /\ q.msg = h[t].msg
        /\ q.try = h[t].try /\ q.via = k /\ q \in Handler
      BY <1>1 DEF Handler
  <2> HIDE DEF q
  <2>3. h' \in [Thread -> Handler] /\ h'[t] = q
      BY <2>1, <2>2 DEF DInv, TypeOK
  <2>4. ASSUME NEW o \in Thread, o # t PROVE Shape(h[o])'
      BY <2>1, <2>4, Unmoved DEF HomeHere, DInv, TypeOK
  <2>5. MsgShape(h[t])'
      BY <1>1, <2>1, <2>2, <2>3 DEF Shape, MsgShape, Trying, Sending, Routing
  <2>6. TryShape(h[t])'
      BY <1>1, <2>1, <2>2, <2>3
         DEF Shape, TryShape, Trying, Sending, Addressee, Local, Used
  <2>7. FlushShape(h[t])'
      BY <1>1, <2>1, <2>2, <2>3 DEF Shape, FlushShape, Trying, Sending
  <2> QED
      BY <2>3, <2>4, <2>5, <2>6, <2>7 DEF Goal, Shape
<1> QED
    BY <1>5, <1>6, <1>7, <1>8, <1>9, <1>10, <1>11, <1>12, <1>13, <1>14, <1>15, <1>16,
       <1>17, <1>18 DEF Advance, Goal

\* Every step keeps every handler well formed.
LEMMA StepShape ==
    ASSUME DInv, [Next]_vars
    PROVE  h' \in [Thread -> Handler] /\ \A o \in Thread : Shape(h[o])'
<1> DEFINE Goal == h' \in [Thread -> Handler] /\ \A o \in Thread : Shape(h[o])'
<1>1. peer' = peer /\ \A k \in Conn : Used(k) => Used(k)'
    BY StepTransport, TransportKeeps DEF DInv, TypeOK
<1>2. ASSUME NEW t \in Thread, NEW q \in Handler, Shape(q), Become(t, q),
             presence' = presence
      PROVE  Goal
    BY <1>1, <1>2, Moved
<1>3. ASSUME h' = h, presence' = presence PROVE Goal
    BY <1>1, <1>3, Unmoved DEF HomeHere, DInv, TypeOK
<1> HIDE DEF Goal
<1>4. ASSUME NEW t \in Thread, Advance(t) PROVE Goal
    BY <1>1, <1>4, AdvanceShape DEF Goal
<1>5. ASSUME NEW k \in Conn, NEW m \in Msg, RecvMsg(k, m) PROVE Goal
  <2>1. k \in Thread /\ presence' = presence
      BY <1>5 DEF Thread, RecvMsg, tableVars
  <2>2. CASE Dest[m] \in Cell
      BY <1>2, <1>5, <2>1, <2>2, BeginOK DEF RecvMsg
  <2>3. CASE Dest[m] \notin Cell
      BY <1>2, <1>5, <2>1, <2>3, BeginOK DEF RecvMsg
  <2> QED
      BY <2>2, <2>3
<1>6. ASSUME NEW u \in Api, NEW m \in Msg, SendMessage(u, m) PROVE Goal
  <2>1. u \in Thread /\ presence' = presence /\ Dest[m] \in Cell
      BY <1>6 DEF Thread, SendMessage, tableVars, get_cell, DInv, TypeOK
  <2> QED
      BY <1>2, <1>6, <2>1, BeginOK DEF SendMessage
<1>7. ASSUME NEW k \in Conn, NEW c \in Cell, RecvRegister(k, c) PROVE Goal
    BY <1>2, <1>7, BeginOK DEF RecvRegister, Thread, tableVars
<1>8. ASSUME NEW u \in Api, NEW c \in LocalCell, RegisterCellLocally(u, c) PROVE Goal
    BY <1>2, <1>8, BeginOK, DeliveryAssumption DEF RegisterCellLocally, Thread, tableVars
<1>9. ASSUME NEW k \in Conn,
             PeerConnects(k) \/ ConnCloses(k) \/ LoopStops(k) \/ MalformedPacket(k)
                 \/ \E p \in Peer : NodeLeaves(k, p)
      PROVE  Goal
    BY <1>3, <1>9 DEF PeerConnects, ConnCloses, LoopStops, MalformedPacket, NodeLeaves,
                      restVars, tableVars
<1>10. ASSUME Crash PROVE Goal
  <2>1. h' = [t \in Thread |-> Idle]
      BY <1>10 DEF Crash
  <2>2. h' \in [Thread -> Handler]
      BY <2>1, IdleOK
  <2>3. ASSUME NEW o \in Thread PROVE Shape(h[o])'
      BY <2>1, NoneAssumption
         DEF Shape, MsgShape, TryShape, FlushShape, Idle, Trying, Sending, Routing
  <2> QED
      BY <2>2, <2>3 DEF Goal
<1>11. ASSUME Tick \/ Cleanup \/ UNCHANGED vars PROVE Goal
    BY <1>3, <1>11 DEF Tick, Cleanup, vars, tableVars
<1>12. Goal
    BY <1>4, <1>5, <1>6, <1>7, <1>8, <1>9, <1>10, <1>11 DEF Next
<1> QED
    BY <1>12 DEF Goal

-----------------------------------------------------------------------------
\* What the operations on the tables of MessageBuffer return.
LEMMA BufferTable ==
    ASSUME IsTable(buffer, Msg, 0 .. TtlMessage)
    PROVE  /\ \A m \in Msg : /\ IsTable(buffer_message(buffer, m), Msg, 0 .. TtlMessage)
                             /\ IsTable(delete_buffered(buffer, m), Msg, 0 .. TtlMessage)
           /\ IsTable(cleanup_expired_messages(buffer), Msg, 0 .. TtlMessage)
           /\ IsTable(AgeMessages(buffer), Msg, 0 .. TtlMessage)
<1> USE TtlMessageAssumption DEF IsTable
<1>1. ASSUME NEW m \in Msg PROVE IsTable(buffer_message(buffer, m), Msg, 0 .. TtlMessage)
    BY DEF buffer_message, Put
<1>2. ASSUME NEW m \in Msg PROVE IsTable(delete_buffered(buffer, m), Msg, 0 .. TtlMessage)
    BY DEF delete_buffered, Drop
<1>3. IsTable(cleanup_expired_messages(buffer), Msg, 0 .. TtlMessage)
    BY DEF cleanup_expired_messages, DropAll
<1>4. IsTable(AgeMessages(buffer), Msg, 0 .. TtlMessage)
    BY DEF AgeMessages
<1> QED
    BY <1>1, <1>2, <1>3, <1>4

\* Every step keeps the tables typed.
LEMMA StepTables ==
    ASSUME DInv, [Next]_vars
    PROVE  /\ cells' \subseteq Cell
           /\ IsTable(presence', Cell, Presence)
           /\ IsTable(buffer', Msg, 0 .. TtlMessage)
           /\ regd' \subseteq Conn
<1> DEFINE Goal == /\ cells' \subseteq Cell
                   /\ IsTable(presence', Cell, Presence)
                   /\ IsTable(buffer', Msg, 0 .. TtlMessage)
                   /\ regd' \subseteq Conn
<1>1. /\ cells \subseteq Cell /\ IsTable(presence, Cell, Presence)
      /\ IsTable(buffer, Msg, 0 .. TtlMessage) /\ regd \subseteq Conn
    BY DEF DInv, TypeOK
<1>2. ASSUME NEW t \in Thread PROVE h[t] \in Handler /\ Shape(h[t])
    BY DEF DInv, TypeOK
<1>3. ASSUME NEW t \in Thread, Advance(t) PROVE Goal
  <2>1. CASE RegisterCell(t)
    <3>1. h[t].reg \in Cell
        BY <1>2, <2>1 DEF RegisterCell, Shape, MsgShape, Handler
    <3> QED
        BY <1>1, <2>1, <3>1 DEF RegisterCell
  <2>2. CASE UpdatePresence(t)
    <3>1. h[t].reg \in Cell
        BY <1>2, <2>2 DEF UpdatePresence, Shape, MsgShape, Handler
    <3>2. [home |-> Me, visiting |-> None] \in Presence
        BY DEF Presence, Host
    <3>3. IsTable(presence', Cell, Presence)
        BY <1>1, <2>2, <3>1, <3>2, PutIsTable DEF UpdatePresence, update_presence
    <3> QED
        BY <1>1, <2>2, <3>3 DEF UpdatePresence
  <2>3. CASE DeleteBuffered(t) \/ BufferMessage(t)
    <3>1. h[t].msg \in Msg
        BY <1>2, <2>3 DEF DeleteBuffered, BufferMessage, Shape, MsgShape, Routing
    <3> QED
        BY <1>1, <2>3, <3>1, BufferTable DEF DeleteBuffered, BufferMessage
  <2>4. CASE UNCHANGED <<tableVars, regd>>
      BY <1>1, <2>4 DEF tableVars
  <2> QED
      BY <1>3, <2>1, <2>2, <2>3, <2>4
         DEF Advance, CollectBuffered, FlushNext, FlushDone, GetPresence, GetCell, SendTo,
             SendWrites, SendToFails, CallbackRaises, SendReturns, DialSucceeds,
             DialFails, SendViaWrites, SendViaFails
<1>4. ASSUME NEW k \in Conn, NEW c \in Cell, RecvRegister(k, c) PROVE Goal
    BY <1>1, <1>4 DEF RecvRegister, tableVars
<1>5. CASE Tick \/ Cleanup
    BY <1>1, <1>5, BufferTable DEF Tick, Cleanup
<1>6. CASE UNCHANGED <<tableVars, regd>>
    BY <1>1, <1>6 DEF tableVars
<1> QED
    BY <1>3, <1>4, <1>5, <1>6
       DEF Next, RecvMsg, SendMessage, RegisterCellLocally, PeerConnects, ConnCloses,
           LoopStops, MalformedPacket, NodeLeaves, Crash, restVars, vars

\* Every step keeps the history typed.
LEMMA StepHistory ==
    ASSUME DInv, [Next]_vars
    PROVE  submitted' \subseteq Msg /\ sent' \in [Msg -> 0 .. 2] /\ fate' \in [Msg -> SUBSET Fate]
<1> DEFINE Goal == /\ submitted' \subseteq Msg
                   /\ sent' \in [Msg -> 0 .. 2]
                   /\ fate' \in [Msg -> SUBSET Fate]
<1>1. submitted \subseteq Msg /\ sent \in [Msg -> 0 .. 2] /\ fate \in [Msg -> SUBSET Fate]
    BY DEF DInv, TypeOK
<1>2. ASSUME NEW m, NEW F \in SUBSET Fate, Note(m, F) PROVE fate' \in [Msg -> SUBSET Fate]
    BY <1>1, <1>2 DEF Note
<1>3. ASSUME NEW M, NEW f \in Fate, NoteAll(M, f) PROVE fate' \in [Msg -> SUBSET Fate]
    BY <1>1, <1>3 DEF NoteAll
<1>4. /\ \A r : Handed(r) \in SUBSET Fate /\ Doubt(r) \in SUBSET Fate
      /\ {"given up"} \in SUBSET Fate /\ {"buffered"} \in SUBSET Fate
      /\ {"buffered", "late"} \in SUBSET Fate /\ {} \in SUBSET Fate
      /\ {"doubtful", "crashed", "expired"} \subseteq Fate
    BY DEF Handed, Doubt, Fate
<1>5. ASSUME NEW t \in Thread, Advance(t) PROVE Goal
  <2>1. CASE SendWrites(t) \/ SendViaWrites(t)
    <3>1. sent' = [sent EXCEPT ![h[t].msg] = IF @ < 2 THEN @ + 1 ELSE @]
        BY <2>1 DEF SendWrites, SendViaWrites, Write
    <3>2. ASSUME NEW m \in Msg PROVE sent'[m] \in 0 .. 2
      <4>1. sent'[m] = sent[m] \/ (sent[m] < 2 /\ sent'[m] = sent[m] + 1)
          BY <1>1, <3>1
      <4> QED
          BY <1>1, <4>1
    <3>3. sent' \in [Msg -> 0 .. 2]
        BY <1>1, <3>1, <3>2
    <3> QED
        BY <1>1, <2>1, <3>3 DEF SendWrites, SendViaWrites
  <2>2. CASE CollectBuffered(t)
      BY <1>1, <1>3, <1>4, <2>2 DEF CollectBuffered
  <2>3. CASE GetCell(t)
      BY <1>1, <1>2, <1>4, <2>3 DEF GetCell
  <2>4. CASE SendTo(t)
      BY <1>1, <1>2, <1>4, <2>4 DEF SendTo
  <2>5. CASE SendToFails(t)
      BY <1>1, <1>2, <1>4, <2>5 DEF SendToFails
  <2>6. CASE CallbackRaises(t)
    <3>1. \A m \in Msg : fate'[m] \in SUBSET Fate
        BY <1>1, <1>4, <2>6 DEF CallbackRaises, Fate
    <3>2. fate' \in [Msg -> SUBSET Fate]
        BY <2>6, <3>1 DEF CallbackRaises
    <3> QED
        BY <1>1, <2>6, <3>2 DEF CallbackRaises
  <2>7. CASE DialFails(t)
      BY <1>1, <1>2, <1>4, <2>7 DEF DialFails
  <2>8. CASE SendViaFails(t)
    <3>1. Doubt(h[t]) \cup (IF GivenUp(h[t]) THEN {"given up"} ELSE {}) \in SUBSET Fate
        BY DEF Doubt, Fate
    <3> QED
        BY <1>1, <1>2, <2>8, <3>1 DEF SendViaFails
  <2>9. CASE BufferMessage(t)
      BY <1>1, <1>2, <1>4, <2>9 DEF BufferMessage
  <2>10. CASE UNCHANGED historyVars
      BY <1>1, <2>10 DEF historyVars
  <2> QED
      BY <1>5, <2>1, <2>2, <2>3, <2>4, <2>5, <2>6, <2>7, <2>8, <2>9, <2>10
         DEF Advance, RegisterCell, UpdatePresence, FlushNext, FlushDone, DeleteBuffered,
             GetPresence, SendReturns, DialSucceeds
<1>6. ASSUME NEW m \in Msg, Submit(m), UNCHANGED <<sent, fate>> PROVE Goal
    BY <1>1, <1>6 DEF Submit
<1>7. CASE Crash \/ Cleanup
    BY <1>1, <1>3, <1>4, <1>7 DEF Crash, Cleanup
<1>8. CASE UNCHANGED historyVars
    BY <1>1, <1>8 DEF historyVars
<1> QED
    BY <1>5, <1>6, <1>7, <1>8
       DEF Next, RecvMsg, SendMessage, RecvRegister, RegisterCellLocally, PeerConnects,
           ConnCloses, LoopStops, MalformedPacket, NodeLeaves, Tick, restVars, vars

-----------------------------------------------------------------------------
LEMMA InitDInv == Init => DInv
<1> SUFFICES ASSUME Init PROVE DInv
    OBVIOUS
<1>1. TransportTypeOK /\ RegistrySound
    BY InitTypeOK, EmptyIsTable DEF Init, TransportInit, RegistrySound
<1>2. IsTable(presence, Cell, Presence) /\ cells \subseteq Cell
    BY RowsAssumption DEF Init, Recipients, IsTable
<1>3. IsTable(buffer, Msg, 0 .. TtlMessage)
    BY EmptyIsTable DEF Init
<1>4. h \in [Thread -> Handler] /\ \A t \in Thread : Shape(h[t])
    BY IdleOK DEF Init
<1>5. sent \in [Msg -> 0 .. 2] /\ fate \in [Msg -> SUBSET Fate]
    BY DEF Init
<1> QED
    BY <1>1, <1>2, <1>3, <1>4, <1>5 DEF Init, DInv, TypeOK

LEMMA StepDInv == DInv /\ [Next]_vars => DInv'
<1> SUFFICES ASSUME DInv, [Next]_vars PROVE DInv'
    OBVIOUS
<1>1. TransportTypeOK' /\ RegistrySound'
    BY StepTransport, StepTypeOK, StepRegistrySound DEF DInv, TypeOK
<1> QED
    BY <1>1, StepShape, StepTables, StepHistory DEF DInv, TypeOK

\* What every handler knows at every await is an invariant of delivery.
LEMMA DInvariance == Spec => []DInv
BY InitDInv, StepDInv, PTL DEF Spec

\* TypeOK is an invariant of delivery.
THEOREM DeliveryTypeCorrect == Spec => []TypeOK
<1>1. DInv => TypeOK
    BY DEF DInv
<1> QED
    BY <1>1, DInvariance, PTL

\* No handler ever has a connection to write its message to that belongs to a
\* cell other than the one the message is for.
THEOREM NoMisdeliveryCorrect == Spec => []NoMisdelivery
<1>1. DInv => NoMisdelivery
  <2> SUFFICES ASSUME DInv, NEW t \in Thread, h[t].via # None
               PROVE  peer[h[t].via] \in Node \cup {Dest[h[t].msg]}
      BY DEF NoMisdelivery
  <2>1. h[t] \in Handler /\ Shape(h[t])
      BY DEF DInv, TypeOK
  <2>2. h[t].try \in Routes /\ h[t].try # <<>> /\ peer[h[t].via] = Addressee(h[t])
      BY <2>1 DEF Handler, Shape, TryShape, Trying
  <2>3. Head(h[t].try) \in Host
      BY <2>2, RouteLeft
  <2> QED
      BY <2>2, <2>3 DEF Addressee, Local, Host
<1> QED
    BY <1>1, DInvariance, PTL

-----------------------------------------------------------------------------
(***************************************************************************)
(* What a step does to the messages.  The steps of a handler are of few    *)
(* kinds; in each, q is what handler t becomes.                            *)
(***************************************************************************)
Same(t, q) == q.reg = h[t].reg /\ q.todo = h[t].todo /\ q.msg = h[t].msg

\* A registration begins or goes on, or a flush ends; no message is involved.
Registers(t, q) ==
    /\ h[t].pc \in {"idle", "register", "announce", "flush"}
    /\ q.pc \in {"register", "announce", "collect", "idle"}
    /\ h[t].msg = None /\ h[t].todo = {} /\ q.msg = None /\ q.todo = {}
    /\ q.reg \in {None, h[t].reg} \/ (t \in Conn => q.reg = peer[t])
    /\ t \in Conn /\ q.pc = "idle" => h[t].pc = "flush"
    /\ UNCHANGED <<buffer, historyVars>>

Collects(t, q) ==
    /\ h[t].pc = "collect" /\ h[t].msg = None /\ h[t].todo = {}
    /\ q.pc = "flush" /\ q.msg = None /\ q.reg = h[t].reg
    /\ q.todo = get_buffered(buffer, Dest, h[t].reg)
    /\ NoteAll({m \in q.todo : \E o \in Thread \ {t} : m \in h[o].todo}, "doubtful")
    /\ UNCHANGED <<buffer, submitted, sent>>

Picks(t, q) ==
    /\ h[t].pc = "flush" /\ h[t].msg = None
    /\ q.pc = "presence" /\ q.msg \in h[t].todo /\ q.reg = h[t].reg /\ q.todo = h[t].todo
    /\ UNCHANGED <<buffer, historyVars>>

Deletes(t, q) ==
    /\ h[t].pc = "delete" /\ h[t].msg \in h[t].todo
    /\ q.pc = "flush" /\ q.msg = None /\ q.reg = h[t].reg /\ q.todo = h[t].todo \ {h[t].msg}
    /\ buffer' = delete_buffered(buffer, h[t].msg)
    /\ UNCHANGED historyVars

\* A message comes in.
Takes(t, q) ==
    /\ h[t] = Idle
    /\ q.pc \in {"presence", "try"} /\ q.reg = None /\ q.todo = {}
    /\ q.msg \in Msg \ submitted /\ submitted' = submitted \cup {q.msg}
    /\ UNCHANGED <<buffer, sent, fate>>

\* It is looked for where to send it.
Proceeds(t, q) ==
    /\ Same(t, q) /\ h[t].pc \in Unwritten /\ q.pc \in Unwritten
    /\ UNCHANGED <<buffer, historyVars>>

Writes(t, q) ==
    /\ Same(t, q)
    /\ h[t].pc \in {"send", "dialSend"}
    /\ q.pc \in {"drain", "dialDrain"} /\ (h[t].reg # None => q.pc = "drain")
    /\ sent' = [sent EXCEPT ![h[t].msg] = IF @ < 2 THEN @ + 1 ELSE @]
    /\ UNCHANGED <<buffer, submitted, fate>>

\* A write failed and there is something left to try.
Retries(t, q) ==
    /\ Same(t, q) /\ h[t].reg = None
    /\ h[t].pc \in Sending /\ q.pc \in Unwritten
    /\ Note(h[t].msg, Doubt(h[t]))
    /\ UNCHANGED <<buffer, submitted, sent>>

HandsOver(t, q) ==
    /\ q = Returned(h[t])
    /\ h[t].pc \in {"try", "send", "drain"}
    /\ Note(h[t].msg, (IF HasHandler THEN {"handed"} ELSE {}) \cup Doubt(h[t]))
    /\ UNCHANGED <<buffer, submitted, sent>>

Returns(t, q) ==
    /\ q = Returned(h[t])
    /\ h[t].pc \in {"drain", "dialDrain"}
    /\ UNCHANGED <<buffer, historyVars>>

Drops(t, q) ==
    /\ h[t].reg = None /\ h[t].pc \in Routing /\ q = Idle
    /\ Note(h[t].msg, {"given up"} \cup Doubt(h[t]))
    /\ UNCHANGED <<buffer, submitted, sent>>

Breaks(t, q) ==
    /\ h[t].pc \in {"try", "send", "drain"} /\ q = Idle
    /\ fate' = [m \in Msg |->
                  fate[m] \cup (IF m = h[t].msg THEN {"given up"} \cup Doubt(h[t]) ELSE {})
                          \cup (IF m \in h[t].todo THEN {"late"} ELSE {})]
    /\ UNCHANGED <<buffer, submitted, sent>>

Buffers(t, q) ==
    /\ h[t].reg = None /\ h[t].pc = "buffer" /\ q = Idle
    /\ buffer' = buffer_message(buffer, h[t].msg)
    /\ Note(h[t].msg, {"buffered"} \cup IF Raced(h[t].msg) THEN {"late"} ELSE {})
    /\ UNCHANGED <<submitted, sent>>

Moves(t, q) ==
    \/ Registers(t, q) \/ Collects(t, q) \/ Picks(t, q) \/ Deletes(t, q) \/ Takes(t, q)
    \/ Proceeds(t, q) \/ Writes(t, q) \/ Retries(t, q) \/ HandsOver(t, q) \/ Returns(t, q)
    \/ Drops(t, q) \/ Breaks(t, q) \/ Buffers(t, q)

LEMMA NoteNothing ==
    ASSUME DInv, NEW m, Note(m, {})
    PROVE  fate' = fate
BY DEF Note, DInv, TypeOK

\* Every step of a handler is of one of these kinds.
LEMMA AdvanceMoves ==
    ASSUME DInv, NEW t \in Thread, Advance(t)
    PROVE  \E q : Become(t, q) /\ Moves(t, q)
<1> DEFINE Goal == \E q : Become(t, q) /\ Moves(t, q)
           r == h[t]
<1>1. /\ r \in Handler /\ MsgShape(r) /\ TryShape(r) /\ FlushShape(r)
      /\ r.reg \in Cell \cup {None} /\ r.msg \in Msg \cup {None}
    BY DEF DInv, TypeOK, Shape, Handler
<1> HIDE DEF Goal
<1> USE NoneAssumption DEF historyVars, tableVars
<1>2. ASSUME NEW pc, NEW q, q = [r EXCEPT !.pc = pc]
      PROVE  q.pc = pc /\ q.reg = r.reg /\ q.msg = r.msg /\ q.todo = r.todo
    BY <1>1, <1>2 DEF Handler
<1>3. ASSUME RegisterCell(t) PROVE Goal
  <2>1. Become(t, [r EXCEPT !.pc = "announce"]) /\ r.pc = "register"
      BY <1>3 DEF RegisterCell, Goto
  <2>2. Registers(t, [r EXCEPT !.pc = "announce"])
      BY <1>1, <1>2, <1>3, <2>1 DEF RegisterCell, Registers, MsgShape
  <2> QED
      BY <2>1, <2>2 DEF Goal, Moves
<1>4. ASSUME UpdatePresence(t) PROVE Goal
  <2>1. PICK q : /\ Become(t, q) /\ r.pc = "announce"
                 /\ q = IF t \in Conn THEN [r EXCEPT !.pc = "collect"] ELSE Idle
      BY <1>4 DEF UpdatePresence, Goto
  <2>2. Registers(t, q)
    <3>1. CASE t \in Conn
        BY <1>1, <1>2, <1>4, <2>1, <3>1 DEF UpdatePresence, Registers, MsgShape
    <3>2. CASE t \notin Conn
        BY <1>1, <1>4, <2>1, <3>2 DEF UpdatePresence, Registers, MsgShape, Idle
    <3> QED
        BY <3>1, <3>2
  <2> QED
      BY <2>1, <2>2 DEF Goal, Moves
<1>5. ASSUME FlushDone(t) PROVE Goal
  <2>1. Become(t, Idle) /\ Registers(t, Idle)
      BY <1>1, <1>5 DEF FlushDone, Registers, MsgShape, Idle
  <2> QED
      BY <2>1 DEF Goal, Moves
<1>6. ASSUME CollectBuffered(t) PROVE Goal
  <2> DEFINE rows == get_buffered(buffer, Dest, r.reg)
             q == [r EXCEPT !.pc = "flush", !.todo = rows]
  <2>1. /\ r.pc = "collect" /\ Become(t, q)
        /\ NoteAll({m \in rows : \E o \in Thread \ {t} : m \in h[o].todo}, "doubtful")
        /\ UNCHANGED <<buffer, submitted, sent>>
      BY <1>6 DEF CollectBuffered
  <2>2. q.pc = "flush" /\ q.reg = r.reg /\ q.msg = r.msg /\ q.todo = rows
      BY <1>1 DEF Handler
  <2>3. r.msg = None /\ r.todo = {}
      BY <1>1, <2>1 DEF MsgShape
  <2> HIDE DEF q
  <2>4. Collects(t, q)
      BY <2>1, <2>2, <2>3 DEF Collects
  <2> QED
      BY <2>1, <2>4 DEF Goal, Moves
<1>7. ASSUME NEW m \in Msg, FlushNext(t, m) PROVE Goal
  <2> DEFINE q == [r EXCEPT !.pc = "presence", !.msg = m]
  <2>1. q.pc = "presence" /\ q.reg = r.reg /\ q.msg = m /\ q.todo = r.todo
      BY <1>1 DEF Handler
  <2>2. Become(t, q) /\ Picks(t, q)
      BY <1>1, <1>7, <2>1 DEF FlushNext, Picks, MsgShape
  <2> QED
      BY <2>2 DEF Goal, Moves
<1>8. ASSUME DeleteBuffered(t) PROVE Goal
  <2> DEFINE q == [r EXCEPT !.pc = "flush", !.msg = None, !.todo = @ \ {r.msg}]
  <2>1. q.pc = "flush" /\ q.reg = r.reg /\ q.msg = None /\ q.todo = r.todo \ {r.msg}
      BY <1>1 DEF Handler
  <2>2. r.pc = "delete" /\ r.msg \in r.todo
      BY <1>1, <1>8 DEF DeleteBuffered, MsgShape, FlushShape, Routing
  <2>3. Become(t, q) /\ Deletes(t, q)
      BY <1>8, <2>1, <2>2 DEF DeleteBuffered, Deletes
  <2> QED
      BY <2>3 DEF Goal, Moves
<1>9. ASSUME NEW q, Become(t, q), Same(t, q), r.pc \in Unwritten, q.pc \in Unwritten,
             UNCHANGED <<buffer, historyVars>>
      PROVE  Goal
    BY <1>9 DEF Goal, Moves, Proceeds
<1>10. ASSUME GetPresence(t) PROVE Goal
  <2>1. PICK q : /\ Become(t, q)
                 /\ \/ q = [r EXCEPT !.pc = "lookup"]
                    \/ \E s : q = [r EXCEPT !.pc = "try", !.try = s]
      BY <1>10 DEF GetPresence, Goto
  <2>2. Same(t, q) /\ q.pc \in {"lookup", "try"}
      BY <1>1, <2>1 DEF Same, Handler
  <2>3. r.pc = "presence" /\ UNCHANGED <<buffer, historyVars>>
      BY <1>10 DEF GetPresence
  <2> QED
      BY <1>9, <2>1, <2>2, <2>3 DEF Unwritten
<1>11. ASSUME GetCell(t) PROVE Goal
  <2>1. r.pc = "lookup" /\ r.reg = None /\ UNCHANGED <<buffer, submitted, sent>>
      BY <1>1, <1>11 DEF GetCell, FlushShape
  <2>2. CASE get_cell(cells, Dest[r.msg])
    <3> DEFINE q == [r EXCEPT !.pc = "try", !.try = <<Me>>]
    <3>1. Become(t, q) /\ fate' = fate
        BY <1>11, <2>2 DEF GetCell
    <3>2. q.pc = "try" /\ Same(t, q)
        BY <1>1 DEF Same, Handler
    <3> QED
        BY <1>9, <2>1, <3>1, <3>2 DEF Unwritten
  <2>3. CASE ~get_cell(cells, Dest[r.msg])
    <3>1. Become(t, Idle) /\ Note(r.msg, {"given up"})
        BY <1>11, <2>1, <2>3 DEF GetCell, Returned
    <3>2. Doubt(r) = {}
        BY <2>1 DEF Doubt
    <3>3. Drops(t, Idle)
        BY <2>1, <3>1, <3>2 DEF Drops, Routing
    <3> QED
        BY <3>1, <3>3 DEF Goal, Moves
  <2> QED
      BY <2>2, <2>3
<1>12. ASSUME r.pc \in {"try", "send", "drain"}, Become(t, Unsent(r)),
              Note(r.msg, Handed(r) \cup Doubt(r)), UNCHANGED <<buffer, submitted, sent>>
       PROVE  Goal
  <2>1. CASE Local(r)
    <3>1. HandsOver(t, Returned(r)) /\ Become(t, Returned(r))
        BY <1>12, <2>1 DEF HandsOver, Unsent, Handed
    <3> QED
        BY <3>1 DEF Goal, Moves
  <2>2. CASE ~Local(r)
    <3> DEFINE q == [r EXCEPT !.pc = "dial", !.via = None]
    <3>1. Become(t, q) /\ Note(r.msg, Doubt(r))
        BY <1>12, <2>2 DEF Unsent, Handed
    <3>2. q.pc = "dial" /\ Same(t, q)
        BY <1>1 DEF Same, Handler
    <3>3. r.reg = None
        BY <1>1, <1>12, <2>2 DEF FlushShape, Trying, Sending, Local
    <3> HIDE DEF q
    <3>4. CASE r.pc = "try"
      <4>1. Doubt(r) = {}
          BY <3>4 DEF Doubt
      <4>2. fate' = fate
          BY <3>1, <4>1, NoteNothing
      <4> QED
          BY <1>9, <1>12, <3>1, <3>2, <3>4, <4>2 DEF Unwritten
    <3>5. CASE r.pc \in {"send", "drain"}
      <4>1. Retries(t, q)
          BY <1>12, <3>1, <3>2, <3>3, <3>5 DEF Retries, Sending, Unwritten
      <4> QED
          BY <3>1, <4>1 DEF Goal, Moves
    <3> QED
        BY <1>12, <3>4, <3>5
  <2> QED
      BY <2>1, <2>2
<1>13. ASSUME SendTo(t) PROVE Goal
  <2>1. r.pc = "try" /\ UNCHANGED <<buffer, submitted, sent>>
      BY <1>13 DEF SendTo
  <2>2. CASE Addressee(r) \in DOMAIN registry
    <3> DEFINE q == [r EXCEPT !.pc = "send", !.via = registry[Addressee(r)]]
    <3>1. Become(t, q) /\ fate' = fate
        BY <1>13, <2>2 DEF SendTo
    <3>2. q.pc = "send" /\ Same(t, q)
        BY <1>1 DEF Same, Handler
    <3> QED
        BY <1>9, <2>1, <3>1, <3>2 DEF Unwritten
  <2>3. CASE Addressee(r) \notin DOMAIN registry
    <3>1. Become(t, Unsent(r)) /\ Note(r.msg, Handed(r))
        BY <1>13, <2>3 DEF SendTo
    <3>2. Handed(r) \cup Doubt(r) = Handed(r)
        BY <2>1 DEF Doubt
    <3> QED
        BY <1>12, <2>1, <3>1, <3>2
  <2> QED
      BY <2>2, <2>3
<1>14. ASSUME SendToFails(t) PROVE Goal
    BY <1>12, <1>14 DEF SendToFails
<1>15. ASSUME SendWrites(t) \/ SendViaWrites(t) PROVE Goal
  <2>1. PICK pc \in {"drain", "dialDrain"} :
           /\ Become(t, [r EXCEPT !.pc = pc])
           /\ r.pc = IF pc = "drain" THEN "send" ELSE "dialSend"
      BY <1>15 DEF SendWrites, SendViaWrites, Goto
  <2>2. r.reg # None => pc = "drain"
      BY <1>1, <2>1 DEF FlushShape
  <2>3. Writes(t, [r EXCEPT !.pc = pc])
      BY <1>2, <1>15, <2>1, <2>2 DEF SendWrites, SendViaWrites, Write, Writes, Same
  <2> QED
      BY <2>1, <2>3 DEF Goal, Moves
<1>16. ASSUME CallbackRaises(t) PROVE Goal
  <2>1. Become(t, Idle) /\ Breaks(t, Idle)
      BY <1>16 DEF CallbackRaises, Breaks
  <2> QED
      BY <2>1 DEF Goal, Moves
<1>17. ASSUME SendReturns(t) PROVE Goal
  <2>1. Become(t, Returned(r)) /\ Returns(t, Returned(r))
      BY <1>17 DEF SendReturns, Returns
  <2> QED
      BY <2>1 DEF Goal, Moves
<1>18. ASSUME NEW k \in Conn, DialSucceeds(t, k) PROVE Goal
  <2> DEFINE q == [r EXCEPT !.pc = "dialSend", !.via = k]
  <2>1. q.pc = "dialSend" /\ Same(t, q)
      BY <1>1 DEF Same, Handler
  <2>2. Become(t, q) /\ r.pc = "dial" /\ UNCHANGED <<buffer, historyVars>>
      BY <1>18 DEF DialSucceeds
  <2> QED
      BY <1>9, <2>1, <2>2 DEF Unwritten
<1>19. ASSUME DialFails(t) \/ SendViaFails(t) PROVE Goal
  <2> DEFINE pc == IF Len(r.try) = 1 THEN "buffer" ELSE "try"
             q == [r EXCEPT !.pc = pc, !.try = Tail(@), !.via = None]
  <2>1. /\ r.pc \in {"dial", "dialSend", "dialDrain"} /\ r.reg = None
        /\ UNCHANGED <<buffer, submitted, sent>>
      BY <1>1, <1>19 DEF DialFails, SendViaFails, FlushShape
  <2>2. /\ Become(t, IF GivenUp(r) THEN Idle ELSE q)
        /\ Note(r.msg, Doubt(r) \cup IF GivenUp(r) THEN {"given up"} ELSE {})
    <3>1. Become(t, NodeMissed(r)) /\ NodeMissed(r) = IF GivenUp(r) THEN Idle ELSE q
        BY <1>19, <2>1 DEF DialFails, SendViaFails, NodeMissed, Returned
    <3>2. CASE DialFails(t)
      <4>1. Doubt(r) = {}
          BY <3>2 DEF DialFails, Doubt
      <4> QED
          BY <3>1, <3>2, <4>1 DEF DialFails
    <3>3. CASE SendViaFails(t)
        BY <3>1, <3>3 DEF SendViaFails
    <3> QED
        BY <1>19, <3>2, <3>3
  <2>3. CASE GivenUp(r)
    <3>1. Become(t, Idle) /\ Drops(t, Idle)
        BY <2>1, <2>2, <2>3 DEF Drops, Routing, Trying, Sending
    <3> QED
        BY <3>1 DEF Goal, Moves
  <2>4. CASE ~GivenUp(r)
    <3>1. q.pc = pc /\ Same(t, q) /\ pc \in Unwritten
        BY <1>1 DEF Same, Handler, Unwritten
    <3>2. Become(t, q) /\ Note(r.msg, Doubt(r))
        BY <2>2, <2>4
    <3> HIDE DEF q
    <3>3. CASE r.pc = "dial"
      <4>1. Doubt(r) = {}
          BY <3>3 DEF Doubt
      <4>2. fate' = fate
          BY <3>2, <4>1, NoteNothing
      <4> QED
          BY <1>9, <2>1, <3>1, <3>2, <3>3, <4>2 DEF Unwritten
    <3>4. CASE r.pc # "dial"
      <4>1. Retries(t, q)
          BY <2>1, <3>1, <3>2, <3>4 DEF Retries, Sending
      <4> QED
          BY <3>2, <4>1 DEF Goal, Moves
    <3> QED
        BY <3>3, <3>4
  <2> QED
      BY <2>3, <2>4
<1>20. ASSUME BufferMessage(t) PROVE Goal
  <2>1. h[t].pc = "buffer" /\ h[t].reg = None
      BY <1>1, <1>20 DEF BufferMessage, FlushShape
  <2>2. Become(t, Idle) /\ Buffers(t, Idle)
      BY <1>20, <2>1 DEF BufferMessage, Buffers, Returned
  <2> QED
      BY <2>2 DEF Goal, Moves
<1>21. Goal
    BY <1>3, <1>4, <1>5, <1>6, <1>7, <1>8, <1>10, <1>11, <1>13, <1>14, <1>15, <1>16,
       <1>17, <1>18, <1>19, <1>20 DEF Advance
<1> QED
    BY <1>21 DEF Goal

\* Steps that leave every handler and every message where it is.
Rests == UNCHANGED <<h, buffer, historyVars>>

LEMMA StepMoves ==
    ASSUME DInv, [Next]_vars
    PROVE  \/ \E t \in Thread : \E q : Become(t, q) /\ Moves(t, q)
           \/ Rests \/ Crash \/ Tick \/ Cleanup
<1> DEFINE Goal == \/ \E t \in Thread : \E q : Become(t, q) /\ Moves(t, q)
                   \/ Rests \/ Crash \/ Tick \/ Cleanup
<1> HIDE DEF Goal
<1> USE DEF Thread
<1>1. ASSUME NEW t \in Thread, Advance(t) PROVE Goal
    BY <1>1, AdvanceMoves DEF Goal
<1>2. ASSUME NEW k \in Conn, NEW m \in Msg, RecvMsg(k, m) PROVE Goal
  <2>1. PICK q : /\ Become(k, q)
                 /\ \/ q = [Idle EXCEPT !.pc = "presence", !.msg = m]
                    \/ q = [Idle EXCEPT !.pc = "try", !.msg = m, !.try = <<Dest[m]>>]
      BY <1>2 DEF RecvMsg
  <2>2. q.pc \in {"presence", "try"} /\ q.reg = None /\ q.todo = {} /\ q.msg = m
      BY <2>1 DEF Idle
  <2>3. Takes(k, q)
      BY <1>2, <2>2 DEF Takes, RecvMsg, Submit, tableVars
  <2> QED
      BY <2>1, <2>3 DEF Goal, Moves
<1>3. ASSUME NEW u \in Api, NEW m \in Msg, SendMessage(u, m) PROVE Goal
  <2> DEFINE q == [Idle EXCEPT !.pc = "presence", !.msg = m]
  <2>1. q.pc = "presence" /\ q.reg = None /\ q.todo = {} /\ q.msg = m
      BY DEF Idle
  <2>2. Become(u, q) /\ Takes(u, q)
      BY <1>3, <2>1 DEF Takes, SendMessage, Submit, tableVars
  <2> QED
      BY <2>2 DEF Goal, Moves
<1>4. ASSUME NEW t \in Thread, NEW c \in Cell, h[t] = Idle, t \in Conn => c = peer[t],
             Become(t, [Idle EXCEPT !.pc = "register", !.reg = c]),
             UNCHANGED <<buffer, historyVars>>
      PROVE  Goal
  <2> DEFINE q == [Idle EXCEPT !.pc = "register", !.reg = c]
  <2>1. q.pc = "register" /\ q.reg = c /\ q.todo = {} /\ q.msg = None
      BY DEF Idle
  <2>2. h[t].pc = "idle" /\ h[t].msg = None /\ h[t].todo = {}
      BY <1>4 DEF Idle
  <2>3. Registers(t, q)
      BY <1>4, <2>1, <2>2 DEF Registers
  <2> QED
      BY <1>4, <2>3 DEF Goal, Moves
<1>5. ASSUME NEW k \in Conn, NEW c \in Cell, RecvRegister(k, c) PROVE Goal
    BY <1>4, <1>5 DEF RecvRegister, tableVars
<1>6. ASSUME NEW u \in Api, NEW c \in LocalCell, RegisterCellLocally(u, c) PROVE Goal
    BY <1>4, <1>6, DeliveryAssumption DEF RegisterCellLocally, tableVars
<1>7. ASSUME NEW k \in Conn,
             PeerConnects(k) \/ ConnCloses(k) \/ LoopStops(k) \/ MalformedPacket(k)
                 \/ \E p \in Peer : NodeLeaves(k, p)
      PROVE  Goal
    BY <1>7 DEF PeerConnects, ConnCloses, LoopStops, MalformedPacket, NodeLeaves,
                restVars, tableVars, Rests, Goal
<1>8. ASSUME Crash \/ Tick \/ Cleanup PROVE Goal
    BY <1>8 DEF Goal
<1>9. ASSUME UNCHANGED vars PROVE Goal
    BY <1>9 DEF vars, tableVars, Rests, Goal
<1>10. Goal
    BY <1>1, <1>2, <1>3, <1>5, <1>6, <1>7, <1>8, <1>9 DEF Next
<1> QED
    BY <1>10 DEF Goal

\* The facts about a handler that the proofs below use.
LEMMA Facts ==
    ASSUME DInv, NEW t \in Thread
    PROVE  /\ h[t].msg \in Msg \cup {None} /\ h[t].todo \subseteq Msg
           /\ h[t].pc \in Routing => h[t].msg \in Msg
           /\ h[t].pc \in {"idle", "register", "announce", "collect", "flush"}
                => h[t].msg = None
           /\ h[t].pc \in {"idle", "register", "announce", "collect"} => h[t].todo = {}
           /\ h[t].reg = None => h[t].todo = {} /\ h[t].pc # "delete"
           /\ h[t].reg # None /\ h[t].msg # None => h[t].msg \in h[t].todo
           /\ h[t].reg # None /\ h[t].pc \in Unwritten \cup {"drain", "dialDrain", "delete"}
                => h[t].msg \in h[t].todo /\ h[t].pc # "dialDrain"
<1>1. h[t] \in Handler /\ MsgShape(h[t]) /\ FlushShape(h[t])
    BY DEF DInv, TypeOK, Shape
<1>2. h[t].msg \in Msg \cup {None} /\ h[t].todo \subseteq Msg
    BY <1>1 DEF Handler
<1>3. h[t].pc \in Routing => h[t].msg \in Msg
    BY <1>1 DEF MsgShape
<1>4. h[t].pc = "idle" => h[t].msg = None /\ h[t].todo = {}
    BY <1>1 DEF MsgShape, Idle
<1> QED
    BY <1>1, <1>2, <1>3, <1>4, NoneAssumption
       DEF MsgShape, FlushShape, Unwritten, Routing, Trying, Sending

LEMMA ReturnedIs ==
    ASSUME DInv, NEW t \in Thread
    PROVE  \/ h[t].reg = None /\ Returned(h[t]) = Idle
           \/ /\ h[t].reg # None /\ Returned(h[t]).pc = "delete"
              /\ Same(t, Returned(h[t]))
BY DEF Returned, Handler, Same, DInv, TypeOK

LEMMA Becomes ==
    ASSUME DInv, NEW t \in Thread, NEW q, Become(t, q)
    PROVE  h'[t] = q /\ \A o \in Thread : o # t => h'[o] = h[o]
BY DEF Become, DInv, TypeOK

-----------------------------------------------------------------------------
\* The history of a message only grows.
LEMMA HistoryGrows ==
    ASSUME DInv, [Next]_vars
    PROVE  /\ submitted \subseteq submitted'
           /\ \A m \in Msg : /\ fate[m] \subseteq fate'[m]
                             /\ sent[m] > 0 => sent'[m] > 0
                             /\ Delivered(m) => Delivered(m)'
<1> DEFINE Goal == /\ submitted \subseteq submitted'
                   /\ \A m \in Msg : fate[m] \subseteq fate'[m]
                   /\ \A m \in Msg : sent[m] > 0 => sent'[m] > 0
<1>1. /\ submitted \subseteq Msg /\ sent \in [Msg -> 0 .. 2] /\ fate \in [Msg -> SUBSET Fate]
    BY DEF DInv, TypeOK
<1>2. ASSUME submitted \subseteq submitted', UNCHANGED <<sent, fate>> PROVE Goal
    BY <1>2
<1>3. ASSUME NEW m, NEW F, Note(m, F), UNCHANGED <<submitted, sent>> PROVE Goal
    BY <1>1, <1>3 DEF Note
<1>4. ASSUME NEW M, NEW f, NoteAll(M, f), UNCHANGED <<submitted, sent>> PROVE Goal
    BY <1>1, <1>4 DEF NoteAll
<1>5. ASSUME NEW t \in Thread, NEW q, Breaks(t, q) PROVE Goal
    BY <1>1, <1>5 DEF Breaks
<1>6. ASSUME NEW t \in Thread, NEW q, Writes(t, q) PROVE Goal
  <2>1. ASSUME NEW m \in Msg, sent[m] > 0 PROVE sent'[m] > 0
    <3>1. sent'[m] = sent[m] \/ sent'[m] = sent[m] + 1
        BY <1>1, <1>6 DEF Writes
    <3> QED
        BY <1>1, <2>1, <3>1
  <2> QED
      BY <1>6, <2>1 DEF Writes
<1> HIDE DEF Goal
<1>7. ASSUME NEW t \in Thread, NEW q, Moves(t, q) PROVE Goal
  <2>1. ASSUME Registers(t, q) \/ Picks(t, q) \/ Deletes(t, q) \/ Takes(t, q)
                 \/ Proceeds(t, q) \/ Returns(t, q)
        PROVE  Goal
      BY <1>2, <2>1
         DEF Registers, Picks, Deletes, Takes, Proceeds, Returns, historyVars
  <2>2. ASSUME Retries(t, q) \/ HandsOver(t, q) \/ Drops(t, q) \/ Buffers(t, q) PROVE Goal
      BY <1>3, <2>2 DEF Retries, HandsOver, Drops, Buffers
  <2>3. ASSUME Collects(t, q) PROVE Goal
      BY <1>4, <2>3 DEF Collects
  <2> QED
      BY <1>5, <1>6, <1>7, <2>1, <2>2, <2>3 DEF Moves
<1>8. ASSUME Rests \/ Tick PROVE Goal
    BY <1>2, <1>8 DEF Rests, Tick, historyVars
<1>9. ASSUME Crash \/ Cleanup PROVE Goal
    BY <1>4, <1>9 DEF Crash, Cleanup
<1>10. Goal
    BY <1>7, <1>8, <1>9, StepMoves
<1> QED
    BY <1>10 DEF Goal, Delivered

-----------------------------------------------------------------------------
\* With a callback, a flush comes to delete a row only after its message was
\* written or handed over.
LEMMA StepPassed == ASSUME HasHandler PROVE DInv /\ Passed /\ [Next]_vars => Passed'
<1> SUFFICES ASSUME DInv, Passed, [Next]_vars, NEW o \in Thread
             PROVE  /\ h'[o].pc \in {"drain", "dialDrain"} => sent'[h'[o].msg] > 0
                    /\ h'[o].pc = "delete" => Delivered(h[o].msg)'
    BY DEF Passed
<1> DEFINE Goal == /\ h'[o].pc \in {"drain", "dialDrain"} => sent'[h'[o].msg] > 0
                   /\ h'[o].pc = "delete" => Delivered(h[o].msg)'
<1>1. ASSUME h'[o] = h[o] PROVE Goal
  <2>1. h[o].pc \in {"drain", "dialDrain", "delete"} => h[o].msg \in Msg
      BY Facts DEF Routing, Trying, Sending
  <2> QED
      BY <1>1, <2>1, HistoryGrows DEF Passed, Delivered
<1>2. ASSUME h'[o].pc \notin {"drain", "dialDrain", "delete"} PROVE Goal
    BY <1>2
<1>3. ASSUME NEW m \in Msg, h'[o].msg = m, sent'[m] > 0 PROVE Goal
    BY <1>3 DEF Delivered
<1>4. ASSUME NEW m \in Msg, h'[o].msg = m, h'[o].pc = "delete", "handed" \in fate'[m]
      PROVE  Goal
    BY <1>4 DEF Delivered
<1> HIDE DEF Goal
<1>5. ASSUME NEW q, Become(o, q), Moves(o, q) PROVE Goal
  <2>1. h'[o] = q
      BY <1>5, Becomes
  <2>2. fate \in [Msg -> SUBSET Fate] /\ sent \in [Msg -> 0 .. 2]
      BY DEF DInv, TypeOK
  <2>3. ASSUME Registers(o, q) \/ Collects(o, q) \/ Picks(o, q) \/ Deletes(o, q)
                 \/ Takes(o, q) \/ Proceeds(o, q) \/ Retries(o, q)
        PROVE  Goal
      BY <1>2, <2>1, <2>3
         DEF Registers, Collects, Picks, Deletes, Takes, Proceeds, Retries, Unwritten
  <2>4. ASSUME q = Idle PROVE Goal
      BY <1>2, <2>1, <2>4 DEF Idle
  <2>5. ASSUME Writes(o, q) PROVE Goal
    <3>1. PICK m \in Msg : h[o].msg = m /\ q.msg = m
        BY <2>5, Facts DEF Writes, Same, Routing, Trying, Sending
    <3>2. sent'[m] = IF sent[m] < 2 THEN sent[m] + 1 ELSE sent[m]
        BY <2>2, <2>5, <3>1 DEF Writes
    <3>3. sent'[m] > 0
        BY <2>2, <3>2
    <3> QED
        BY <1>3, <2>1, <3>1, <3>3
  <2>6. ASSUME HandsOver(o, q), h[o].reg # None PROVE Goal
    <3>1. PICK m \in Msg : h[o].msg = m /\ q.msg = m /\ q.pc = "delete"
        BY <2>6, Facts, ReturnedIs DEF HandsOver, Same, Routing, Trying, Sending
    <3>2. "handed" \in fate'[m]
        BY <2>2, <2>6, <3>1 DEF HandsOver, Note
    <3> QED
        BY <1>4, <2>1, <3>1, <3>2
  <2>7. ASSUME Returns(o, q), h[o].reg # None PROVE Goal
    <3>1. PICK m \in Msg : h[o].msg = m /\ q.msg = m /\ q.pc = "delete"
        BY <2>7, Facts, ReturnedIs DEF Returns, Same, Routing, Trying, Sending
    <3>2. sent'[m] > 0
        BY <2>7, <3>1, HistoryGrows DEF Returns, Passed
    <3> QED
        BY <1>3, <2>1, <3>1, <3>2
  <2>8. ASSUME HandsOver(o, q) \/ Returns(o, q), h[o].reg = None PROVE Goal
      BY <2>4, <2>8, ReturnedIs DEF HandsOver, Returns
  <2> QED
      BY <1>5, <2>3, <2>4, <2>5, <2>6, <2>7, <2>8 DEF Moves, Drops, Breaks, Buffers
<1>6. ASSUME NEW t \in Thread, t # o, NEW q, Become(t, q) PROVE Goal
    BY <1>1, <1>6, Becomes
<1>7. ASSUME Rests \/ Tick \/ Cleanup PROVE Goal
    BY <1>1, <1>7 DEF Rests, Tick, Cleanup
<1>8. ASSUME Crash PROVE Goal
    BY <1>2, <1>8 DEF Crash, Idle
<1>9. Goal
    BY <1>5, <1>6, <1>7, <1>8, StepMoves
<1> QED
    BY <1>9 DEF Goal

\* A row leaves the buffer only when its message was passed on or is expired.
LEMMA RowLeaves ==
    ASSUME DInv, Passed, [Next]_vars, NEW m \in DOMAIN buffer
    PROVE  m \in DOMAIN buffer' \/ Delivered(m)' \/ "expired" \in fate'[m]
<1> DEFINE Goal == m \in DOMAIN buffer' \/ Delivered(m)' \/ "expired" \in fate'[m]
<1>1. m \in Msg /\ fate \in [Msg -> SUBSET Fate]
    BY DEF DInv, TypeOK, IsTable
<1>2. ASSUME m \in DOMAIN buffer' PROVE Goal
    BY <1>2
<1>3. ASSUME Delivered(m) PROVE Goal
    BY <1>1, <1>3, HistoryGrows
<1>4. ASSUME "expired" \in fate'[m] PROVE Goal
    BY <1>4
<1> HIDE DEF Goal
<1>5. ASSUME NEW t \in Thread, NEW q, Moves(t, q) PROVE Goal
  <2>1. ASSUME Deletes(t, q) PROVE Goal
    <3>1. CASE h[t].msg = m
        BY <1>3, <2>1, <3>1 DEF Deletes, Passed
    <3>2. CASE h[t].msg # m
        BY <1>2, <2>1, <3>2 DEF Deletes, delete_buffered, Drop
    <3> QED
        BY <3>1, <3>2
  <2>2. ASSUME Buffers(t, q) PROVE Goal
      BY <1>2, <2>2 DEF Buffers, buffer_message, Put
  <2>3. ASSUME buffer' = buffer PROVE Goal
      BY <1>2, <2>3
  <2> QED
      BY <1>5, <2>1, <2>2, <2>3
         DEF Moves, Registers, Collects, Picks, Takes, Proceeds, Writes, Retries,
             HandsOver, Returns, Drops, Breaks
<1>6. ASSUME Rests \/ Crash PROVE Goal
    BY <1>2, <1>6 DEF Rests, Crash, tableVars
<1>7. ASSUME Tick PROVE Goal
    BY <1>2, <1>7 DEF Tick, AgeMessages
<1>8. ASSUME Cleanup PROVE Goal
  <2>1. CASE m \in ExpiredMessages(buffer)
      BY <1>1, <1>4, <1>8, <2>1 DEF Cleanup, NoteAll
  <2>2. CASE m \notin ExpiredMessages(buffer)
      BY <1>2, <1>8, <2>2 DEF Cleanup, cleanup_expired_messages, DropAll
  <2> QED
      BY <2>1, <2>2
<1>9. Goal
    BY <1>5, <1>6, <1>7, <1>8, StepMoves
<1> QED
    BY <1>9 DEF Goal

\* A message is marked as buffered only when it gets its row.
LEMMA RowComes ==
    ASSUME DInv, [Next]_vars, NEW m \in Msg, "buffered" \in fate'[m]
    PROVE  "buffered" \in fate[m] \/ m \in DOMAIN buffer'
<1> DEFINE Goal == "buffered" \in fate[m] \/ m \in DOMAIN buffer'
<1>1. fate \in [Msg -> SUBSET Fate]
    BY DEF DInv, TypeOK
<1>2. ASSUME fate' = fate PROVE Goal
    BY <1>2
<1>3. ASSUME NEW x, NEW F, Note(x, F), "buffered" \notin F PROVE Goal
    BY <1>1, <1>3 DEF Note
<1>4. ASSUME NEW M, NEW f, NoteAll(M, f), f # "buffered" PROVE Goal
    BY <1>1, <1>4 DEF NoteAll
<1>5. ASSUME NEW t \in Thread, NEW q, Breaks(t, q) PROVE Goal
    BY <1>1, <1>5 DEF Breaks, Doubt
<1>6. ASSUME NEW t \in Thread, NEW q, Buffers(t, q) PROVE Goal
    BY <1>1, <1>6 DEF Buffers, Note, buffer_message, Put
<1> HIDE DEF Goal
<1>7. ASSUME NEW t \in Thread, NEW q, Moves(t, q) PROVE Goal
  <2>1. ASSUME Retries(t, q) PROVE Goal
      BY <1>3, <2>1 DEF Retries, Doubt
  <2>2. ASSUME HandsOver(t, q) PROVE Goal
    <3>1. "buffered" \notin (IF HasHandler THEN {"handed"} ELSE {}) \cup Doubt(h[t])
        BY DEF Doubt
    <3> QED
        BY <1>3, <2>2, <3>1 DEF HandsOver
  <2>3. ASSUME Drops(t, q) PROVE Goal
    <3>1. "buffered" \notin {"given up"} \cup Doubt(h[t])
        BY DEF Doubt
    <3> QED
        BY <1>3, <2>3, <3>1 DEF Drops
  <2>4. ASSUME Collects(t, q) PROVE Goal
      BY <1>4, <2>4 DEF Collects
  <2> QED
      BY <1>2, <1>5, <1>6, <1>7, <2>1, <2>2, <2>3, <2>4
         DEF Moves, Registers, Picks, Deletes, Takes, Proceeds, Writes, Returns, historyVars
<1>8. ASSUME Rests \/ Tick PROVE Goal
    BY <1>2, <1>8 DEF Rests, Tick, historyVars
<1>9. ASSUME Crash \/ Cleanup PROVE Goal
    BY <1>4, <1>9 DEF Crash, Cleanup
<1>10. Goal
    BY <1>7, <1>8, <1>9, StepMoves
<1> QED
    BY <1>10 DEF Goal

\* A handler lets go of its message only when the message was written, handed
\* over, put into the buffer or given up.
LEMMA HandlerLeaves ==
    ASSUME HasHandler, DInv, Passed, [Next]_vars,
           NEW o \in Thread, NEW m \in Msg, h[o].msg = m
    PROVE  h'[o].msg = m \/ m \in DOMAIN buffer' \/ Delivered(m)' \/ m \in Excused'
<1> DEFINE Goal == h'[o].msg = m \/ m \in DOMAIN buffer' \/ Delivered(m)' \/ m \in Excused'
<1>1. fate \in [Msg -> SUBSET Fate] /\ m # None
    BY NoneAssumption DEF DInv, TypeOK
<1>2. ASSUME h'[o].msg = m PROVE Goal
    BY <1>2
<1>3. ASSUME Delivered(m) \/ "handed" \in fate'[m] PROVE Goal
    BY <1>3, HistoryGrows DEF Delivered
<1>4. ASSUME {"given up", "crashed"} \cap fate'[m] # {} PROVE Goal
    BY <1>4 DEF Excused
<1>5. ASSUME m \in DOMAIN buffer' PROVE Goal
    BY <1>5
<1> HIDE DEF Goal
<1>6. ASSUME NEW q, Become(o, q), Moves(o, q) PROVE Goal
  <2>1. h'[o] = q
      BY <1>6, Becomes
  <2>2. ASSUME Proceeds(o, q) \/ Writes(o, q) \/ Retries(o, q) PROVE Goal
      BY <1>2, <2>1, <2>2 DEF Proceeds, Writes, Retries, Same
  <2>3. ASSUME Deletes(o, q) PROVE Goal
      BY <1>3, <2>3 DEF Deletes, Passed
  <2>4. ASSUME HandsOver(o, q) PROVE Goal
    <3>1. "handed" \in fate'[m]
        BY <1>1, <2>4 DEF HandsOver, Note
    <3> QED
        BY <1>3, <3>1
  <2>5. ASSUME Returns(o, q) PROVE Goal
    <3>1. sent[m] > 0
        BY <2>5 DEF Returns, Passed
    <3> QED
        BY <1>3, <3>1 DEF Delivered
  <2>6. ASSUME Drops(o, q) \/ Breaks(o, q) PROVE Goal
    <3>1. "given up" \in fate'[m]
        BY <1>1, <2>6 DEF Drops, Breaks, Note
    <3> QED
        BY <1>4, <3>1
  <2>7. ASSUME Buffers(o, q) PROVE Goal
      BY <1>5, <2>7 DEF Buffers, buffer_message, Put
  <2> QED
      BY <1>1, <1>6, <2>2, <2>3, <2>4, <2>5, <2>6, <2>7
         DEF Moves, Registers, Collects, Picks, Takes, Idle
<1>7. ASSUME NEW t \in Thread, t # o, NEW q, Become(t, q) PROVE Goal
    BY <1>2, <1>7, Becomes
<1>8. ASSUME Rests \/ Tick \/ Cleanup PROVE Goal
    BY <1>2, <1>8 DEF Rests, Tick, Cleanup
<1>9. ASSUME Crash PROVE Goal
  <2>1. "crashed" \in fate'[m]
      BY <1>1, <1>9 DEF Crash, NoteAll
  <2> QED
      BY <1>4, <2>1
<1>10. Goal
    BY <1>6, <1>7, <1>8, <1>9, StepMoves
<1> QED
    BY <1>10 DEF Goal

\* A message that enters the node has a handler.
LEMMA HandlerComes ==
    ASSUME DInv, [Next]_vars, NEW m \in submitted' \ submitted
    PROVE  \E t \in Thread : h'[t].msg = m
<1>1. ASSUME NEW t \in Thread, NEW q, Become(t, q), Moves(t, q)
      PROVE  h'[t].msg = m
  <2>1. h'[t] = q
      BY <1>1, Becomes
  <2> QED
      BY <1>1, <2>1
         DEF Moves, Registers, Collects, Picks, Deletes, Takes, Proceeds, Writes, Retries,
             HandsOver, Returns, Drops, Breaks, Buffers, historyVars
<1>2. submitted' # submitted
    OBVIOUS
<1>3. ~(Rests \/ Crash \/ Tick \/ Cleanup)
    BY <1>2 DEF Rests, Crash, Tick, Cleanup, historyVars
<1> QED
    BY <1>1, <1>3, StepMoves

KeptInv == DInv /\ Passed /\ BufferedNotLost /\ NoMessageVanishes

LEMMA StepKept == ASSUME HasHandler PROVE KeptInv /\ [Next]_vars => KeptInv'
<1> SUFFICES ASSUME KeptInv, [Next]_vars PROVE KeptInv'
    OBVIOUS
<1>1. DInv' /\ Passed'
    BY StepDInv, StepPassed DEF KeptInv
<1>2. BufferedNotLost'
  <2> SUFFICES ASSUME NEW m \in Msg, "buffered" \in fate'[m]
               PROVE  m \in DOMAIN buffer' \/ Delivered(m)' \/ "expired" \in fate'[m]
      BY DEF BufferedNotLost
  <2>1. \/ m \in DOMAIN buffer \/ m \in DOMAIN buffer'
        \/ Delivered(m) \/ "expired" \in fate[m]
      BY RowComes DEF KeptInv, BufferedNotLost
  <2> QED
      BY <2>1, RowLeaves, HistoryGrows DEF KeptInv
<1>3. NoMessageVanishes'
  <2> SUFFICES ASSUME NEW m \in submitted' PROVE Accounted(m)'
      BY DEF NoMessageVanishes
  <2>1. CASE m \notin submitted
    <3>1. \E t \in Thread : h'[t].msg = m
        BY <2>1, HandlerComes DEF KeptInv
    <3> QED
        BY <3>1 DEF Accounted
  <2>2. CASE m \in submitted
    <3>1. m \in Msg /\ Accounted(m)
        BY <2>2 DEF KeptInv, DInv, TypeOK, NoMessageVanishes
    <3>2. ASSUME NEW t \in Thread, h[t].msg = m PROVE Accounted(m)'
        BY <3>1, <3>2, HandlerLeaves DEF KeptInv, Accounted
    <3>3. ASSUME m \in DOMAIN buffer PROVE Accounted(m)'
        BY <3>1, <3>3, RowLeaves DEF KeptInv, Accounted, Excused
    <3>4. ASSUME Delivered(m) PROVE Accounted(m)'
        BY <3>1, <3>4, HistoryGrows DEF KeptInv, Accounted
    <3>5. ASSUME m \in Excused PROVE Accounted(m)'
        BY <3>1, <3>5, HistoryGrows DEF KeptInv, Accounted, Excused
    <3> QED
        BY <3>1, <3>2, <3>3, <3>4, <3>5 DEF Accounted
  <2> QED
      BY <2>1, <2>2
<1> QED
    BY <1>1, <1>2, <1>3 DEF KeptInv

LEMMA KeptInvariance == ASSUME HasHandler PROVE Spec => []KeptInv
<1>1. Init => KeptInv
    BY InitDInv DEF Init, KeptInv, Passed, BufferedNotLost, NoMessageVanishes, Idle
<1> QED
    BY <1>1, StepKept, PTL DEF Spec

\* With an on_message callback, every message the node took on is being routed,
\* in the buffer, passed on, expired, given up or lost in a crash, whatever
\* fails and whoever reconnects.
THEOREM NoMessageVanishesCorrect == ASSUME HasHandler PROVE Spec => []NoMessageVanishes
<1>1. KeptInv => NoMessageVanishes
    BY DEF KeptInv
<1> QED
    BY <1>1, KeptInvariance, PTL

\* With an on_message callback, no crash, reconnection or overlapping flush
\* loses a message that was buffered.
THEOREM BufferedNotLostCorrect == ASSUME HasHandler PROVE Spec => []BufferedNotLost
<1>1. KeptInv => BufferedNotLost
    BY DEF KeptInv
<1> QED
    BY <1>1, KeptInvariance, PTL

-----------------------------------------------------------------------------
\* No step gives a message to a second handler before it is buffered, nor to
\* anything but a flush afterwards.
LEMMA StepHeld == DInv /\ Held /\ [Next]_vars => Held'
<1> SUFFICES ASSUME DInv, Held, [Next]_vars PROVE Held'
    OBVIOUS
<1>1. /\ fate \in [Msg -> SUBSET Fate] /\ submitted \subseteq Msg /\ DOMAIN buffer \subseteq Msg
      /\ submitted \subseteq submitted' /\ \A m \in Msg : fate[m] \subseteq fate'[m]
    BY HistoryGrows DEF DInv, TypeOK, IsTable
<1>2. \A t \in Thread : /\ h[t].todo \subseteq Msg
                        /\ h[t].reg = None => h[t].todo = {}
                        /\ h[t].msg # None /\ h[t].reg # None => h[t].msg \in h[t].todo
    BY Facts
<1> USE NoneAssumption
<1>3. ASSUME \A m \in Msg : "buffered" \in fate'[m] => "buffered" \in fate[m],
             DOMAIN buffer' \subseteq DOMAIN buffer,
             \A o \in Thread :
                /\ h'[o].todo \subseteq h[o].todo
                /\ h'[o].msg \in {None, h[o].msg} \cup h[o].todo
                /\ h'[o].msg \in Msg /\ h'[o].reg = None =>
                       h'[o].msg = h[o].msg /\ h[o].reg = None
      PROVE  Held'
  <2>1. ASSUME NEW t \in Thread, NEW m \in Msg, h'[t].reg = None, h'[t].msg = m
        PROVE  /\ m \in submitted'
               /\ "buffered" \notin fate'[m]
               /\ \A o \in Thread : h'[o].msg = m => o = t
    <3>1. h[t].reg = None /\ h[t].msg = m
        BY <1>3, <2>1
    <3>2. m \in submitted' /\ "buffered" \notin fate[m] /\ "buffered" \notin fate'[m]
        BY <1>1, <1>3, <3>1 DEF Held
    <3>3. ASSUME NEW o \in Thread, h'[o].msg = m PROVE o = t
        BY <1>3, <3>1, <3>2, <3>3 DEF Held
    <3> QED
        BY <3>2, <3>3
  <2>2. /\ \A m \in Msg : "buffered" \in fate'[m] => m \in submitted'
        /\ \A m \in DOMAIN buffer' : "buffered" \in fate'[m]
        /\ \A t \in Thread : \A m \in h'[t].todo : "buffered" \in fate'[m]
      BY <1>1, <1>2, <1>3 DEF Held
  <2>3. ASSUME NEW t \in Thread, NEW o \in Thread, NEW m \in h'[t].todo \cap h'[o].todo, t # o
        PROVE  "doubtful" \in fate'[m]
      BY <1>1, <1>2, <1>3, <2>3 DEF Held
  <2> QED
      BY <2>1, <2>2, <2>3 DEF Held
<1>4. ASSUME NEW t \in Thread, NEW q, Become(t, q),
             \A m \in Msg : "buffered" \in fate'[m] => "buffered" \in fate[m],
             DOMAIN buffer' \subseteq DOMAIN buffer,
             q.todo \subseteq h[t].todo,
             q.msg \in {None, h[t].msg} \cup h[t].todo,
             q.msg \in Msg /\ q.reg = None => q.msg = h[t].msg /\ h[t].reg = None
      PROVE  Held'
    BY <1>3, <1>4, Becomes
<1>5. ASSUME NEW x, NEW F, Note(x, F), "buffered" \notin F
      PROVE  \A m \in Msg : "buffered" \in fate'[m] => "buffered" \in fate[m]
    BY <1>1, <1>5 DEF Note
<1>6. ASSUME NEW M, NEW f, NoteAll(M, f), f # "buffered"
      PROVE  \A m \in Msg : "buffered" \in fate'[m] => "buffered" \in fate[m]
    BY <1>1, <1>6 DEF NoteAll
<1>7. ASSUME NEW t \in Thread, NEW q, Become(t, q), Moves(t, q) PROVE Held'
  <2>1. ASSUME Registers(t, q) \/ Picks(t, q) \/ Proceeds(t, q) \/ Writes(t, q) PROVE Held'
    <3>1. h[t].pc = "flush" => h[t].reg # None
        BY DEF DInv, Shape, MsgShape
    <3> QED
        BY <1>2, <1>4, <1>7, <2>1, <3>1
           DEF Registers, Picks, Proceeds, Writes, Same, historyVars
  <2>2. ASSUME Deletes(t, q) PROVE Held'
    <3>1. DOMAIN buffer' \subseteq DOMAIN buffer
        BY <2>2 DEF Deletes, delete_buffered, Drop
    <3> QED
        BY <1>4, <1>7, <2>2, <3>1 DEF Deletes, historyVars
  <2>3. ASSUME Retries(t, q) PROVE Held'
    <3>1. "buffered" \notin Doubt(h[t])
        BY DEF Doubt
    <3>2. \A m \in Msg : "buffered" \in fate'[m] => "buffered" \in fate[m]
        BY <1>5, <2>3, <3>1 DEF Retries
    <3> QED
        BY <1>4, <1>7, <2>3, <3>2 DEF Retries, Same
  <2>4. ASSUME q = Returned(h[t]) \/ q = Idle, buffer' = buffer,
               \A m \in Msg : "buffered" \in fate'[m] => "buffered" \in fate[m]
        PROVE  Held'
    <3>1. \/ q.todo = {} /\ q.msg = None
          \/ Same(t, q)
        BY <2>4, ReturnedIs DEF Idle
    <3> QED
        BY <1>4, <1>7, <2>4, <3>1 DEF Same
  <2>5. ASSUME HandsOver(t, q) PROVE Held'
    <3>1. "buffered" \notin (IF HasHandler THEN {"handed"} ELSE {}) \cup Doubt(h[t])
        BY DEF Doubt
    <3>2. \A m \in Msg : "buffered" \in fate'[m] => "buffered" \in fate[m]
        BY <1>5, <2>5, <3>1 DEF HandsOver
    <3> QED
        BY <2>4, <2>5, <3>2 DEF HandsOver
  <2>6. ASSUME Drops(t, q) PROVE Held'
    <3>1. "buffered" \notin {"given up"} \cup Doubt(h[t])
        BY DEF Doubt
    <3>2. \A m \in Msg : "buffered" \in fate'[m] => "buffered" \in fate[m]
        BY <1>5, <2>6, <3>1 DEF Drops
    <3> QED
        BY <2>4, <2>6, <3>2 DEF Drops
  <2>7. ASSUME Breaks(t, q) PROVE Held'
    <3>1. \A m \in Msg : "buffered" \in fate'[m] => "buffered" \in fate[m]
        BY <1>1, <2>7 DEF Breaks, Doubt
    <3> QED
        BY <2>4, <2>7, <3>1 DEF Breaks
  <2>8. ASSUME Returns(t, q) PROVE Held'
      BY <2>4, <2>8 DEF Returns, historyVars
  <2>9. h'[t] = q /\ \A o \in Thread : o # t => h'[o] = h[o]
      BY <1>7, Becomes
  <2>10. ASSUME Takes(t, q) PROVE Held'
    <3>1. ASSUME NEW o \in Thread, h[o].msg = q.msg PROVE FALSE
        BY <1>2, <2>10, <3>1 DEF Takes, Held
    <3>2. /\ q.msg \in Msg \ submitted /\ q.todo = {} /\ q.reg = None /\ fate' = fate
          /\ buffer' = buffer /\ submitted' = submitted \cup {q.msg}
        BY <2>10 DEF Takes
    <3>3. "buffered" \notin fate[q.msg]
        BY <3>2 DEF Held
    <3>4. \A o \in Thread, m \in Msg :
            h'[o].reg = None /\ h'[o].msg = m =>
                /\ m \in submitted'
                /\ "buffered" \notin fate'[m]
                /\ \A p \in Thread : h'[p].msg = m => p = o
        BY <2>9, <3>1, <3>2, <3>3 DEF Held
    <3>5. \A o \in Thread : h'[o].todo \subseteq h[o].todo
        BY <2>9, <3>2
    <3>6. /\ \A m \in Msg : "buffered" \in fate'[m] => m \in submitted'
          /\ \A m \in DOMAIN buffer' : "buffered" \in fate'[m]
          /\ \A o \in Thread : \A m \in h'[o].todo : "buffered" \in fate'[m]
        BY <3>2, <3>5 DEF Held
    <3>7. \A o, p \in Thread : \A m \in h'[o].todo \cap h'[p].todo :
            o # p => "doubtful" \in fate'[m]
        BY <3>2, <3>5 DEF Held
    <3> QED
        BY <3>4, <3>6, <3>7 DEF Held
  <2>11. ASSUME Collects(t, q) PROVE Held'
    <3>1. \A m \in Msg : "buffered" \in fate'[m] => "buffered" \in fate[m]
        BY <1>6, <2>11 DEF Collects
    <3>2. /\ q.msg = None /\ q.todo \subseteq DOMAIN buffer /\ buffer' = buffer
          /\ submitted' = submitted
        BY <2>11 DEF Collects, get_buffered
    <3>3. ASSUME NEW m \in q.todo, NEW o \in Thread, o # t, m \in h[o].todo
          PROVE  "doubtful" \in fate'[m]
        BY <1>1, <2>11, <3>2, <3>3 DEF Collects, NoteAll
    <3>4. \A o \in Thread, m \in Msg :
            h'[o].reg = None /\ h'[o].msg = m =>
                /\ m \in submitted'
                /\ "buffered" \notin fate'[m]
                /\ \A p \in Thread : h'[p].msg = m => p = o
        BY <2>9, <3>1, <3>2 DEF Held
    <3>5. \A o \in Thread : \A m \in h'[o].todo : "buffered" \in fate'[m]
        BY <1>1, <1>2, <2>9, <3>2 DEF Held
    <3>6. \A o, p \in Thread : \A m \in h'[o].todo \cap h'[p].todo :
            o # p => "doubtful" \in fate'[m]
        BY <1>1, <1>2, <2>9, <3>2, <3>3 DEF Held
    <3> QED
        BY <1>1, <3>1, <3>2, <3>4, <3>5, <3>6 DEF Held
  <2>12. ASSUME Buffers(t, q) PROVE Held'
    <3>1. PICK x \in Msg : h[t].msg = x /\ h[t].reg = None
        BY <2>12, Facts DEF Buffers, Routing
    <3>2. /\ q.msg = None /\ q.todo = {} /\ DOMAIN buffer' \subseteq DOMAIN buffer \cup {x}
          /\ submitted' = submitted
        BY <2>12, <3>1 DEF Buffers, Idle, buffer_message, Put
    <3>3. "buffered" \in fate'[x] /\ \A m \in Msg : m # x => fate'[m] = fate[m]
        BY <1>1, <2>12, <3>1 DEF Buffers, Note
    <3>4. x \in submitted /\ \A o \in Thread : h[o].msg = x => o = t
        BY <3>1 DEF Held
    <3>5. \A o \in Thread, m \in Msg :
            h'[o].reg = None /\ h'[o].msg = m =>
                /\ m \in submitted'
                /\ "buffered" \notin fate'[m]
                /\ \A p \in Thread : h'[p].msg = m => p = o
        BY <2>9, <3>2, <3>3, <3>4 DEF Held
    <3>6. \A o \in Thread : h'[o].todo \subseteq h[o].todo
        BY <2>9, <3>2
    <3>7. /\ \A m \in Msg : "buffered" \in fate'[m] => m \in submitted'
          /\ \A m \in DOMAIN buffer' : "buffered" \in fate'[m]
          /\ \A o \in Thread : \A m \in h'[o].todo : "buffered" \in fate'[m]
        BY <1>1, <1>2, <3>2, <3>3, <3>4, <3>6 DEF Held
    <3>8. \A o, p \in Thread : \A m \in h'[o].todo \cap h'[p].todo :
            o # p => "doubtful" \in fate'[m]
        BY <1>1, <1>2, <3>6 DEF Held
    <3> QED
        BY <3>5, <3>7, <3>8 DEF Held
  <2> QED
      BY <1>7, <2>1, <2>2, <2>3, <2>5, <2>6, <2>7, <2>8, <2>10, <2>11, <2>12 DEF Moves
<1>8. ASSUME Rests PROVE Held'
    BY <1>3, <1>8 DEF Rests, historyVars
<1>9. ASSUME Crash PROVE Held'
    BY <1>3, <1>6, <1>9 DEF Crash, Idle, tableVars
<1>10. ASSUME Tick \/ Cleanup PROVE Held'
  <2>1. DOMAIN buffer' \subseteq DOMAIN buffer
      BY <1>10 DEF Tick, Cleanup, AgeMessages, cleanup_expired_messages, DropAll
  <2>2. \A m \in Msg : "buffered" \in fate'[m] => "buffered" \in fate[m]
      BY <1>6, <1>10 DEF Tick, Cleanup, historyVars
  <2> QED
      BY <1>3, <1>10, <2>1, <2>2 DEF Tick, Cleanup
<1> QED
    BY <1>7, <1>8, <1>9, <1>10, StepMoves

\* What Once says of a message.
OnceFor(m) ==
    /\ sent[m] <= 1
    /\ m \notin submitted => sent[m] = 0
    /\ \A t \in Thread :
         /\ h[t].msg = m /\ h[t].pc \in Unwritten => sent[m] = 0
         /\ m \in h[t].todo /\ h[t].msg # m => sent[m] = 0
    /\ m \in DOMAIN buffer /\ sent[m] > 0 =>
         \E t \in Thread :
             h[t].reg # None /\ h[t].msg = m /\ h[t].pc \in {"drain", "delete"}

\* No step writes a message again without a cause.
LEMMA StepOnce == DInv /\ Held /\ Once /\ [Next]_vars => Once'
<1> SUFFICES ASSUME DInv, Held, Once, [Next]_vars, NEW m \in Msg, Clean(m)'
             PROVE  OnceFor(m)'
    BY DEF Once, OnceFor
<1>1. /\ fate \in [Msg -> SUBSET Fate] /\ sent \in [Msg -> 0 .. 2]
      /\ submitted \subseteq submitted' /\ fate[m] \subseteq fate'[m]
    BY HistoryGrows DEF DInv, TypeOK
<1>2. OnceFor(m) /\ "doubtful" \notin fate'[m] /\ "crashed" \notin fate'[m]
    BY <1>1 DEF Once, OnceFor, Clean
<1>3. \A t \in Thread : /\ h[t].reg = None => h[t].todo = {}
                        /\ h[t].msg # None /\ h[t].reg # None => h[t].msg \in h[t].todo
    BY Facts
<1> USE NoneAssumption
\* Nothing is written, and where m waits it waited before.
<1>4. ASSUME sent'[m] = sent[m],
             m \in DOMAIN buffer' => m \in DOMAIN buffer \/ sent[m] = 0,
             \A o \in Thread :
                /\ h'[o].msg = m /\ h'[o].pc \in Unwritten =>
                     \/ h[o].msg = m /\ h[o].pc \in Unwritten
                     \/ sent[m] = 0
                /\ m \in h'[o].todo /\ h'[o].msg # m =>
                     \/ m \in h[o].todo /\ h[o].msg # m
                     \/ sent[m] = 0
                /\ h[o].reg # None /\ h[o].msg = m /\ h[o].pc \in {"drain", "delete"} =>
                     \/ h'[o].reg # None /\ h'[o].msg = m /\ h'[o].pc \in {"drain", "delete"}
                     \/ m \notin DOMAIN buffer'
      PROVE  OnceFor(m)'
    BY <1>1, <1>2, <1>4 DEF OnceFor
<1>5. ASSUME NEW t \in Thread, NEW q, Become(t, q), sent'[m] = sent[m],
             m \in DOMAIN buffer' => m \in DOMAIN buffer \/ sent[m] = 0,
             q.msg = m /\ q.pc \in Unwritten =>
                 (h[t].msg = m /\ h[t].pc \in Unwritten) \/ sent[m] = 0,
             m \in q.todo /\ q.msg # m => (m \in h[t].todo /\ h[t].msg # m) \/ sent[m] = 0,
             h[t].reg # None /\ h[t].msg = m /\ h[t].pc \in {"drain", "delete"} =>
                 \/ q.reg # None /\ q.msg = m /\ q.pc \in {"drain", "delete"}
                 \/ m \notin DOMAIN buffer'
      PROVE  OnceFor(m)'
    BY <1>4, <1>5, Becomes
<1>6. ASSUME NEW t \in Thread, NEW q, Become(t, q), Moves(t, q) PROVE OnceFor(m)'
  <2>1. ASSUME Registers(t, q) PROVE OnceFor(m)'
      BY <1>5, <1>6, <2>1 DEF Registers, historyVars
  <2>2. ASSUME Collects(t, q) PROVE OnceFor(m)'
    <3>1. ASSUME m \in q.todo PROVE sent[m] = 0
      <4>1. m \in DOMAIN buffer
          BY <2>2, <3>1 DEF Collects, get_buffered
      <4>2. ASSUME sent[m] > 0 PROVE FALSE
        <5>1. PICK o \in Thread : h[o].reg # None /\ h[o].msg = m
            BY <1>2, <4>1, <4>2 DEF OnceFor
        <5>2. o # t /\ m \in h[o].todo
            BY <1>3, <2>2, <5>1 DEF Collects
        <5>3. "doubtful" \in fate'[m]
            BY <1>1, <2>2, <3>1, <5>2 DEF Collects, NoteAll
        <5> QED
            BY <1>2, <5>3
      <4> QED
          BY <1>1, <4>2
    <3> QED
        BY <1>5, <1>6, <2>2, <3>1 DEF Collects
  <2>3. ASSUME Picks(t, q) PROVE OnceFor(m)'
    <3>1. q.msg = m => sent[m] = 0
        BY <1>2, <2>3 DEF Picks, OnceFor
    <3> QED
        BY <1>5, <1>6, <2>3, <3>1 DEF Picks, historyVars
  <2>4. ASSUME Deletes(t, q) PROVE OnceFor(m)'
    <3>1. DOMAIN buffer' = DOMAIN buffer \ {h[t].msg}
        BY <2>4 DEF Deletes, delete_buffered, Drop
    <3> QED
        BY <1>5, <1>6, <2>4, <3>1 DEF Deletes, historyVars
  <2>5. ASSUME Takes(t, q) PROVE OnceFor(m)'
    <3>1. q.msg = m => sent[m] = 0
        BY <1>2, <2>5 DEF Takes, OnceFor
    <3> QED
        BY <1>5, <1>6, <2>5, <3>1 DEF Takes, Idle
  <2>6. ASSUME Proceeds(t, q) PROVE OnceFor(m)'
      BY <1>5, <1>6, <2>6 DEF Proceeds, Same, historyVars, Unwritten
  <2>7. ASSUME Writes(t, q), h[t].msg # m PROVE OnceFor(m)'
    <3>1. sent'[m] = sent[m]
        BY <1>1, <2>7 DEF Writes
    <3> QED
        BY <1>5, <1>6, <2>7, <3>1 DEF Writes, Same
  <2>8. ASSUME Writes(t, q), h[t].msg = m PROVE OnceFor(m)'
    <3>1. h[t].pc \in Unwritten
        BY <2>8 DEF Writes, Unwritten
    <3>2. sent[m] = 0
        BY <1>2, <2>8, <3>1 DEF OnceFor
    <3>3. sent'[m] = 1
        BY <1>1, <2>8, <3>2 DEF Writes
    <3>4. m \in submitted'
        BY <1>1, <1>3, <2>8 DEF Held
    <3>5. ASSUME NEW o \in Thread, o # t PROVE h[o].msg # m /\ m \notin h[o].todo
      <4>1. m \notin h[o].todo
          BY <1>1, <1>2, <1>3, <2>8, <3>5 DEF Held
      <4> QED
          BY <1>3, <2>8, <3>5, <4>1 DEF Held
    <3>6. /\ q.msg = m /\ q.pc \notin Unwritten /\ q.reg = h[t].reg
          /\ (h[t].reg # None => q.pc = "drain")
        BY <2>8 DEF Writes, Same, Unwritten
    <3>7. m \in DOMAIN buffer' => h[t].reg # None
        BY <2>8 DEF Writes, Held
    <3>8. h'[t] = q /\ \A o \in Thread : o # t => h'[o] = h[o]
        BY <1>6, Becomes
    <3>9. \A o \in Thread :
            /\ h'[o].msg = m /\ h'[o].pc \in Unwritten => FALSE
            /\ m \in h'[o].todo /\ h'[o].msg # m => FALSE
        BY <3>5, <3>6, <3>8
    <3>10. m \in DOMAIN buffer' =>
             h'[t].reg # None /\ h'[t].msg = m /\ h'[t].pc \in {"drain", "delete"}
        BY <3>6, <3>7, <3>8
    <3> QED
        BY <3>3, <3>4, <3>9, <3>10 DEF OnceFor
  <2>9. ASSUME Retries(t, q) PROVE OnceFor(m)'
    <3>1. h[t].msg = m => h[t].pc \in Unwritten
        BY <1>1, <1>2, <2>9 DEF Retries, Note, Doubt, Sending, Unwritten
    <3> QED
        BY <1>5, <1>6, <2>9, <3>1 DEF Retries, Same, Unwritten
  <2>10. ASSUME HandsOver(t, q) \/ Returns(t, q) PROVE OnceFor(m)'
    <3>1. \/ h[t].reg = None /\ q.pc = "idle" /\ q.todo = {}
          \/ h[t].reg # None /\ q.pc = "delete" /\ Same(t, q)
        BY <2>10, ReturnedIs DEF HandsOver, Returns, Idle
    <3> QED
        BY <1>5, <1>6, <2>10, <3>1 DEF HandsOver, Returns, Same, historyVars, Unwritten
  <2>11. ASSUME Drops(t, q) PROVE OnceFor(m)'
      BY <1>5, <1>6, <2>11 DEF Drops, Idle
  <2>12. ASSUME Breaks(t, q) PROVE OnceFor(m)'
    <3>1. h[t].msg = m => h[t].pc \notin {"drain", "delete"}
        BY <1>1, <1>2, <2>12 DEF Breaks, Doubt
    <3> QED
        BY <1>5, <1>6, <2>12, <3>1 DEF Breaks, Idle
  <2>13. ASSUME Buffers(t, q) PROVE OnceFor(m)'
    <3>1. h[t].msg = m => sent[m] = 0
        BY <1>2, <2>13 DEF Buffers, OnceFor, Unwritten
    <3>2. DOMAIN buffer' \subseteq DOMAIN buffer \cup {h[t].msg}
        BY <2>13 DEF Buffers, buffer_message, Put
    <3> QED
        BY <1>5, <1>6, <2>13, <3>1, <3>2 DEF Buffers, Idle
  <2> QED
      BY <1>6, <2>1, <2>2, <2>3, <2>4, <2>5, <2>6, <2>7, <2>8, <2>9, <2>10, <2>11, <2>12,
         <2>13 DEF Moves
<1>7. ASSUME Rests PROVE OnceFor(m)'
    BY <1>4, <1>7 DEF Rests, historyVars
<1>8. ASSUME Crash PROVE OnceFor(m)'
  <2>1. \A o \in Thread : h[o].msg # m
      BY <1>1, <1>2, <1>8 DEF Crash, NoteAll
  <2> QED
      BY <1>4, <1>8, <2>1 DEF Crash, Idle, tableVars
<1>9. ASSUME Tick \/ Cleanup PROVE OnceFor(m)'
  <2>1. DOMAIN buffer' \subseteq DOMAIN buffer
      BY <1>9 DEF Tick, Cleanup, AgeMessages, cleanup_expired_messages, DropAll
  <2> QED
      BY <1>4, <1>9, <2>1 DEF Tick, Cleanup, historyVars
<1> QED
    BY <1>6, <1>7, <1>8, <1>9, StepMoves

\* A message is written twice only if two flushes had it, a write was reported
\* failed after the fact, or the process died while it was being sent.
THEOREM TwiceCorrect == Spec => []TwiceNeedsCause
<1> DEFINE I == DInv /\ Held /\ Once
<1>1. Init => I
  <2> SUFFICES ASSUME Init PROVE Held /\ Once
      BY InitDInv
  <2>1. Held
      BY NoneAssumption, EmptyIsTable DEF Init, Held, Idle
  <2>2. Once
      BY NoneAssumption, EmptyIsTable DEF Init, Once, Idle
  <2> QED
      BY <2>1, <2>2
<1>2. I /\ [Next]_vars => I'
    BY StepDInv, StepHeld, StepOnce
<1>3. I => TwiceNeedsCause
    BY DEF DInv, TypeOK, Once, Clean, TwiceNeedsCause
<1> QED
    BY <1>1, <1>2, <1>3, PTL DEF Spec

-----------------------------------------------------------------------------
\* A receive loop that ended does not run again.
LEMMA LoopKeeps ==
    ASSUME TransportTypeOK, [TransportNext]_transportVars, NEW k \in Conn, Used(k),
           loop'[k] = "live"
    PROVE  loop[k] = "live"
<1> USE DEF TransportTypeOK, Used
<1>1. ASSUME NEW j \in Conn, Accept(j) \/ Dial(j) PROVE loop[k] = "live"
    BY <1>1 DEF Accept, Dial, Register
<1>2. ASSUME NEW j \in Conn, LoopEnds(j) \/ UnpackFails(j) PROVE loop[k] = "live"
    BY <1>2 DEF LoopEnds, UnpackFails, LoopLeaves
<1>3. ASSUME UNCHANGED loop PROVE loop[k] = "live"
    BY <1>3
<1>4. ASSUME Die PROVE loop[k] = "live"
    BY <1>4 DEF Die
<1> QED
    BY <1>1, <1>2, <1>3, <1>4
       DEF TransportNext, WsCloses, SendFails, PeerLeaves, ServerCloses, StopCollects,
           StopCloses, StopReturns, transportVars

\* A step changes presence_table only where a registration writes its row.
LEMMA PresenceSteps ==
    ASSUME [Next]_vars
    PROVE  presence' = presence \/ \E t \in Thread : UpdatePresence(t)
BY DEF Next, Advance, RegisterCell, CollectBuffered, FlushNext, FlushDone, DeleteBuffered,
       GetPresence, GetCell, SendTo, SendWrites, SendToFails, CallbackRaises, SendReturns,
       DialSucceeds, DialFails, SendViaWrites, SendViaFails, BufferMessage, RecvMsg,
       SendMessage, RecvRegister, RegisterCellLocally, PeerConnects, ConnCloses,
       LoopStops, MalformedPacket, NodeLeaves, Crash, Tick, Cleanup, restVars, tableVars,
       vars

\* A cell that is at home here stays so.
LEMMA HomeKeeps ==
    ASSUME [Next]_vars, NEW c, HomeHere(c)
    PROVE  HomeHere(c)'
BY PresenceSteps DEF UpdatePresence, update_presence, HomeHere, Put

\* The connections that come to be registered have their registration ahead.
LEMMA RegdSteps ==
    ASSUME DInv, [Next]_vars, NEW k \in regd'
    PROVE  k \in regd \/ (h'[k].pc = "register" /\ Used(k)')
<1>1. regd' = regd \/ \E j \in Conn, c \in Cell : RecvRegister(j, c)
    BY DEF Next, Advance, RegisterCell, UpdatePresence, CollectBuffered, FlushNext,
           FlushDone, DeleteBuffered, GetPresence, GetCell, SendTo, SendWrites,
           SendToFails, CallbackRaises, SendReturns, DialSucceeds, DialFails,
           SendViaWrites, SendViaFails, BufferMessage, RecvMsg, SendMessage,
           RegisterCellLocally, PeerConnects, ConnCloses, LoopStops, MalformedPacket,
           NodeLeaves, Crash, Tick, Cleanup, restVars, vars
<1>2. ASSUME NEW j \in Conn, NEW c \in Cell, RecvRegister(j, c), k \notin regd
      PROVE  h'[k].pc = "register" /\ Used(k)'
  <2>1. k = j /\ loop'[k] = "live"
      BY <1>2 DEF RecvRegister, transportVars
  <2>2. h'[k] = [Idle EXCEPT !.pc = "register", !.reg = c]
      BY <1>2, <2>1 DEF RecvRegister, Become, DInv, TypeOK, Thread
  <2> QED
      BY <2>1, <2>2 DEF Used, Idle
<1> QED
    BY <1>1, <1>2

\* A handler past its registration has made this node the home of its cell.
LEMMA AnnounceSteps ==
    ASSUME DInv, [Next]_vars, NEW k \in Conn, NEW c, h[k].reg = c,
           h[k].pc \in {"register", "announce"}, h'[k].pc \notin {"register", "announce"},
           loop'[k] = "live"
    PROVE  HomeHere(c)'
<1>1. k \in Thread
    BY DEF Thread
<1>2. CASE \E t \in Thread : UpdatePresence(t)
  <2>1. PICK t \in Thread : UpdatePresence(t)
      BY <1>2
  <2>2. t = k
      BY <1>1, <2>1 DEF UpdatePresence, Goto, Become, DInv, TypeOK
  <2> QED
      BY <2>1, <2>2 DEF UpdatePresence, update_presence, HomeHere, Put
<1>3. ASSUME ~\E t \in Thread : UpdatePresence(t) PROVE FALSE
  <2>1. ASSUME NEW t \in Thread, Advance(t) PROVE FALSE
    <3>1. ASSUME RegisterCell(t) PROVE FALSE
      <4>1. h'[k].pc = IF k = t THEN "announce" ELSE h[k].pc
          BY <1>1, <3>1 DEF RegisterCell, Goto, Become, DInv, TypeOK, Handler
      <4> QED
          BY <4>1
    <3>2. \E q : Become(t, q)
        BY <2>1, AdvanceMoves
    <3>3. t = k
        BY <1>1, <3>2, Becomes
    <3> QED
        BY <1>3, <2>1, <3>1, <3>3
           DEF Advance, CollectBuffered, FlushNext, FlushDone, DeleteBuffered,
               GetPresence, GetCell, SendTo, SendWrites, SendToFails, CallbackRaises,
               SendReturns, DialSucceeds, DialFails, SendViaWrites, SendViaFails,
               BufferMessage
  <2>2. ASSUME NEW t \in Thread, h[t] = Idle, NEW q, Become(t, q) PROVE FALSE
      BY <1>1, <2>2, Becomes DEF Idle
  <2>3. ASSUME h' = h PROVE FALSE
      BY <2>3
  <2>4. ASSUME Crash PROVE FALSE
      BY <2>4 DEF Crash, Die, DInv, TypeOK, TransportTypeOK
  <2> QED
      BY <2>1, <2>2, <2>3, <2>4
         DEF Next, RecvMsg, SendMessage, RecvRegister, RegisterCellLocally, PeerConnects,
             ConnCloses, LoopStops, MalformedPacket, NodeLeaves, Tick, Cleanup, restVars,
             vars, Thread
<1> QED
    BY <1>2, <1>3

\* A connection only ever registers the cell that was proven at its other end.
LEMMA StepOwn ==
    ASSUME DInv, Flushed, [Next]_vars, NEW k \in Conn, h'[k].reg # None
    PROVE  h'[k].reg = peer[k]
<1> DEFINE Goal == h'[k].reg = peer[k]
<1>1. k \in Thread /\ (h[k].reg # None => h[k].reg = peer[k])
    BY DEF Thread, Flushed
<1>2. ASSUME h'[k].reg = h[k].reg PROVE Goal
    BY <1>1, <1>2
<1>3. ASSUME NEW q, Become(k, q), Moves(k, q) PROVE Goal
  <2>1. h'[k] = q
      BY <1>1, <1>3, Becomes
  <2>2. q # Idle
      BY <2>1 DEF Idle
  <2>3. ASSUME Registers(k, q) PROVE Goal
      BY <1>1, <2>1, <2>3 DEF Registers
  <2>4. ASSUME Collects(k, q) \/ Picks(k, q) \/ Deletes(k, q) \/ Proceeds(k, q)
                 \/ Writes(k, q) \/ Retries(k, q)
        PROVE  Goal
      BY <1>2, <2>1, <2>4 DEF Collects, Picks, Deletes, Proceeds, Writes, Retries, Same
  <2>5. ASSUME HandsOver(k, q) \/ Returns(k, q) PROVE Goal
      BY <1>1, <1>2, <2>1, <2>2, <2>5, ReturnedIs DEF HandsOver, Returns, Same
  <2>6. ~Takes(k, q)
      BY <2>1 DEF Takes
  <2> QED
      BY <1>3, <2>2, <2>3, <2>4, <2>5, <2>6 DEF Moves, Drops, Breaks, Buffers
<1>4. ASSUME NEW t \in Thread, t # k, NEW q, Become(t, q) PROVE Goal
    BY <1>1, <1>2, <1>4, Becomes
<1>5. ASSUME Rests \/ Tick \/ Cleanup PROVE Goal
    BY <1>2, <1>5 DEF Rests, Tick, Cleanup
<1>6. ~Crash
    BY <1>1 DEF Crash, Idle
<1> HIDE DEF Goal
<1>7. Goal
    BY <1>3, <1>4, <1>5, <1>6, StepMoves
<1> QED
    BY <1>7 DEF Goal

\* A row of a registered cell is in the snapshot of the flush, or has a cause to
\* be left behind.
LEMMA StepLeft ==
    ASSUME DInv, Flushed, [Next]_vars, NEW k \in regd, NEW m \in DOMAIN buffer',
           loop[k] = "live", loop'[k] = "live", peer[k] = Dest[m], buffer'[m] > 0,
           h'[k].pc \notin {"register", "announce", "collect"}
    PROVE  "late" \in fate'[m] \/ m \in h'[k].todo
<1> DEFINE Goal == "late" \in fate'[m] \/ m \in h'[k].todo
           Early == h[k].pc \in {"register", "announce", "collect"}
           Old == m \in DOMAIN buffer /\ buffer[m] > 0
<1>1. /\ k \in Conn /\ k \in Thread /\ m \in Msg /\ fate[m] \subseteq fate'[m]
      /\ fate \in [Msg -> SUBSET Fate]
    BY HistoryGrows, StepTables DEF DInv, TypeOK, Thread, IsTable
<1>2. ASSUME Old, ~Early PROVE "late" \in fate'[m] \/ m \in h[k].todo
    BY <1>1, <1>2 DEF Flushed
<1>3. ASSUME Old, ~Early, h[k].todo \subseteq h'[k].todo PROVE Goal
    BY <1>2, <1>3
<1>4. ASSUME "late" \in fate'[m] PROVE Goal
    BY <1>4
<1>5. ASSUME buffer' = buffer PROVE Old
    BY <1>5
<1>6. ASSUME NEW t \in Thread, NEW q, Become(t, q), Buffers(t, q)
      PROVE  Old \/ "late" \in fate'[m]
  <2>1. CASE h[t].msg \in DOMAIN buffer
      BY <1>6, <2>1 DEF Buffers, buffer_message
  <2>2. CASE h[t].msg \notin DOMAIN buffer
    <3>1. CASE m # h[t].msg
        BY <1>6, <2>2, <3>1 DEF Buffers, buffer_message, Put
    <3>2. CASE m = h[t].msg
      <4>1. h[k].pc \notin {"register", "announce"}
        <5>1. h'[k] = h[k] \/ t = k
            BY <1>1, <1>6, Becomes
        <5> QED
            BY <1>6, <5>1 DEF Buffers
      <4>2. HomeHere(Dest[m])
          BY <4>1 DEF Flushed
      <4> QED
          BY <1>1, <1>6, <3>2, <4>2 DEF Buffers, Note, Raced, HomeHere
    <3> QED
        BY <3>1, <3>2
  <2> QED
      BY <2>1, <2>2
<1> HIDE DEF Goal, Old
<1>7. ASSUME NEW q, Become(k, q), Moves(k, q) PROVE Goal
  <2>1. h'[k] = q
      BY <1>1, <1>7, Becomes
  <2>2. h[k].reg = None => h[k].todo = {}
      BY <1>1, Facts
  <2>3. ASSUME Registers(k, q) PROVE Goal
      BY <1>1, <1>3, <1>5, <2>1, <2>3 DEF Registers
  <2>4. ASSUME Collects(k, q) PROVE Goal
    <3>1. h[k].reg = peer[k]
        BY <1>1, <2>4 DEF Collects, Flushed, DInv, Shape, MsgShape
    <3>2. Old
        BY <1>5, <2>4 DEF Collects
    <3>3. m \in q.todo
        BY <2>4, <3>1, <3>2 DEF Collects, get_buffered, Old
    <3> QED
        BY <2>1, <3>3 DEF Goal
  <2>5. ASSUME Picks(k, q) \/ Proceeds(k, q) \/ Writes(k, q) \/ Retries(k, q) PROVE Goal
      BY <1>3, <1>5, <2>1, <2>5
         DEF Picks, Proceeds, Writes, Retries, Same, Unwritten, Sending
  <2>6. ASSUME Deletes(k, q) PROVE Goal
    <3>1. Old /\ m # h[k].msg
        BY <2>6 DEF Deletes, delete_buffered, Drop, Old
    <3>2. "late" \in fate'[m] \/ m \in h[k].todo
        BY <1>2, <2>6, <3>1 DEF Deletes
    <3> QED
        BY <2>1, <2>6, <3>1, <3>2 DEF Deletes, Goal
  <2>7. ASSUME Takes(k, q) PROVE Goal
      BY <1>3, <1>5, <2>1, <2>7 DEF Takes, Idle
  <2>8. ASSUME HandsOver(k, q) \/ Returns(k, q) PROVE Goal
    <3>1. h[k].todo \subseteq q.todo
        BY <1>1, <2>2, <2>8, ReturnedIs DEF HandsOver, Returns, Same, Idle
    <3> QED
        BY <1>3, <1>5, <2>1, <2>8, <3>1 DEF HandsOver, Returns
  <2>9. ASSUME Drops(k, q) PROVE Goal
      BY <1>3, <1>5, <2>1, <2>2, <2>9 DEF Drops, Routing, Trying, Sending
  <2>10. ASSUME Breaks(k, q) PROVE Goal
    <3>1. "late" \in fate'[m] \/ m \in h[k].todo
        BY <1>2, <1>5, <2>10 DEF Breaks
    <3>2. m \in h[k].todo => "late" \in fate'[m]
        BY <1>1, <2>10 DEF Breaks
    <3> QED
        BY <1>4, <3>1, <3>2
  <2>11. ASSUME Buffers(k, q) PROVE Goal
    <3>1. Old \/ "late" \in fate'[m]
        BY <1>1, <1>6, <1>7, <2>11
    <3> QED
        BY <1>3, <1>4, <2>1, <2>2, <2>11, <3>1 DEF Buffers
  <2> QED
      BY <1>7, <2>3, <2>4, <2>5, <2>6, <2>7, <2>8, <2>9, <2>10, <2>11 DEF Moves
<1>8. ASSUME NEW t \in Thread, t # k, NEW q, Become(t, q), Moves(t, q) PROVE Goal
  <2>1. h'[k] = h[k]
      BY <1>1, <1>8, Becomes
  <2>2. ASSUME Deletes(t, q) PROVE Old
      BY <2>2 DEF Deletes, delete_buffered, Drop, Old
  <2>3. Old \/ "late" \in fate'[m]
      BY <1>5, <1>6, <1>8, <2>2
         DEF Moves, Registers, Collects, Picks, Takes, Proceeds, Writes, Retries,
             HandsOver, Returns, Drops, Breaks
  <2> QED
      BY <1>3, <1>4, <2>1, <2>3
<1>9. ASSUME Rests PROVE Goal
    BY <1>3, <1>5, <1>9 DEF Rests
<1>10. ASSUME Tick PROVE Goal
  <2>1. Old
    <3>1. m \in DOMAIN buffer /\ buffer'[m] = IF buffer[m] > 0 THEN buffer[m] - 1 ELSE 0
        BY <1>10 DEF Tick, AgeMessages
    <3> QED
        BY <3>1 DEF Old
  <2> QED
      BY <1>3, <1>10, <2>1 DEF Tick
<1>11. ASSUME Cleanup PROVE Goal
  <2>1. Old
      BY <1>11 DEF Cleanup, cleanup_expired_messages, DropAll, Old
  <2> QED
      BY <1>3, <1>11, <2>1 DEF Cleanup
<1>12. ~Crash
    BY <1>1 DEF Crash, Die, DInv, TypeOK, TransportTypeOK
<1>13. Goal
    BY <1>7, <1>8, <1>9, <1>10, <1>11, <1>12, StepMoves
<1> QED
    BY <1>13 DEF Goal

LEMMA StepFlushed == DInv /\ Flushed /\ [Next]_vars => Flushed'
<1> SUFFICES ASSUME DInv, Flushed, [Next]_vars PROVE Flushed'
    OBVIOUS
<1>1. peer' = peer /\ \A k \in Conn : Used(k) => Used(k)'
    BY StepTransport, TransportKeeps DEF DInv, TypeOK
<1>2. \A k \in Conn : h'[k].reg # None => h'[k].reg = peer'[k]
    BY <1>1, StepOwn
<1>3. ASSUME NEW k \in regd'
      PROVE  /\ k \in Conn
             /\ Used(k)'
             /\ \/ h'[k].pc = "register"
                \/ k \in regd /\ (loop'[k] = "live" => loop[k] = "live")
  <2>1. k \in Conn
      BY StepTables
  <2>2. k \in regd => Used(k)
      BY DEF Flushed
  <2> QED
      BY <1>1, <2>1, <2>2, RegdSteps, LoopKeeps, StepTransport DEF DInv, TypeOK
<1>4. ASSUME NEW k \in regd', loop'[k] = "live", h'[k].pc \notin {"register", "announce"}
      PROVE  HomeHere(peer[k])'
  <2>1. k \in Conn /\ k \in regd /\ loop[k] = "live"
      BY <1>3, <1>4
  <2>2. PICK c : c = peer[k]
      OBVIOUS
  <2>3. HomeHere(c)'
    <3>1. CASE h[k].pc \in {"register", "announce"}
      <4>1. h[k].reg = c
          BY <2>1, <2>2, <3>1 DEF Flushed, DInv, Shape, MsgShape, Thread
      <4> QED
          BY <1>4, <2>1, <3>1, <4>1, AnnounceSteps
    <3>2. CASE h[k].pc \notin {"register", "announce"}
      <4>1. HomeHere(c)
          BY <2>1, <2>2, <3>2 DEF Flushed
      <4> QED
          BY <4>1, HomeKeeps
    <3> QED
        BY <3>1, <3>2
  <2> QED
      BY <1>1, <2>2, <2>3 DEF HomeHere
<1>5. ASSUME NEW k \in regd', NEW m \in DOMAIN buffer',
             loop'[k] = "live", peer'[k] = Dest[m], buffer'[m] > 0,
             h'[k].pc \notin {"register", "announce", "collect"}
      PROVE  "late" \in fate'[m] \/ m \in h'[k].todo
    BY <1>1, <1>3, <1>5, StepLeft
<1> QED
    BY <1>2, <1>3, <1>4, <1>5 DEF Flushed

\* A message stays in the buffer of a cell that is connected and registered
\* here only if route had read the cell's presence before it registered, or the
\* callback broke off the flush.
THEOREM StrandedCorrect == Spec => []StrandedNeedsCause
<1> DEFINE I == DInv /\ Flushed
<1>1. Init => I
  <2> SUFFICES ASSUME Init PROVE Flushed
      BY InitDInv
  <2>1. \A k \in Conn : h[k].reg = None
      BY DEF Init, Idle, Thread
  <2> QED
      BY <2>1 DEF Init, Flushed
<1>2. I /\ [Next]_vars => I'
    BY StepDInv, StepFlushed
<1>3. I => StrandedNeedsCause
  <2> SUFFICES ASSUME I, NEW k \in regd, NEW m \in DOMAIN buffer, loop[k] = "live",
                      peer[k] = Dest[m], h[k].reg = None, buffer[m] > 0
               PROVE  "late" \in fate[m]
      BY DEF StrandedNeedsCause
  <2>1. k \in Conn /\ k \in Thread
      BY DEF DInv, TypeOK, Thread
  <2>2. h[k].todo = {} /\ h[k].pc \notin {"register", "announce", "collect"}
      BY <2>1 DEF DInv, Shape, MsgShape, FlushShape
  <2> QED
      BY <2>2 DEF Flushed
<1> QED
    BY <1>1, <1>2, <1>3, PTL DEF Spec
=============================================================================
