-------------------------- MODULE CellClientProofs --------------------------
(***************************************************************************)
(* Proofs about CellClient, for any number of sockets.                     *)
(*                                                                         *)
(* That one socket is read at a time and that connected tells the truth    *)
(* holds for an application that calls disconnect before it connects       *)
(* again.  The reason is one invariant, Tidy: a receive task that is not   *)
(* over belongs to the last connect, whose socket is still in _ws.         *)
(***************************************************************************)
EXTENDS CellClient, TLAPS

\* The receive task of k has been created and is not over.
Busy(k) == task[k] \in {"created", "running"}

\* What a careful application keeps true: every task that is not over is the
\* one in _recv_task and reads the socket in _ws, and there is none while
\* connect waits for its CELL_REGISTER to be sent or disconnect closes.
Tidy ==
    /\ \A k \in Sock : Busy(k) => recv = k /\ ws = k
    /\ app = "registering" => recv = None /\ sock \in Sock /\ ws = sock
    /\ app = "closing" => recv = None

-----------------------------------------------------------------------------
\* Every step of connect, disconnect and the receive tasks keeps the types.
\* A connect that is registering has set its local variable ws.
Typed == TypeOK /\ (app = "registering" => sock \in Sock)

LEMMA StepTyped == Typed /\ [Next]_vars => Typed'
<1> SUFFICES ASSUME Typed, [Next]_vars PROVE Typed'
    OBVIOUS
<1> USE CellClientAssumption DEF Typed, TypeOK
<1>1. ASSUME NEW k \in Sock, Connect(k) \/ ConnectFails(k) PROVE Typed'
    BY <1>1 DEF Connect, ConnectFails, MayConnect, Calm
<1>2. ASSUME NEW k \in Sock, TaskStarts(k) \/ SocketCloses(k) PROVE Typed'
    BY <1>2 DEF TaskStarts, SocketCloses
<1>3. ASSUME NEW k \in Sock, TaskEnds(k) \/ TaskRaises(k) PROVE Typed'
    BY <1>3 DEF TaskEnds, TaskRaises, TaskLeaves
<1>4. CASE RegisterSent \/ RegisterFails
    BY <1>4 DEF RegisterSent, RegisterFails
<1>5. CASE DisconnectCancels
    BY <1>5 DEF DisconnectCancels, Calm
<1>6. CASE DisconnectCloses
    BY <1>6 DEF DisconnectCloses
<1>7. CASE UNCHANGED vars
    BY <1>7 DEF vars
<1> QED
    BY <1>1, <1>2, <1>3, <1>4, <1>5, <1>6, <1>7 DEF Next

\* TypeOK is an invariant of the client, whatever its application does.
THEOREM CellClientTypeCorrect == Spec => []TypeOK
<1>1. Init => Typed
    BY DEF Init, Typed, TypeOK
<1>2. Typed => TypeOK
    BY DEF Typed
<1> QED
    BY <1>1, <1>2, StepTyped, PTL DEF Spec

-----------------------------------------------------------------------------
\* No step of a careful application or of its tasks disturbs Tidy: connect
\* starts from an empty _recv_task, so no task is left that could reset _ws.
LEMMA StepTidy ==
    ASSUME DisconnectsFirst
    PROVE  Typed /\ Tidy /\ [Next]_vars => Tidy'
<1> SUFFICES ASSUME Typed, Tidy, [Next]_vars PROVE Tidy'
    OBVIOUS
<1> USE CellClientAssumption DEF Typed, TypeOK, Tidy, Busy
<1>1. ASSUME NEW k \in Sock, Connect(k) \/ ConnectFails(k) PROVE Tidy'
    BY <1>1 DEF Connect, ConnectFails, MayConnect, Calm
<1>2. ASSUME NEW k \in Sock, TaskStarts(k) \/ SocketCloses(k) PROVE Tidy'
    BY <1>2 DEF TaskStarts, SocketCloses
<1>3. ASSUME NEW k \in Sock, TaskEnds(k) \/ TaskRaises(k) PROVE Tidy'
    BY <1>3 DEF TaskEnds, TaskRaises, TaskLeaves
<1>4. CASE RegisterSent \/ RegisterFails
    BY <1>4 DEF RegisterSent, RegisterFails
<1>5. CASE DisconnectCancels
    BY <1>5 DEF DisconnectCancels, Calm
<1>6. CASE DisconnectCloses
    BY <1>6 DEF DisconnectCloses
<1>7. CASE UNCHANGED vars
    BY <1>7 DEF vars
<1> QED
    BY <1>1, <1>2, <1>3, <1>4, <1>5, <1>6, <1>7 DEF Next

\* Tidy holds from __init__ on and gives both safety properties.
LEMMA TidyInit == Init => Typed /\ Tidy
BY CellClientAssumption DEF Init, Typed, TypeOK, Tidy, Busy

LEMMA TidyImplies == Typed /\ Tidy => OneReader /\ ConnectedWhileReading
BY DEF Typed, TypeOK, Tidy, Busy, OneReader, ConnectedWhileReading

\* Messages never come in from two connections at once, for an application
\* that disconnects before it connects again.
THEOREM OneReaderCorrect ==
    ASSUME DisconnectsFirst
    PROVE  Spec => []OneReader
<1>1. Typed /\ Tidy /\ [Next]_vars => (Typed /\ Tidy)'
    BY StepTyped, StepTidy
<1> QED
    BY <1>1, TidyInit, TidyImplies, PTL DEF Spec

\* The property connected of a client does not turn false while its receive
\* task reads an open socket, for such an application.
THEOREM ConnectedCorrect ==
    ASSUME DisconnectsFirst
    PROVE  Spec => []ConnectedWhileReading
<1>1. Typed /\ Tidy /\ [Next]_vars => (Typed /\ Tidy)'
    BY StepTyped, StepTidy
<1> QED
    BY <1>1, TidyInit, TidyImplies, PTL DEF Spec
=============================================================================
