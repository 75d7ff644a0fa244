----------------------------- MODULE CellClient -----------------------------
(***************************************************************************)
(* The client of one cell (node/client.py): its attribute _ws, the receive *)
(* task that connect starts, and the sockets behind them.                  *)
(*                                                                         *)
(* The application calls connect and disconnect one after the other; the   *)
(* receive tasks of its connections run beside it.  A socket id names one  *)
(* WebSocket, and the task that the connect of that socket created.        *)
(***************************************************************************)
CONSTANTS
    Sock,              \* WebSocket connections
    None,
    DisconnectsFirst   \* the application calls disconnect before it connects again

ASSUME CellClientAssumption == DisconnectsFirst \in BOOLEAN /\ None \notin Sock

VARIABLES
    ws,     \* self._ws
    recv,   \* self._recv_task
    task,   \* task[k]: "free" (k unused), "none", "created", "running", "ended"
    open,   \* open[k]: the cell's end of socket k is open
    app,    \* where the application is
    sock    \* the local variable ws of the last connect

vars == <<ws, recv, task, open, app, sock>>

TypeOK ==
    /\ ws \in Sock \cup {None}
    /\ recv \in Sock \cup {None}
    /\ task \in [Sock -> {"free", "none", "created", "running", "ended"}]
    /\ open \in [Sock -> BOOLEAN]
    /\ app \in {"idle", "registering", "closing", "disconnected"}
    /\ sock \in Sock \cup {None}

Init ==
    /\ ws = None
    /\ recv = None
    /\ task = [k \in Sock |-> "free"]
    /\ open = [k \in Sock |-> FALSE]
    /\ app = "idle"
    /\ sock = None

\* The property CellClient.connected.
connected == ws # None /\ open[ws]

Calm == app \in {"idle", "disconnected"}

\* When the application calls connect: never on a client it sees connected;
\* a careful one not before it has called disconnect.  A dial takes many turns
\* of the event loop, so no task is still waiting for its first.
MayConnect ==
    /\ Calm
    /\ IF DisconnectsFirst THEN ws = None /\ recv = None ELSE ~connected
    /\ \A k \in Sock : task[k] # "created"
-----------------------------------------------------------------------------
\* Mutant of Connect: self._ws is given the pair that _do_auth belongs to.
ConnectStoresPair(k) ==
    /\ MayConnect
    /\ task[k] = "free"
    /\ task' = [task EXCEPT ![k] = "none"]
    /\ open' = [open EXCEPT ![k] = TRUE]
    /\ ws' = <<k, k>>
    /\ sock' = k
    /\ app' = "registering"
    /\ UNCHANGED recv

\* connect, up to the send of CELL_REGISTER: the socket is authenticated.
Connect(k) ==
    /\ MayConnect
    /\ task[k] = "free"
    /\ task' = [task EXCEPT ![k] = "none"]
    /\ open' = [open EXCEPT ![k] = TRUE]
    /\ ws' = k
    /\ sock' = k
    /\ app' = "registering"
    /\ UNCHANGED recv

\* connect when _do_auth raises: the socket is left as it is.
ConnectFails(k) ==
    /\ MayConnect
    /\ task[k] = "free"
    /\ task' = [task EXCEPT ![k] = "none"]
    /\ open' = [open EXCEPT ![k] = TRUE]
    /\ app' = "idle"
    /\ UNCHANGED <<ws, recv, sock>>

\* CELL_REGISTER is sent and the receive task is created.
RegisterSent ==
    /\ app = "registering"
    /\ open[sock]
    /\ recv' = sock
    /\ task' = [task EXCEPT ![sock] = "created"]
    /\ app' = "idle"
    /\ UNCHANGED <<ws, open, sock>>

\* The send of CELL_REGISTER raises, and connect with it.
RegisterFails ==
    /\ app = "registering"
    /\ ~open[sock]
    /\ app' = "idle"
    /\ UNCHANGED <<ws, recv, task, open, sock>>

\* The receive task takes its first turn and iterates over self._ws; if that
\* is None by now the iteration raises and the task is over.
TaskStarts(k) ==
    /\ task[k] = "created"
    /\ task' = [task EXCEPT ![k] = IF ws = None THEN "ended" ELSE "running"]
    /\ UNCHANGED <<ws, recv, open, app, sock>>

\* Mutant of TaskLeaves: the finally clause is missing.
TaskLeavesNoReset(k) ==
    /\ task[k] = "running"
    /\ task' = [task EXCEPT ![k] = "ended"]
    /\ UNCHANGED ws

\* _recv_loop leaves its try block: the finally clause resets self._ws, which
\* may by now be the socket of a later connect.
TaskLeaves(k) ==
    /\ task[k] = "running"
    /\ task' = [task EXCEPT ![k] = "ended"]
    /\ ws' = None

\* The iteration over a closed socket ends.
TaskEnds(k) ==
    /\ ~open[k]
    /\ TaskLeaves(k)
    /\ UNCHANGED <<recv, open, app, sock>>

\* A packet cannot be unpacked or the on_message callback raises: the loop is
\* over and the socket stays open.
TaskRaises(k) ==
    /\ open[k]
    /\ TaskLeaves(k)
    /\ UNCHANGED <<recv, open, app, sock>>

\* The node closes, the network fails or a keepalive is not answered.
SocketCloses(k) ==
    /\ open[k]
    /\ open' = [open EXCEPT ![k] = FALSE]
    /\ UNCHANGED <<ws, recv, task, app, sock>>

\* Mutant of DisconnectCancels: the task is forgotten, not cancelled.
DisconnectForgets ==
    /\ Calm
    /\ recv' = None
    /\ app' = "closing"
    /\ UNCHANGED <<ws, task, open, sock>>

\* Mutant of DisconnectCancels: the attributes are reset, the task runs on.
DisconnectResets ==
    /\ Calm
    /\ recv' = None
    /\ ws' = None
    /\ app' = "closing"
    /\ UNCHANGED <<task, open, sock>>

\* disconnect: the receive task is cancelled and awaited.  A running task
\* executes its finally clause, one that never had a turn does not.
DisconnectCancels ==
    /\ Calm
    /\ recv' = None
    /\ IF recv = None
       THEN UNCHANGED <<ws, task>>
       ELSE /\ task' = [task EXCEPT ![recv] = "ended"]
            /\ ws' = IF task[recv] = "running" THEN None ELSE ws
    /\ app' = "closing"
    /\ UNCHANGED <<open, sock>>

\* disconnect: what is left in self._ws is closed.
DisconnectCloses ==
    /\ app = "closing"
    /\ open' = IF ws = None THEN open ELSE [open EXCEPT ![ws] = FALSE]
    /\ ws' = None
    /\ app' = "disconnected"
    /\ UNCHANGED <<recv, task, sock>>

Next ==
    \/ \E k \in Sock :
         \/ Connect(k)
         \/ ConnectFails(k)
         \/ TaskStarts(k)
         \/ TaskEnds(k)
         \/ TaskRaises(k)
         \/ SocketCloses(k)
    \/ RegisterSent
    \/ RegisterFails
    \/ DisconnectCancels
    \/ DisconnectCloses

\* asyncio gives every ready task its turn, and the calls in progress end.
Spec ==
    /\ Init
    /\ [][Next]_vars
    /\ \A k \in Sock : WF_vars(TaskStarts(k)) /\ WF_vars(TaskEnds(k))
    /\ WF_vars(RegisterSent \/ RegisterFails)
    /\ WF_vars(DisconnectCloses)
-----------------------------------------------------------------------------
\* At most one task reads an open socket, so a cell never takes messages from
\* two connections at once.
OneReader ==
    \A j, k \in Sock :
        (task[j] = "running" /\ open[j] /\ task[k] = "running" /\ open[k]) => j = k

\* tests/test_client.py:51-52: after connect the client is connected.  It stays
\* so while the connection is open and its receive task runs.
ConnectedWhileReading ==
    \A k \in Sock : (task[k] = "running" /\ open[k] /\ recv = k) => ws = k

\* A connection lost by the node or the network is noticed: the client does
\* not go on holding the closed socket.
LossNoticed ==
    \A k \in Sock :
        (ws = k /\ ~open[k] /\ task[k] \in {"created", "running"}) ~> ws # k

\* After disconnect the socket of the last connect is closed, so that the node
\* learns that the cell is gone.
DisconnectedIsClosed ==
    (app = "disconnected" /\ sock # None) => ~open[sock]
=============================================================================
