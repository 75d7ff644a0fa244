-------------------------------- MODULE Cli --------------------------------
(***************************************************************************)
(* The command line (nevod.py) on one machine, with the key files of       *)
(* node/identity.py and the part of node/node.py that creates, starts and  *)
(* stops a node.  A process is one invocation of the command; several run  *)
(* at a time, on the same files, and each may be killed between any two    *)
(* steps.  Commands that only print (info, cell info) are left out.        *)
(*                                                                         *)
(* A process whose main task ends without Node.stop does not close its     *)
(* storage, whose thread may keep the process alive: it "lingers", with or *)
(* without its port, until a signal or a kill ends it.  A running node is  *)
(* what the other modules are about; here only its identity and port       *)
(* matter, and of a chat only whether its connection is up.                *)
(***************************************************************************)
EXTENDS Tables, FiniteSets, Naturals

CONSTANTS
    Proc,    \* invocations of the command
    Key,     \* identities that may be generated, each at most once
    Addr,    \* addresses (host:port) on this machine
    At,      \* At[x]: the address given when x is generated
    None

\* What a file holds that is not an identity: nothing, after it was opened for
\* writing, or one identity written over a longer one.
Torn == {"empty", "mixed"}

ASSUME CliAssumption ==
    /\ At \in [Key -> Addr]
    /\ None \notin Key
    /\ Key \cap Torn = {}
    /\ None \notin Torn

VARIABLES
    pc,        \* pc[p]: where the process is
    cmd,       \* cmd[p]: its command
    id,        \* id[p]: the identity it has in memory
    file,      \* file: the node's and the cell's key file: a key, None or Torn
    listed,    \* identities that genesis put into node_table
    port,      \* the processes that listen, by address
    signalled, \* node processes that were sent SIGINT or SIGTERM
    link,      \* chats whose connection is up
    late,      \* late[p]: lines taken by a chat after its connection was lost
    used,      \* identities that were generated (history)
    opened,    \* opened[k]: those whose save has opened the file (history)
    replaced   \* those over whose save another one was done (history)

chatVars == <<link, late>>
nodeVars == <<listed, port, signalled>>
keyVars == <<file, used, opened, replaced>>
vars == <<pc, cmd, id, chatVars, nodeVars, keyVars>>

NodeCmd == {"genesis", "start", "join"}
Cmd == NodeCmd \cup {"init", "cell init", "cell connect"}

\* Which of the two files a command works on.
Kind(c) == IF c \in {"cell init", "cell connect"} THEN "cell" ELSE "node"

TypeOK ==
    /\ pc \in [Proc -> {"new", "save", "write", "load", "list", "bind", "dial", "serve",
                        "stop", "closing", "lingers", "connect", "read", "send",
                        "leave", "leaveReading", "joinReader", "over"}]
    /\ cmd \in [Proc -> Cmd]
    /\ id \in [Proc -> Key \cup {None}]
    /\ file \in [{"node", "cell"} -> Key \cup {None} \cup Torn]
    /\ listed \subseteq Key
    /\ IsTable(port, Addr, Proc)
    /\ signalled \subseteq Proc
    /\ link \subseteq Proc
    /\ late \in [Proc -> 0 .. 2]
    /\ used \subseteq Key
    /\ opened \in [{"node", "cell"} -> SUBSET Key]
    /\ replaced \subseteq Key

Init ==
    /\ pc = [p \in Proc |-> "new"]
    /\ cmd \in [Proc -> Cmd]
    /\ id = [p \in Proc |-> None]
    /\ file = [k \in {"node", "cell"} |-> None]
    /\ listed = {}
    /\ port = EmptyTable
    /\ signalled = {}
    /\ link = {}
    /\ late = [p \in Proc |-> 0]
    /\ used = {}
    /\ opened = [k \in {"node", "cell"} |-> {}]
    /\ replaced = {}
-----------------------------------------------------------------------------
Goto(p, l) == pc' = [pc EXCEPT ![p] = l]

\* The command is entered.
Enter(p) ==
    /\ pc[p] = "new"
    /\ IF cmd[p] \in {"init", "cell init", "genesis"}
       THEN /\ Goto(p, "save")
            /\ \E x \in Key \ used :
                 id' = [id EXCEPT ![p] = x] /\ used' = used \cup {x}
       ELSE Goto(p, "load") /\ UNCHANGED <<id, used>>
    /\ UNCHANGED <<cmd, file, opened, replaced, nodeVars, chatVars>>

\* The saves into file k that have begun, other than p's, are no longer the last.
Overtakes(p, k) == replaced' = replaced \cup (opened[k] \ {id[p]})

\* Mutant of SaveOpens: genesis lists the node first and saves it afterwards.
SaveOpensLast(p) ==
    LET k == Kind(cmd[p]) IN
    /\ pc[p] = "save"
    /\ file' = [file EXCEPT ![k] = "empty"]
    /\ opened' = [opened EXCEPT ![k] = @ \cup {id[p]}]
    /\ Overtakes(p, k)
    /\ Goto(p, IF cmd[p] = "genesis" THEN "list" ELSE "write")
    /\ UNCHANGED <<cmd, id, used, nodeVars, chatVars>>

\* save opens the file, which truncates it, whatever was in it.
SaveOpens(p) ==
    LET k == Kind(cmd[p]) IN
    /\ pc[p] = "save"
    /\ file' = [file EXCEPT ![k] = "empty"]
    /\ opened' = [opened EXCEPT ![k] = @ \cup {id[p]}]
    /\ Overtakes(p, k)
    /\ Goto(p, "write")
    /\ UNCHANGED <<cmd, id, used, nodeVars, chatVars>>

\* save writes from the beginning of the file and closes it.  What another save
\* has written since this one opened the file may be longer, and its end stays.
\* genesis then opens the database.
SaveWrites(p) ==
    LET k == Kind(cmd[p]) IN
    /\ pc[p] = "write"
    /\ \/ file' = [file EXCEPT ![k] = id[p]]
       \/ file[k] # "empty" /\ file' = [file EXCEPT ![k] = "mixed"]
    /\ Overtakes(p, k)
    /\ Goto(p, IF cmd[p] = "genesis" THEN "list" ELSE "over")
    /\ UNCHANGED <<cmd, id, used, opened, nodeVars, chatVars>>

\* Mutant of Load: what is in the file is not checked.
LoadAnything(p) ==
    /\ pc[p] = "load"
    /\ cmd[p] # "cell connect"
    /\ file["node"] # None
    /\ id' = [id EXCEPT ![p] = file["node"]]
    /\ Goto(p, "bind")
    /\ UNCHANGED <<cmd, keyVars, nodeVars, chatVars>>

\* Node.create: the node's identity is loaded and the database opened.  A file
\* that is missing or is not JSON ends the command before there is a database.
Load(p) ==
    /\ pc[p] = "load"
    /\ cmd[p] # "cell connect"
    /\ IF file["node"] \in Key
       THEN Goto(p, "bind") /\ id' = [id EXCEPT ![p] = file["node"]]
       ELSE Goto(p, "over") /\ UNCHANGED id
    /\ UNCHANGED <<cmd, keyVars, nodeVars, chatVars>>

\* cell connect loads the cell's identity, with the same ends.
LoadCell(p) ==
    /\ pc[p] = "load"
    /\ cmd[p] = "cell connect"
    /\ IF file["cell"] \in Key
       THEN Goto(p, "connect") /\ id' = [id EXCEPT ![p] = file["cell"]]
       ELSE Goto(p, "over") /\ UNCHANGED id
    /\ UNCHANGED <<cmd, keyVars, nodeVars, chatVars>>
-----------------------------------------------------------------------------
\* create_genesis registers the node in its own node_table.
UpsertSelf(p) ==
    /\ pc[p] = "list"
    /\ listed' = listed \cup {id[p]}
    /\ Goto(p, "bind")
    /\ UNCHANGED <<cmd, id, port, signalled, keyVars, chatVars>>

\* Mutant of Start: the port is shared with whoever has it.
StartShared(p) ==
    /\ pc[p] = "bind"
    /\ port' = Put(port, At[id[p]], p)
    /\ Goto(p, IF cmd[p] = "join" THEN "dial" ELSE "serve")
    /\ UNCHANGED <<cmd, id, listed, signalled, keyVars, chatVars>>

\* The process no longer listens.
Closed(p) == DropAll(port, {a \in DOMAIN port : port[a] = p})

\* The process ends.
Ends(p) == Goto(p, "over") /\ port' = Closed(p)

\* The main task ends without Node.stop.  If the storage's thread is there the
\* process lingers, and its socket is closed only if the server object goes.
Abandons(p) ==
    \/ Ends(p)
    \/ Goto(p, "lingers") /\ port' \in {port, Closed(p)}

\* Node.start listens on the identity's address; if somebody has it the
\* command is left with an error.
Start(p) ==
    /\ pc[p] = "bind"
    /\ IF At[id[p]] \in DOMAIN port
       THEN Abandons(p)
       ELSE /\ port' = Put(port, At[id[p]], p)
            /\ Goto(p, IF cmd[p] = "join" THEN "dial" ELSE "serve")
    /\ UNCHANGED <<cmd, id, listed, signalled, keyVars, chatVars>>

\* Node.join returns, or raises.  It may also wait for ever.
Join(p) ==
    /\ pc[p] = "dial"
    /\ \/ Goto(p, "serve") /\ UNCHANGED port
       \/ Abandons(p)
    /\ UNCHANGED <<cmd, id, listed, signalled, keyVars, chatVars>>

\* Mutant of Signal: a signal before _run_until_signal is swallowed.
SignalIgnoredEarly(p) ==
    /\ cmd[p] \in NodeCmd
    /\ pc[p] \notin {"new", "over"}
    /\ signalled' = signalled \cup {p}
    /\ pc' = IF pc[p] = "serve" THEN [pc EXCEPT ![p] = "stop"] ELSE pc
    /\ UNCHANGED <<cmd, id, listed, port, keyVars, chatVars>>

\* SIGINT or SIGTERM.  In _run_until_signal the event is set, or is already.
\* Before, SIGTERM kills the process and SIGINT ends its main task.  A process
\* that lingers has no handler left.
Signal(p) ==
    /\ cmd[p] \in NodeCmd
    /\ signalled' = signalled \cup {p}
    /\ \/ pc[p] = "serve" /\ Goto(p, "stop") /\ UNCHANGED port
       \/ pc[p] \in {"stop", "closing"} /\ UNCHANGED <<pc, port>>
       \/ pc[p] \in {"save", "write", "load", "list", "bind", "dial"} /\ Abandons(p)
       \/ pc[p] = "lingers" /\ Ends(p)
    /\ UNCHANGED <<cmd, id, listed, keyVars, chatVars>>

\* Node.stop, up to the first await of Transport.stop: the server is closed and
\* the port is free.
StopListening(p) ==
    /\ pc[p] = "stop"
    /\ port' = Closed(p)
    /\ Goto(p, "closing")
    /\ UNCHANGED <<cmd, id, listed, signalled, keyVars, chatVars>>

\* The rest of Node.stop: the connections' handlers have ended, the connections
\* and the storage are closed.
StopEnds(p) ==
    /\ pc[p] = "closing"
    /\ Goto(p, "over")
    /\ UNCHANGED <<cmd, id, listed, port, signalled, keyVars, chatVars>>

\* The process is killed, or the machine goes down.
Kill(p) ==
    /\ pc[p] \notin {"new", "over"}
    /\ Ends(p)
    /\ link' = link \ {p}
    /\ UNCHANGED <<cmd, id, listed, signalled, keyVars, late>>
-----------------------------------------------------------------------------
\* cell connect: CellClient.connect returns or raises.
ChatConnects(p) ==
    /\ pc[p] = "connect"
    /\ \/ Goto(p, "read") /\ link' = link \cup {p}
       \/ Goto(p, "over") /\ UNCHANGED link
    /\ UNCHANGED <<cmd, id, late, keyVars, nodeVars>>

ConnectionLost(p) ==
    /\ p \in link
    /\ link' = link \ {p}
    /\ UNCHANGED <<pc, cmd, id, late, keyVars, nodeVars>>

\* Mutant of Looped: the loop goes on without a connection.
LoopedForever(p) == "read"

\* The test of the chat's loop, "while cell.connected".
Looped(p) == IF p \in link THEN "read" ELSE "leave"

\* A line is read: a message for a known alias or a full address; /quit or the
\* end of input; or anything else, which is answered and sends nothing
\* (/add, /contacts, an unknown alias, a bad key).
TypeLine(p, line) ==
    /\ pc[p] = "read"
    /\ Goto(p, CASE line = "message" -> "send"
                 [] line = "quit"    -> "leave"
                 [] line = "other"   -> Looped(p))
    /\ late' = [late EXCEPT ![p] = IF p \in link \/ @ = 2 THEN @ ELSE @ + 1]
    /\ UNCHANGED <<cmd, id, link, keyVars, nodeVars>>

\* CellClient.send returns or raises, which is reported; then the loop goes on.
SendLine(p) ==
    /\ pc[p] = "send"
    /\ Goto(p, Looped(p))
    /\ UNCHANGED <<cmd, id, chatVars, keyVars, nodeVars>>

\* Ctrl+C cancels the chat at its await.  A thread that waits for a line is
\* not interrupted by this.
Interrupt(p) ==
    /\ pc[p] \in {"read", "send"}
    /\ Goto(p, IF pc[p] = "read" THEN "leaveReading" ELSE "leave")
    /\ UNCHANGED <<cmd, id, chatVars, keyVars, nodeVars>>

\* The finally clause: disconnect.  asyncio.run then waits for the thread.
Disconnect(p) ==
    /\ pc[p] \in {"leave", "leaveReading"}
    /\ link' = link \ {p}
    /\ Goto(p, IF pc[p] = "leave" THEN "over" ELSE "joinReader")
    /\ UNCHANGED <<cmd, id, late, keyVars, nodeVars>>

ReaderReturns(p) ==
    /\ pc[p] = "joinReader"
    /\ Goto(p, "over")
    /\ UNCHANGED <<cmd, id, chatVars, keyVars, nodeVars>>
-----------------------------------------------------------------------------
Next ==
    \E p \in Proc :
        \/ Enter(p)
        \/ SaveOpens(p)
        \/ SaveWrites(p)
        \/ Load(p)
        \/ LoadCell(p)
        \/ UpsertSelf(p)
        \/ Start(p)
        \/ Join(p)
        \/ Signal(p)
        \/ StopListening(p)
        \/ StopEnds(p)
        \/ Kill(p)
        \/ ChatConnects(p)
        \/ ConnectionLost(p)
        \/ \E line \in {"message", "quit", "other"} : TypeLine(p, line)
        \/ SendLine(p)
        \/ Interrupt(p)
        \/ Disconnect(p)
        \/ ReaderReturns(p)

\* A main task whose event is set runs.  Nothing is assumed of users, signals or
\* the network, and so neither of a join nor of what Node.stop waits for.
Spec == Init /\ [][Next]_vars /\ \A p \in Proc : WF_vars(StopListening(p))
-----------------------------------------------------------------------------
\* The process answers on the network, under its identity.
Serving(p) == pc[p] \in {"dial", "serve", "stop"}

\* The nodes that a node table or the network knows.
Known == listed \cup {id[p] : p \in {q \in Proc : Serving(q)}}

\* The keys of a node that is in the node table or on the network are in the key
\* file, wherever commands are killed or fail, unless a save that was done over
\* the node's own took them away.
KeysKept == \A x \in Known : file["node"] = x \/ x \in replaced

\* Two processes never serve under the same identity, however commands overlap
\* and overwrite the key file, also when a node is started again while the old
\* process is stopping: the address is part of the identity, and whoever finds
\* it taken gives up.
OneNodePerIdentity ==
    \A p, q \in Proc : (Serving(p) /\ Serving(q) /\ id[p] = id[q]) => p = q

\* A chat whose connection is gone takes at most one more line from its user.
NoticesLoss == \A p \in Proc : late[p] <= 1

\* A signal takes a node off the network for good, whether it comes while the
\* node is created, started, joining, running or already stopping.  Only a
\* process that lingers may keep its port.
SignalledLeaves ==
    \A p \in Proc :
        (p \in signalled) ~>
            [](~Serving(p) /\ (pc[p] # "lingers" => \A a \in DOMAIN port : port[a] # p))
=============================================================================
