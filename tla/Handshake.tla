----------------------------- MODULE Handshake -----------------------------
(***************************************************************************)
(* Mutual authentication on one new WebSocket: Transport._do_auth at a     *)
(* node, and the function _do_auth of node/client.py at a cell, over       *)
(* node/auth.py.  Side "d" dialled and side "a" accepted; both run the     *)
(* same program, or one of them does and the other sends what it likes.    *)
(* The WebSocket is ordered and loses nothing until it closes; a close by  *)
(* one side is seen by the other after what was sent.                      *)
(*                                                                         *)
(* A key pair is the id it belongs to, a signature the pair of what was    *)
(* signed and who signed it, and the nonce of a side, 32 random bytes, the *)
(* side itself: no two nonces are equal and none can be guessed.           *)
(***************************************************************************)
EXTENDS Sequences, Naturals

CONSTANTS
    Id,    \* ids of nodes and cells
    None

ASSUME HandshakeAssumption == None \notin Id

VARIABLES
    program,  \* the sides that run _do_auth
    id,       \* id[s]: the identity of side s
    expects,  \* expects[s]: expected_node_id
    pc,       \* pc[s]: where _do_auth is
    inbox,    \* inbox[s]: packets on the way to s
    theirs,   \* theirs[s]: the nonce in the challenge that s received
    peer,     \* peer[s]: node_id of the AuthResult
    ws,       \* ws[s]: the end of s of the WebSocket is open
    signed    \* the signatures of nonces that the owners of keys have made

who == <<program, id, expects>>
vars == <<who, pc, inbox, theirs, peer, ws, signed>>

Side == {"d", "a"}
Other(s) == CHOOSE o \in Side : o # s

\* The nonces of the two sides, and those of earlier handshakes.
Nonce == Side \cup {"old"}

Challenge == [type : {"AUTH_CHALLENGE"}, nonce : Nonce]
Response ==
    [type : {"AUTH_RESPONSE"}, nonce : Nonce, key : Id, sig : Nonce \X Id]

TypeOK ==
    /\ program \subseteq Side
    /\ id \in [Side -> Id]
    /\ expects \in [Side -> Id \cup {None}]
    /\ pc \in [Side -> {"start", "challenge", "respond", "response",
                        "done", "failed", "cancelled"}]
    /\ inbox \in [Side -> Seq(Challenge \cup Response)]
    /\ theirs \in [Side -> Nonce \cup {None}]
    /\ peer \in [Side -> Id \cup {None}]
    /\ ws \in [Side -> BOOLEAN]
    /\ signed \subseteq Nonce \X Id

\* Who dials whom, and whom the dialler takes the address for, is arbitrary:
\* an address may have passed to another node.  The accepting side and join
\* expect nobody in particular.  The responses of earlier handshakes are known
\* to whoever was at their other end.
Init ==
    /\ program \in {Side, {"d"}, {"a"}}
    /\ id \in [Side -> Id]
    /\ expects \in {f \in [Side -> Id \cup {None}] : f["a"] = None}
    /\ pc = [s \in Side |-> "start"]
    /\ inbox = [s \in Side |-> <<>>]
    /\ theirs = [s \in Side |-> None]
    /\ peer = [s \in Side |-> None]
    /\ ws = [s \in Side |-> TRUE]
    /\ signed = {"old"} \X Id
-----------------------------------------------------------------------------
Goto(s, p) == pc' = [pc EXCEPT ![s] = p]

make_challenge(s) == [type |-> "AUTH_CHALLENGE", nonce |-> s]

make_response(s, nonce) ==
    [type |-> "AUTH_RESPONSE", nonce |-> nonce, key |-> id[s], sig |-> <<nonce, id[s]>>]

\* Mutant of verify_response: the nonce is taken from the response.
verify_response_any_nonce(s, r) ==
    /\ expects[s] \in {None, r.key}
    /\ r.sig = <<r.nonce, r.key>>

verify_response(s, r) ==
    /\ r.nonce = s
    /\ expects[s] \in {None, r.key}
    /\ r.sig = <<r.nonce, r.key>>

\* A packet is sent; if this end is closed the send raises instead (Raises).
Send(s, pkt) ==
    /\ ws[s]
    /\ inbox' = [inbox EXCEPT ![Other(s)] = Append(@, pkt)]

\* _do_auth raises: _handle_incoming closes the WebSocket, connect,
\* connect_to_node and the cell's connect leave it as it is.
Raise(s) ==
    /\ Goto(s, "failed")
    /\ ws' = [ws EXCEPT ![s] = @ /\ s = "d"]

\* Mutant of SendChallenge: a side waits for the other's challenge first.
SendChallengeSecond(s) ==
    /\ pc[s] = "start"
    /\ inbox[s] # <<>>
    /\ Send(s, make_challenge(s))
    /\ Goto(s, "challenge")
    /\ UNCHANGED <<who, theirs, peer, ws, signed>>

SendChallenge(s) ==
    /\ pc[s] = "start"
    /\ Send(s, make_challenge(s))
    /\ Goto(s, "challenge")
    /\ UNCHANGED <<who, theirs, peer, ws, signed>>

\* Mutant of RecvChallenge: the nonce is looked up in a field that is not there.
RecvChallengeNothing(s) ==
    /\ pc[s] = "challenge"
    /\ inbox[s] # <<>>
    /\ inbox' = [inbox EXCEPT ![s] = Tail(@)]
    /\ Goto(s, "respond")
    /\ theirs' = [theirs EXCEPT ![s] = None]
    /\ UNCHANGED <<who, peer, ws, signed>>

RecvChallenge(s) ==
    /\ pc[s] = "challenge"
    /\ inbox[s] # <<>>
    /\ inbox' = [inbox EXCEPT ![s] = Tail(@)]
    /\ IF Head(inbox[s]).type = "AUTH_CHALLENGE"
       THEN /\ Goto(s, "respond")
            /\ theirs' = [theirs EXCEPT ![s] = Head(inbox[s]).nonce]
            /\ UNCHANGED ws
       ELSE /\ Raise(s)
            /\ UNCHANGED theirs
    /\ UNCHANGED <<who, peer, signed>>

SendResponse(s) ==
    /\ pc[s] = "respond"
    /\ Send(s, make_response(s, theirs[s]))
    /\ signed' = signed \cup {make_response(s, theirs[s]).sig}
    /\ Goto(s, "response")
    /\ UNCHANGED <<who, theirs, peer, ws>>

RecvResponse(s) ==
    /\ pc[s] = "response"
    /\ inbox[s] # <<>>
    /\ inbox' = [inbox EXCEPT ![s] = Tail(@)]
    /\ LET r == Head(inbox[s])
       IN  IF r.type = "AUTH_RESPONSE" /\ verify_response(s, r)
           THEN /\ Goto(s, "done")
                /\ peer' = [peer EXCEPT ![s] = r.key]
                /\ UNCHANGED ws
           ELSE /\ Raise(s)
                /\ UNCHANGED peer
    /\ UNCHANGED <<who, theirs, signed>>

\* This end is closed: a send raises at once, a recv when nothing is left.
Raises(s) ==
    /\ ~ws[s]
    /\ \/ pc[s] \in {"start", "respond"}
       \/ pc[s] \in {"challenge", "response"} /\ inbox[s] = <<>>
    /\ Raise(s)
    /\ UNCHANGED <<who, inbox, theirs, peer, signed>>

\* _ping_node dials under wait_for: after PING_TIMEOUT the dial is cancelled
\* where it waits.  The WebSocket is not closed.
TimesOut ==
    /\ pc["d"] \in {"challenge", "response"}
    /\ expects["d"] # None
    /\ Goto("d", "cancelled")
    /\ UNCHANGED <<who, inbox, theirs, peer, ws, signed>>

\* s sees that the other side closed the WebSocket.
CloseSeen(s) ==
    /\ ws[s]
    /\ ~ws[Other(s)]
    /\ ws' = [ws EXCEPT ![s] = FALSE]
    /\ UNCHANGED <<who, pc, inbox, theirs, peer, signed>>

\* s sees that the network failed; what was still on its way is lost.
LinkDies(s) ==
    /\ ws[s]
    /\ ws' = [ws EXCEPT ![s] = FALSE]
    /\ \E i \in 0 .. Len(inbox[s]) :
         inbox' = [inbox EXCEPT ![s] = SubSeq(@, 1, i)]
    /\ UNCHANGED <<who, pc, theirs, peer, signed>>

-----------------------------------------------------------------------------
\* A nonce is known once the challenge with it was sent.
Known == {"old"} \cup {s \in Side : pc[s] # "start"}

\* A side that does not run the program sends any packet that it can make of
\* nonces, keys and signatures it knows, or none.  Bound: it sends when what
\* it sent before was read.
SendsAnything(s, pkt) ==
    /\ s \notin program
    /\ inbox[Other(s)] = <<>>
    /\ pkt.nonce \in Known
    /\ pkt \in Response => pkt.sig \in signed
    /\ Send(s, pkt)
    /\ UNCHANGED <<who, pc, theirs, peer, ws, signed>>

\* The owner of key x answers a challenge on another connection, where it
\* signs whatever nonce it is given, or it is itself the side above.
SignsElsewhere(x, nonce) ==
    /\ nonce \in Known
    /\ signed' = signed \cup {<<nonce, x>>}
    /\ UNCHANGED <<who, pc, inbox, theirs, peer, ws>>

Step(s) ==
    /\ s \in program
    /\ \/ SendChallenge(s)
       \/ RecvChallenge(s)
       \/ SendResponse(s)
       \/ RecvResponse(s)
       \/ Raises(s)

Next ==
    \/ \E s \in Side : Step(s) \/ CloseSeen(s) \/ LinkDies(s)
    \/ \E s \in Side, pkt \in Challenge \cup Response : SendsAnything(s, pkt)
    \/ \E x \in Id, nonce \in Nonce : SignsElsewhere(x, nonce)
    \/ TimesOut

\* asyncio runs what is ready, and a close is noticed.  No timeout bounds the
\* handshake of an accepted connection, and a dial by the router, by join or
\* by a cell has none either.
Spec ==
    /\ Init
    /\ [][Next]_vars
    /\ \A s \in Side : WF_vars(Step(s)) /\ WF_vars(CloseSeen(s))
-----------------------------------------------------------------------------
\* auth.py:13 "This proves key ownership": when _do_auth returned, the owner of
\* the key that the connection is registered under has signed the nonce of this
\* very handshake, whatever the other end made its packets of, and it is the
\* node that connect_to_node wanted.  Between two sides that run the program it
\* is the one at the other end; in general the signature covers the nonce and
\* nothing that ties it to this WebSocket.
Authentic ==
    \A s \in program :
        pc[s] = "done" =>
            /\ <<s, peer[s]>> \in signed
            /\ expects[s] \in {None, peer[s]}
            /\ Other(s) \in program => peer[s] = id[Other(s)]

\* Between two sides that run the program, unless the dialler gives up, both
\* come to an end, wherever the connection breaks: neither waits for a packet
\* that will not come.
HandshakeEnds ==
    \A s \in Side :
        <>(\/ program # Side
           \/ pc[s] \in {"done", "failed"}
           \/ pc["d"] = "cancelled")
=============================================================================
