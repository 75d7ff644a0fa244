-------------------------- MODULE HandshakeProofs ---------------------------
(***************************************************************************)
(* Proofs about Handshake, for any set of ids.                             *)
(*                                                                         *)
(* Authentic rests on what may be on its way to a side: challenges, and    *)
(* responses whose signature the owner of some key made, of some nonce.    *)
(* From a side that runs the program they carry its own key.  The checks   *)
(* of verify_response do the rest: what passes them is a signature of this *)
(* side's nonce by the owner of the key that is claimed.                   *)
(***************************************************************************)
EXTENDS Handshake, SequenceTheorems, TLAPS

\* The two sides of a WebSocket are each other's other side.
LEMMA OtherSide ==
    /\ Other("d") = "a"
    /\ Other("a") = "d"
    /\ \A s \in Side : Other(s) \in Side /\ Other(s) # s /\ Other(Other(s)) = s
<1>1. \A s \in Side : \E o \in Side : o # s
    BY DEF Side
<1>2. \A s \in Side : Other(s) \in Side /\ Other(s) # s
    BY <1>1 DEF Other
<1> QED
    BY <1>2 DEF Side

\* What may be in inbox[s]: a response has a signature that somebody made, and
\* the key of the other side if that runs the program.
Answer(s) ==
    {r \in Response : r.sig \in signed /\ (Other(s) \in program => r.key = id[Other(s)])}
Sendable(s) == Challenge \cup Answer(s)

\* The inductive invariant: a side that is about to respond has a nonce to
\* sign, and every packet on its way is one that its sender could make.
HandshakeInv ==
    /\ TypeOK
    /\ \A s \in Side : pc[s] = "respond" => theirs[s] \in Nonce
    /\ \A s \in Side : inbox[s] \in Seq(Sendable(s))
    /\ Authentic

LEMMA InitInv == Init => HandshakeInv
<1> SUFFICES ASSUME Init PROVE HandshakeInv
    OBVIOUS
<1>1. TypeOK
    BY DEF Init, TypeOK, Side, Nonce
<1>2. \A s \in Side : inbox[s] \in Seq(Sendable(s)) /\ pc[s] = "start"
    BY DEF Init
<1>3. Authentic
    BY <1>1, <1>2 DEF TypeOK, Authentic
<1> QED
    BY <1>1, <1>2, <1>3 DEF HandshakeInv

\* Packets are made of the parts that their receiver expects.
LEMMA Made ==
    ASSUME TypeOK, NEW s \in Side, NEW n \in Nonce
    PROVE  /\ make_challenge(s) \in Challenge
           /\ make_response(s, n) \in Response
           /\ make_response(s, n).key = id[s]
           /\ make_response(s, n).sig \in Nonce \X Id
BY DEF make_challenge, make_response, Challenge, Response, Nonce, TypeOK

\* What could be sent before can be sent when more has been signed.
LEMMA SendableGrows ==
    ASSUME signed \subseteq signed', UNCHANGED who, NEW s
    PROVE  Sendable(s) \subseteq Sendable(s)'
BY DEF Sendable, Answer, who

\* What is on its way when a side's packets become q and nothing else moves.
LEMMA InboxKeeps ==
    ASSUME HandshakeInv, NEW s \in Side, NEW q \in Seq(Sendable(s)'),
           inbox' = [inbox EXCEPT ![s] = q], signed \subseteq signed', UNCHANGED who
    PROVE  /\ inbox' \in [Side -> Seq(Challenge \cup Response)]
           /\ \A o \in Side : inbox'[o] \in Seq(Sendable(o)')
<1>1. Sendable(s)' \subseteq Challenge \cup Response
    BY DEF Sendable, Answer
<1>2. q \in Seq(Challenge \cup Response)
    BY <1>1, SeqMonotonic
<1>3. inbox' \in [Side -> Seq(Challenge \cup Response)]
    BY <1>2 DEF HandshakeInv, TypeOK
<1>4. ASSUME NEW o \in Side, o # s PROVE inbox'[o] \in Seq(Sendable(o)')
  <2>1. inbox'[o] = inbox[o] /\ inbox[o] \in Seq(Sendable(o))
      BY <1>4 DEF HandshakeInv, TypeOK
  <2> QED
      BY <2>1, SendableGrows, SeqMonotonic
<1>5. inbox'[s] = q
    BY DEF HandshakeInv, TypeOK
<1> QED
    BY <1>3, <1>4, <1>5

\* A packet is put on its way.
LEMMA SendKeeps ==
    ASSUME HandshakeInv, NEW s \in Side, NEW pkt \in Sendable(Other(s))', Send(s, pkt),
           signed \subseteq signed', UNCHANGED who
    PROVE  /\ inbox' \in [Side -> Seq(Challenge \cup Response)]
           /\ \A o \in Side : inbox'[o] \in Seq(Sendable(o)')
<1>1. Other(s) \in Side /\ inbox[Other(s)] \in Seq(Sendable(Other(s)))
    BY OtherSide DEF HandshakeInv
<1>2. inbox[Other(s)] \in Seq(Sendable(Other(s))')
    BY <1>1, SendableGrows, SeqMonotonic
<1>3. Append(inbox[Other(s)], pkt) \in Seq(Sendable(Other(s))')
    BY <1>2, AppendProperties
<1> QED
    BY <1>1, <1>3, InboxKeeps DEF Send

\* Taking the first packet, or losing the last ones, leaves what could be sent.
LEMMA TakeKeeps ==
    ASSUME HandshakeInv, NEW s \in Side, inbox[s] # <<>>,
           inbox' = [inbox EXCEPT ![s] = Tail(@)], UNCHANGED <<who, signed>>
    PROVE  /\ Head(inbox[s]) \in Sendable(s)
           /\ inbox' \in [Side -> Seq(Challenge \cup Response)]
           /\ \A o \in Side : inbox'[o] \in Seq(Sendable(o)')
<1>1. Head(inbox[s]) \in Sendable(s) /\ Tail(inbox[s]) \in Seq(Sendable(s))
    BY HeadTailProperties DEF HandshakeInv
<1>2. Tail(inbox[s]) \in Seq(Sendable(s)')
    BY <1>1, SendableGrows, SeqMonotonic
<1>3. inbox' = [inbox EXCEPT ![s] = Tail(inbox[s])]
    OBVIOUS
<1> QED
    BY <1>1, <1>2, <1>3, InboxKeeps

LEMMA CutKeeps ==
    ASSUME HandshakeInv, NEW s \in Side, NEW i \in 0 .. Len(inbox[s]),
           inbox' = [inbox EXCEPT ![s] = SubSeq(@, 1, i)], UNCHANGED <<who, signed>>
    PROVE  /\ inbox' \in [Side -> Seq(Challenge \cup Response)]
           /\ \A o \in Side : inbox'[o] \in Seq(Sendable(o)')
<1>1. inbox[s] \in Seq(Sendable(s))
    BY DEF HandshakeInv
<1>2. SubSeq(inbox[s], 1, i) \in Seq(Sendable(s))
    BY <1>1
<1>3. SubSeq(inbox[s], 1, i) \in Seq(Sendable(s)')
    BY <1>2, SendableGrows, SeqMonotonic
<1>4. inbox' = [inbox EXCEPT ![s] = SubSeq(inbox[s], 1, i)]
    OBVIOUS
<1> QED
    BY <1>3, <1>4, InboxKeeps

\* _do_auth raises at one side, which may close its end.
LEMMA RaiseKeeps ==
    ASSUME TypeOK, NEW s \in Side, Raise(s)
    PROVE  ws' \in [Side -> BOOLEAN]
BY DEF Raise, TypeOK

-----------------------------------------------------------------------------
\* A step that makes no side done keeps Authentic, as signatures only grow.
LEMMA AuthenticKeeps ==
    ASSUME Authentic, UNCHANGED <<who, peer>>, signed \subseteq signed',
           \A s \in Side : pc'[s] = "done" => pc[s] = "done",
           program \subseteq Side
    PROVE  Authentic'
BY OtherSide DEF Authentic, who

\* No step of either side, of the network or of a timeout disturbs the
\* invariant.
LEMMA StepInv == HandshakeInv /\ [Next]_vars => HandshakeInv'
<1> SUFFICES ASSUME HandshakeInv, [Next]_vars PROVE HandshakeInv'
    OBVIOUS
<1> USE HandshakeAssumption
<1> DEFINE Way == /\ inbox' \in [Side -> Seq(Challenge \cup Response)]
                  /\ \A o \in Side : inbox'[o] \in Seq(Sendable(o)')
<1>1. ASSUME NEW s \in Side, SendChallenge(s) PROVE HandshakeInv'
  <2>1. make_challenge(s) \in Sendable(Other(s))'
      BY Made DEF HandshakeInv, Sendable, Nonce
  <2>2. Way
      BY <1>1, <2>1, SendKeeps DEF SendChallenge
  <2>3. Authentic'
      BY <1>1, AuthenticKeeps DEF HandshakeInv, TypeOK, SendChallenge, Goto
  <2> QED
      BY <1>1, <2>2, <2>3 DEF HandshakeInv, TypeOK, SendChallenge, Goto, who
<1>2. ASSUME NEW s \in Side, RecvChallenge(s) PROVE HandshakeInv'
  <2>1. Head(inbox[s]) \in Sendable(s) /\ Way
      BY <1>2, TakeKeeps DEF RecvChallenge
  <2>2. Head(inbox[s]).type = "AUTH_CHALLENGE" => Head(inbox[s]).nonce \in Nonce
      BY <2>1 DEF Sendable, Answer, Challenge, Response
  <2>3. CASE Head(inbox[s]).type = "AUTH_CHALLENGE"
    <3>1. /\ pc[s] = "challenge"
          /\ pc' = [pc EXCEPT ![s] = "respond"]
          /\ theirs' = [theirs EXCEPT ![s] = Head(inbox[s]).nonce]
          /\ UNCHANGED <<who, peer, ws, signed>>
        BY <1>2, <2>3 DEF RecvChallenge, Goto
    <3>2. Authentic'
        BY <3>1, AuthenticKeeps DEF HandshakeInv, TypeOK
    <3> QED
        BY <2>1, <2>2, <2>3, <3>1, <3>2 DEF HandshakeInv, TypeOK, who
  <2>4. CASE Head(inbox[s]).type # "AUTH_CHALLENGE"
    <3>1. /\ ws' \in [Side -> BOOLEAN]
          /\ pc' = [pc EXCEPT ![s] = "failed"]
          /\ UNCHANGED <<who, theirs, peer, signed>>
        BY <1>2, <2>4, RaiseKeeps DEF HandshakeInv, RecvChallenge, Raise, Goto
    <3>2. Authentic'
        BY <3>1, AuthenticKeeps DEF HandshakeInv, TypeOK
    <3> QED
        BY <2>1, <3>1, <3>2 DEF HandshakeInv, TypeOK, who
  <2> QED
      BY <2>3, <2>4
<1>3. ASSUME NEW s \in Side, s \in program, SendResponse(s) PROVE HandshakeInv'
  <2> DEFINE r == make_response(s, theirs[s])
  <2>1. r \in Response /\ r.key = id[s] /\ r.sig \in Nonce \X Id
      BY <1>3, Made DEF HandshakeInv, SendResponse
  <2>2. /\ Send(s, r) /\ signed' = signed \cup {r.sig}
        /\ pc[s] = "respond" /\ pc' = [pc EXCEPT ![s] = "response"]
        /\ UNCHANGED <<who, theirs, peer, ws>>
      BY <1>3 DEF SendResponse, Goto
  <2> HIDE DEF r
  <2>3. r \in Sendable(Other(s))'
      BY <2>1, <2>2, OtherSide DEF Sendable, Answer, who
  <2>4. Way
      BY <2>2, <2>3, SendKeeps
  <2>5. Authentic'
      BY <2>2, AuthenticKeeps DEF HandshakeInv, TypeOK
  <2> QED
      BY <2>1, <2>2, <2>4, <2>5 DEF HandshakeInv, TypeOK, who
<1>4. ASSUME NEW s \in Side, RecvResponse(s) PROVE HandshakeInv'
  <2> DEFINE r == Head(inbox[s])
  <2>1. r \in Sendable(s) /\ Way
      BY <1>4, TakeKeeps DEF RecvResponse
  <2>2. r.type = "AUTH_RESPONSE" =>
          r.sig \in signed /\ r.key \in Id /\ (Other(s) \in program => r.key = id[Other(s)])
      BY <2>1 DEF Sendable, Answer, Challenge, Response
  <2>3. CASE r.type = "AUTH_RESPONSE" /\ verify_response(s, r)
    <3>1. r.sig = <<s, r.key>> /\ expects[s] \in {None, r.key}
        BY <2>3 DEF verify_response
    <3>2. /\ pc' = [pc EXCEPT ![s] = "done"]
          /\ peer' = [peer EXCEPT ![s] = r.key]
          /\ UNCHANGED <<who, theirs, ws, signed>>
        BY <1>4, <2>3 DEF RecvResponse, Goto
    <3> HIDE DEF r
    <3>3. Authentic'
      <4> SUFFICES ASSUME NEW o \in program, pc'[o] = "done"
                   PROVE  /\ <<o, peer'[o]>> \in signed
                          /\ expects[o] \in {None, peer'[o]}
                          /\ Other(o) \in program => peer'[o] = id[Other(o)]
          BY <3>2 DEF Authentic, who
      <4>1. CASE o = s
          BY <2>2, <2>3, <3>1, <3>2, <4>1 DEF HandshakeInv, TypeOK
      <4>2. CASE o # s
          BY <3>2, <4>2 DEF HandshakeInv, TypeOK, Authentic
      <4> QED
          BY <4>1, <4>2
    <3> QED
        BY <2>1, <2>2, <2>3, <3>2, <3>3 DEF HandshakeInv, TypeOK, who
  <2>4. CASE ~(r.type = "AUTH_RESPONSE" /\ verify_response(s, r))
    <3>1. /\ ws' \in [Side -> BOOLEAN]
          /\ pc' = [pc EXCEPT ![s] = "failed"]
          /\ UNCHANGED <<who, theirs, peer, signed>>
        BY <1>4, <2>4, RaiseKeeps DEF HandshakeInv, RecvResponse, Raise, Goto
    <3>2. Authentic'
        BY <3>1, AuthenticKeeps DEF HandshakeInv, TypeOK
    <3> QED
        BY <2>1, <3>1, <3>2 DEF HandshakeInv, TypeOK, who
  <2> QED
      BY <2>3, <2>4
<1>5. ASSUME NEW s \in Side, Raises(s) \/ CloseSeen(s) PROVE HandshakeInv'
  <2>1. ws' \in [Side -> BOOLEAN]
      BY <1>5, RaiseKeeps DEF HandshakeInv, TypeOK, Raises, CloseSeen
  <2>2. pc' = pc \/ pc' = [pc EXCEPT ![s] = "failed"]
      BY <1>5 DEF Raises, CloseSeen, Raise, Goto
  <2>3. UNCHANGED <<who, inbox, theirs, peer, signed>>
      BY <1>5 DEF Raises, CloseSeen
  <2>4. Authentic'
      BY <2>2, <2>3, AuthenticKeeps DEF HandshakeInv, TypeOK
  <2> QED
      BY <2>1, <2>2, <2>3, <2>4 DEF HandshakeInv, TypeOK, Sendable, Answer, who
<1>6. ASSUME NEW s \in Side, LinkDies(s) PROVE HandshakeInv'
  <2>1. Way
      BY <1>6, CutKeeps DEF LinkDies
  <2>2. Authentic'
      BY <1>6, AuthenticKeeps DEF HandshakeInv, TypeOK, LinkDies
  <2> QED
      BY <1>6, <2>1, <2>2 DEF HandshakeInv, TypeOK, LinkDies, who
<1>7. CASE TimesOut
  <2>1. /\ pc' = [pc EXCEPT !["d"] = "cancelled"]
        /\ UNCHANGED <<who, inbox, theirs, peer, ws, signed>>
      BY <1>7 DEF TimesOut, Goto
  <2>2. Authentic'
      BY <2>1, AuthenticKeeps DEF HandshakeInv, TypeOK
  <2> QED
      BY <2>1, <2>2 DEF HandshakeInv, TypeOK, Sendable, Answer, who, Side
<1>8. CASE UNCHANGED vars
    BY <1>8 DEF HandshakeInv, TypeOK, Authentic, Sendable, Answer, vars, who
<1>9. ASSUME NEW s \in Side, NEW pkt \in Challenge \cup Response, SendsAnything(s, pkt)
      PROVE  HandshakeInv'
  <2>1. Other(s) \in Side /\ Other(Other(s)) = s /\ s \notin program
      BY <1>9, OtherSide DEF SendsAnything
  <2>2. pkt \in Sendable(Other(s))'
      BY <1>9, <2>1 DEF SendsAnything, Sendable, Answer, who
  <2>3. Way
      BY <1>9, <2>2, SendKeeps DEF SendsAnything
  <2>4. Authentic'
      BY <1>9, AuthenticKeeps DEF HandshakeInv, TypeOK, SendsAnything
  <2> QED
      BY <1>9, <2>3, <2>4 DEF HandshakeInv, TypeOK, SendsAnything, who
<1>10. ASSUME NEW x \in Id, NEW n \in Nonce, SignsElsewhere(x, n) PROVE HandshakeInv'
  <2>1. /\ signed' = signed \cup {<<n, x>>}
        /\ UNCHANGED <<who, pc, inbox, theirs, peer, ws>>
      BY <1>10 DEF SignsElsewhere
  <2>2. Way
    <3>1. inbox' = [inbox EXCEPT !["d"] = inbox["d"]]
        BY <2>1 DEF HandshakeInv, TypeOK
    <3>2. "d" \in Side /\ inbox["d"] \in Seq(Sendable("d"))
        BY DEF Side, HandshakeInv
    <3>3. inbox["d"] \in Seq(Sendable("d")')
        BY <2>1, <3>2, SendableGrows, SeqMonotonic
    <3> QED
        BY <2>1, <3>1, <3>2, <3>3, InboxKeeps
  <2>3. Authentic'
      BY <2>1, AuthenticKeeps DEF HandshakeInv, TypeOK
  <2> QED
      BY <2>1, <2>2, <2>3 DEF HandshakeInv, TypeOK, who
<1> QED
    BY <1>1, <1>2, <1>3, <1>4, <1>5, <1>6, <1>7, <1>8, <1>9, <1>10 DEF Next, Step

\* TypeOK is an invariant of the handshake.
THEOREM HandshakeTypeCorrect == Spec => []TypeOK
<1>1. HandshakeInv => TypeOK
    BY DEF HandshakeInv
<1> QED
    BY <1>1, InitInv, StepInv, PTL DEF Spec

\* When _do_auth returns, the owner of the key it returns has signed this
\* handshake's nonce, and connect_to_node has the node that it wanted, for any
\* ids, whatever the other side sends and however the connection breaks.
THEOREM AuthenticCorrect == Spec => []Authentic
<1>1. HandshakeInv => Authentic
    BY DEF HandshakeInv
<1> QED
    BY <1>1, InitInv, StepInv, PTL DEF Spec
=============================================================================
