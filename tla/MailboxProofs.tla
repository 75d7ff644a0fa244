--------------------------- MODULE MailboxProofs ---------------------------
(***************************************************************************)
(* Delivery implements Mailbox: every step of the handlers, of the         *)
(* connections and of the environment is a step of the abstract mailbox or *)
(* leaves it alone.                                                        *)
(*                                                                         *)
(* The mapping reads the buffer, the handlers and the history; the proof   *)
(* needs of them that a message somebody has was submitted (Held) and that *)
(* one that left the buffer was passed on or excused (KeptInv).            *)
(***************************************************************************)
EXTENDS DeliveryProofs

MInv == KeptInv /\ Held

\* What the mapping says of the place of a message.
LEMMA PlaceIs ==
    ASSUME MInv, NEW m \in Msg
    PROVE  /\ Place \in Box!Places
           /\ Place[m] = "stored" <=> m \in DOMAIN buffer
           /\ Place[m] = "moving" <=> m \notin DOMAIN buffer /\ InMemory(m)
           /\ Place[m] = "gone" <=> m \notin DOMAIN buffer /\ ~InMemory(m) /\ m \in submitted
           /\ InMemory(m) \/ m \in DOMAIN buffer => m \in submitted
<1>1. InMemory(m) => m \in submitted
  <2> SUFFICES ASSUME NEW t \in Thread, h[t].msg = m \/ m \in h[t].todo
               PROVE  m \in submitted
      BY DEF InMemory
  <2>1. m \in h[t].todo => m \in submitted
      BY DEF MInv, Held
  <2>2. h[t].msg = m => m \in h[t].todo \/ h[t].reg = None
      BY Facts, NoneAssumption DEF MInv, KeptInv
  <2> QED
      BY <2>1, <2>2 DEF MInv, Held
<1>2. m \in DOMAIN buffer => m \in submitted
    BY DEF MInv, Held
<1>3. Place \in Box!Places
    BY DEF Place, Box!Places
<1> QED
    BY <1>1, <1>2, <1>3 DEF Place

LEMMA StepMInv == ASSUME HasHandler PROVE MInv /\ [Next]_vars => MInv'
BY StepKept, StepHeld DEF MInv, KeptInv

\* A message stays at its place when it stays in the buffer, or where it was in
\* memory.
LEMMA Still ==
    ASSUME NEW m \in Msg,
           m \in DOMAIN buffer' <=> m \in DOMAIN buffer,
           m \in DOMAIN buffer \/ (InMemory(m)' <=> InMemory(m)),
           m \in submitted' <=> m \in submitted
    PROVE  Place'[m] = Place[m]
BY DEF Place

\* The place of one message changes.
LEMMA OneMoves ==
    ASSUME NEW m \in Msg, NEW to, Place'[m] = to,
           \A x \in Msg : x # m => Place'[x] = Place[x]
    PROVE  Box!Move(m, Place[m], to)
<1>1. /\ Place' = [x \in Msg |-> Place'[x]]
      /\ Place = [x \in Msg |-> Place[x]]
    BY DEF Place
<1>2. Place' = [Place EXCEPT ![m] = to]
    BY <1>1
<1> QED
    BY <1>2 DEF Box!Move

\* What the mapping reads of the history.
PassedOn == {m \in Msg : Delivered(m)}

LEMMA SameHistory ==
    ASSUME UNCHANGED <<sent, fate>>
    PROVE  PassedOn' = PassedOn /\ Excused' = Excused
BY DEF PassedOn, Excused, Delivered

LEMMA NotedHistory ==
    ASSUME DInv, NEW m \in Msg, NEW F, Note(m, F), sent' = sent
    PROVE  /\ "handed" \notin F => PassedOn' = PassedOn
           /\ "handed" \in F => PassedOn' = PassedOn \cup {m}
           /\ F \cap {"expired", "given up", "crashed"} = {} => Excused' = Excused
           /\ F \cap {"expired", "given up", "crashed"} # {} => Excused' = Excused \cup {m}
<1>1. \A x \in Msg : fate'[x] = IF x = m THEN fate[x] \cup F ELSE fate[x]
    BY DEF Note, DInv, TypeOK
<1>2. "handed" \notin F => PassedOn' = PassedOn
    BY <1>1 DEF PassedOn, Delivered
<1>3. "handed" \in F => PassedOn' = PassedOn \cup {m}
    BY <1>1 DEF PassedOn, Delivered
<1>4. F \cap {"expired", "given up", "crashed"} = {} => Excused' = Excused
    BY <1>1 DEF Excused
<1>5. F \cap {"expired", "given up", "crashed"} # {} => Excused' = Excused \cup {m}
  <2> SUFFICES ASSUME F \cap {"expired", "given up", "crashed"} # {}
               PROVE  Excused' = Excused \cup {m}
      OBVIOUS
  <2>1. ASSUME NEW x \in Msg PROVE x \in Excused' <=> x \in Excused \cup {m}
      BY <1>1 DEF Excused
  <2> QED
      BY <2>1 DEF Excused
<1> QED
    BY <1>2, <1>3, <1>4, <1>5

\* Where a message is in memory after handler t became q.
LEMMA MemoryIs ==
    ASSUME DInv, NEW t \in Thread, NEW q, Become(t, q), NEW m
    PROVE  InMemory(m)' <=> \/ q.msg = m \/ m \in q.todo
                            \/ \E o \in Thread : o # t /\ (h[o].msg = m \/ m \in h[o].todo)
<1>1. h'[t] = q /\ \A o \in Thread : o # t => h'[o] = h[o]
    BY Becomes
<1> QED
    BY <1>1 DEF InMemory

\* A handler that keeps what it has keeps every message where it is in memory.
LEMMA MemoryKept ==
    ASSUME DInv, NEW t \in Thread, NEW q, Become(t, q), NEW m \in Msg,
           (q.msg = m \/ m \in q.todo) <=> (h[t].msg = m \/ m \in h[t].todo)
    PROVE  InMemory(m)' <=> InMemory(m)
BY MemoryIs DEF InMemory

LEMMA Stutters ==
    ASSUME \A m \in Msg : Place'[m] = Place[m], PassedOn' = PassedOn, Excused' = Excused
    PROVE  UNCHANGED Box!mailboxVars
<1>1. /\ Place' = [x \in Msg |-> Place'[x]]
      /\ Place = [x \in Msg |-> Place[x]]
    BY DEF Place
<1>2. Place' = Place
    BY <1>1
<1> QED
    BY <1>2 DEF Box!mailboxVars, PassedOn

-----------------------------------------------------------------------------
\* The steps of a handler.
LEMMA MoveSimulates ==
    ASSUME HasHandler, MInv, NEW t \in Thread, NEW q, Become(t, q), Moves(t, q)
    PROVE  [Box!MailboxNext]_(Box!mailboxVars)
<1> DEFINE Goal == [Box!MailboxNext]_(Box!mailboxVars)
           m == h[t].msg
<1>1. DInv /\ BufferedNotLost /\ Passed /\ Held
    BY DEF MInv, KeptInv
<1>2. ASSUME \A x \in Msg : Place'[x] = Place[x], PassedOn' = PassedOn, Excused' = Excused
      PROVE  Goal
    BY <1>2, Stutters
<1>3. ASSUME NEW x \in Msg,
             \/ Box!Take(x) \/ Box!PassOn(x) \/ Box!Store(x) \/ Box!Finish(x)
             \/ Box!GiveUp(x) \/ Box!Clear(x)
      PROVE  Goal
    BY <1>3 DEF Box!MailboxNext
<1> HIDE DEF Goal
<1>4. h[t].pc \in Routing => m \in Msg /\ InMemory(m)
    BY <1>1, Facts DEF InMemory
<1>5. h'[t] = q
    BY <1>1, Becomes
\* Nothing that the mapping reads of the handler changes.
<1>6. ASSUME Same(t, q) \/ Registers(t, q) \/ Picks(t, q),
             buffer' = buffer, submitted' = submitted, NEW x \in Msg
      PROVE  Place'[x] = Place[x]
  <2>1. (q.msg = x \/ x \in q.todo) <=> (h[t].msg = x \/ x \in h[t].todo)
      BY <1>6, NoneAssumption DEF Same, Registers, Picks
  <2>2. InMemory(x)' <=> InMemory(x)
      BY <1>1, <2>1, MemoryKept
  <2> QED
      BY <1>6, <2>2, Still
<1>7. ASSUME Registers(t, q) \/ Picks(t, q) \/ Proceeds(t, q) PROVE Goal
  <2>1. UNCHANGED <<buffer, submitted, sent, fate>>
      BY <1>7 DEF Registers, Picks, Proceeds, historyVars
  <2> QED
      BY <1>2, <1>6, <1>7, <2>1, SameHistory DEF Proceeds
<1>8. ASSUME Retries(t, q) PROVE Goal
  <2>1. /\ "handed" \notin Doubt(h[t])
        /\ Doubt(h[t]) \cap {"expired", "given up", "crashed"} = {}
      BY DEF Doubt
  <2>2. m \in Msg /\ UNCHANGED <<buffer, submitted, sent>> /\ Same(t, q)
      BY <1>4, <1>8 DEF Retries, Routing, Trying
  <2>3. PassedOn' = PassedOn /\ Excused' = Excused
      BY <1>1, <1>8, <2>1, <2>2, NotedHistory DEF Retries
  <2> QED
      BY <1>2, <1>6, <2>2, <2>3
<1>9. ASSUME Collects(t, q) PROVE Goal
  <2>1. fate \in [Msg -> SUBSET Fate]
      BY <1>1 DEF DInv, TypeOK
  <2>2. \A x \in Msg : \A f \in {"handed", "expired", "given up", "crashed"} :
           f \in fate'[x] <=> f \in fate[x]
      BY <1>9, <2>1 DEF Collects, NoteAll
  <2>3. PassedOn' = PassedOn
      BY <1>9, <2>2 DEF Collects, PassedOn, Delivered
  <2>4. Excused' = Excused
    <3>1. \A x \in Msg : x \in Excused' <=> x \in Excused
        BY <2>2 DEF Excused
    <3> QED
        BY <3>1 DEF Excused
  <2>5. ASSUME NEW x \in Msg PROVE Place'[x] = Place[x]
    <3>1. CASE x \in DOMAIN buffer
        BY <1>9, <3>1, Still DEF Collects
    <3>2. CASE x \notin DOMAIN buffer
      <4>1. (q.msg = x \/ x \in q.todo) <=> (h[t].msg = x \/ x \in h[t].todo)
          BY <1>9, <3>2, NoneAssumption DEF Collects, get_buffered
      <4> QED
          BY <1>1, <1>9, <4>1, MemoryKept, Still DEF Collects
    <3> QED
        BY <3>1, <3>2
  <2> QED
      BY <1>2, <2>3, <2>4, <2>5
<1>10. ASSUME Takes(t, q) PROVE Goal
  <2>1. PICK n \in Msg : q.msg = n /\ n \notin submitted /\ submitted' = submitted \cup {n}
      BY <1>10 DEF Takes
  <2>2. n \notin DOMAIN buffer /\ ~InMemory(n)
      BY <2>1, PlaceIs
  <2>3. InMemory(n)'
      BY <1>1, <2>1, MemoryIs
  <2>4. Place[n] = "new" /\ Place'[n] = "moving"
      BY <1>10, <2>1, <2>2, <2>3 DEF Takes, Place
  <2>5. ASSUME NEW x \in Msg, x # n PROVE Place'[x] = Place[x]
    <3>1. (q.msg = x \/ x \in q.todo) <=> (h[t].msg = x \/ x \in h[t].todo)
        BY <1>10, <2>1, <2>5, NoneAssumption DEF Takes, Idle
    <3> QED
        BY <1>1, <1>10, <2>1, <2>5, <3>1, MemoryKept, Still DEF Takes
  <2>6. Box!Take(n)
      BY <1>10, <2>4, <2>5, OneMoves, SameHistory DEF Takes, Box!Take, PassedOn
  <2> QED
      BY <1>3, <2>6
\* Handler t lets go of its message m, or of nothing.
<1>11. ASSUME q = Returned(h[t]), h[t].pc \in Routing, buffer' = buffer,
              submitted' = submitted
       PROVE  /\ \A x \in Msg : x # m => Place'[x] = Place[x]
              /\ Place'[m] = Place[m] \/ (Place[m] = "moving" /\ Place'[m] = "gone")
  <2>1. h[t].reg = None => h[t].todo = {} /\ q.todo = {} /\ q.msg = None
      BY <1>1, <1>11, Facts DEF Returned, Idle
  <2>2. h[t].reg # None => Same(t, q)
      BY <1>1, <1>11, ReturnedIs
  <2>3. ASSUME NEW x \in Msg, x # m PROVE Place'[x] = Place[x]
    <3>1. (q.msg = x \/ x \in q.todo) <=> (h[t].msg = x \/ x \in h[t].todo)
        BY <2>1, <2>2, <2>3, NoneAssumption DEF Same
    <3> QED
        BY <1>1, <1>11, <3>1, MemoryKept, Still
  <2>4. m \in Msg /\ InMemory(m) /\ m \in submitted
      BY <1>4, <1>11, PlaceIs
  <2>5. Place'[m] = Place[m] \/ (Place[m] = "moving" /\ Place'[m] = "gone")
      BY <1>11, <2>4 DEF Place
  <2> QED
      BY <2>3, <2>5
<1>12. ASSUME Returns(t, q) PROVE Goal
  <2>1. /\ h[t].pc \in Routing /\ m \in Msg
        /\ UNCHANGED <<buffer, submitted, sent, fate>>
      BY <1>4, <1>12 DEF Returns, Routing, Trying, Sending, historyVars
  <2>2. m \in PassedOn
      BY <1>1, <1>12, <2>1 DEF Returns, Passed, PassedOn, Delivered
  <2>3. PassedOn' = PassedOn /\ Excused' = Excused
      BY <2>1, SameHistory
  <2>4. CASE Place'[m] = Place[m]
      BY <1>2, <1>11, <1>12, <2>1, <2>3, <2>4 DEF Returns
  <2>5. CASE Place[m] = "moving" /\ Place'[m] = "gone"
    <3>1. Box!Finish(m)
        BY <1>11, <1>12, <2>1, <2>2, <2>3, <2>5, OneMoves
           DEF Returns, Box!Finish, PassedOn
    <3> QED
        BY <1>3, <2>1, <3>1
  <2> QED
      BY <1>11, <1>12, <2>1, <2>4, <2>5 DEF Returns
<1>13. ASSUME m \in Msg, Place[m] \in {"moving", "stored"},
              \A x \in Msg : x # m => Place'[x] = Place[x],
              Place'[m] = Place[m] \/ (Place[m] = "moving" /\ Place'[m] = "gone"),
              PassedOn' = PassedOn \cup {m}, Excused' = Excused
       PROVE  Goal
  <2>1. Box!PassOn(m)
    <3>1. CASE Place'[m] = Place[m]
      <4>1. Place' = [x \in Msg |-> Place'[x]] /\ Place = [x \in Msg |-> Place[x]]
          BY DEF Place
      <4>2. Place' = Place
          BY <1>13, <3>1, <4>1
      <4> QED
          BY <1>13, <4>2 DEF Box!PassOn, PassedOn
    <3>2. CASE Place[m] = "moving" /\ Place'[m] = "gone"
        BY <1>13, <3>2, OneMoves DEF Box!PassOn, PassedOn
    <3> QED
        BY <1>13, <3>1, <3>2
  <2> QED
      BY <1>3, <1>13, <2>1
<1>14. h[t].pc \in Routing => m \in Msg /\ Place[m] \in {"moving", "stored"}
    BY <1>4, PlaceIs
<1>15. ASSUME HandsOver(t, q) PROVE Goal
  <2> DEFINE F == (IF HasHandler THEN {"handed"} ELSE {}) \cup Doubt(h[t])
  <2>1. "handed" \in F /\ F \cap {"expired", "given up", "crashed"} = {}
      BY <1>15 DEF Doubt
  <2>2. h[t].pc \in Routing /\ m \in Msg /\ Note(m, F) /\ sent' = sent
      BY <1>14, <1>15 DEF HandsOver, Routing, Trying, Sending
  <2> HIDE DEF F
  <2>3. PassedOn' = PassedOn \cup {m} /\ Excused' = Excused
      BY <1>1, <2>1, <2>2, NotedHistory
  <2> QED
      BY <1>11, <1>13, <1>14, <1>15, <2>2, <2>3 DEF HandsOver
<1>16. ASSUME Writes(t, q) PROVE Goal
  <2>1. h[t].pc \in Routing /\ m \in Msg
      BY <1>14, <1>16 DEF Writes, Routing, Trying, Sending
  <2>2. sent \in [Msg -> 0 .. 2]
      BY <1>1 DEF DInv, TypeOK
  <2>3. \A x \in Msg : sent'[x] = IF x = m /\ sent[x] < 2 THEN sent[x] + 1 ELSE sent[x]
      BY <1>16, <2>2 DEF Writes
  <2>4. sent'[m] > 0
      BY <2>1, <2>2, <2>3
  <2>5. \A x \in Msg : x \in PassedOn' <=> x \in PassedOn \cup {m}
      BY <1>16, <2>1, <2>3, <2>4 DEF Writes, PassedOn, Delivered
  <2>6. PassedOn' = PassedOn \cup {m} /\ Excused' = Excused
      BY <1>16, <2>1, <2>5 DEF Writes, PassedOn, Excused
  <2>7. \A x \in Msg : Place'[x] = Place[x]
      BY <1>6, <1>16 DEF Writes
  <2> QED
      BY <1>13, <1>14, <2>1, <2>6, <2>7
<1>17. ASSUME m \in Msg, Place[m] \in {"moving", "stored"}, Excused' = Excused \cup {m},
              PassedOn' = PassedOn,
              \A x \in Msg : \/ Place'[x] = Place[x]
                             \/ /\ Place[x] = "moving" /\ Place'[x] = "gone"
                                /\ x \in PassedOn \cup Excused'
       PROVE  Goal
  <2>1. Place' \in Box!Places
      BY DEF Place, Box!Places
  <2>2. Box!GiveUp(m)
      BY <1>17, <2>1 DEF Box!GiveUp, PassedOn
  <2> QED
      BY <1>3, <1>17, <2>2
<1>18. ASSUME Drops(t, q) PROVE Goal
  <2>1. /\ "handed" \notin {"given up"} \cup Doubt(h[t])
        /\ ({"given up"} \cup Doubt(h[t])) \cap {"expired", "given up", "crashed"} # {}
      BY DEF Doubt
  <2>2. /\ m \in Msg /\ h[t].pc \in Routing /\ q = Returned(h[t])
        /\ UNCHANGED <<buffer, submitted, sent>>
      BY <1>14, <1>18 DEF Drops, Returned
  <2>3. PassedOn' = PassedOn /\ Excused' = Excused \cup {m}
      BY <1>1, <1>18, <2>1, <2>2, NotedHistory DEF Drops
  <2> QED
      BY <1>11, <1>14, <1>17, <2>2, <2>3
<1>19. ASSUME Breaks(t, q) PROVE Goal
  <2>1. m \in Msg /\ h[t].pc \in Routing /\ UNCHANGED <<buffer, submitted, sent>>
      BY <1>14, <1>19 DEF Breaks, Routing, Trying, Sending
  <2>2. fate \in [Msg -> SUBSET Fate] /\ Doubt(h[t]) \subseteq {"doubtful"}
      BY <1>1 DEF DInv, TypeOK, Doubt
  <2>3. \A x \in Msg : "handed" \in fate'[x] <=> "handed" \in fate[x]
      BY <1>19, <2>2 DEF Breaks
  <2>4. PassedOn' = PassedOn
      BY <2>1, <2>3 DEF PassedOn, Delivered
  <2>5. ASSUME NEW x \in Msg PROVE x \in Excused' <=> x \in Excused \cup {m}
    <3>1. \A f \in {"expired", "given up", "crashed"} :
             f \in fate'[x] <=> f \in fate[x] \/ (x = m /\ f = "given up")
        BY <1>19, <2>2 DEF Breaks
    <3> QED
        BY <3>1 DEF Excused
  <2>6. Excused' = Excused \cup {m}
      BY <2>1, <2>5 DEF Excused
  <2>7. ASSUME NEW x \in Msg
        PROVE  \/ Place'[x] = Place[x]
               \/ /\ Place[x] = "moving" /\ Place'[x] = "gone"
                  /\ x \in PassedOn \cup Excused'
    <3>1. CASE x \in DOMAIN buffer
        BY <2>1, <3>1, Still
    <3>2. CASE x \notin DOMAIN buffer /\ (InMemory(x)' <=> InMemory(x))
        BY <2>1, <3>2, Still
    <3>3. CASE x \notin DOMAIN buffer /\ ~(InMemory(x)' <=> InMemory(x))
      <4>1. q.msg # x /\ x \notin q.todo
          BY <1>19, NoneAssumption DEF Breaks, Idle
      <4>2. x = m \/ x \in h[t].todo
          BY <1>1, <3>3, <4>1, MemoryKept
      <4>3. InMemory(x) /\ ~InMemory(x)'
          BY <1>1, <3>3, <4>1, <4>2, MemoryIs DEF InMemory
      <4>4. x \in submitted
          BY <4>3, PlaceIs
      <4>5. Place[x] = "moving" /\ Place'[x] = "gone"
          BY <2>1, <3>3, <4>3, <4>4 DEF Place
      <4>6. x \in h[t].todo => x \in PassedOn \cup Excused
          BY <1>1, <3>3 DEF Held, BufferedNotLost, PassedOn, Excused
      <4> QED
          BY <2>6, <4>2, <4>5, <4>6
    <3> QED
        BY <3>1, <3>2, <3>3
  <2> QED
      BY <1>14, <1>17, <2>1, <2>4, <2>6, <2>7
<1>20. ASSUME Deletes(t, q) PROVE Goal
  <2>1. m \in Msg /\ h[t].pc \in Routing /\ UNCHANGED <<submitted, sent, fate>>
      BY <1>4, <1>20 DEF Deletes, Routing, historyVars
  <2>2. PassedOn' = PassedOn /\ Excused' = Excused /\ m \in PassedOn
      BY <1>1, <1>20, <2>1, SameHistory DEF Deletes, Passed, PassedOn
  <2>3. /\ m \notin DOMAIN buffer'
        /\ \A x \in Msg : x # m => (x \in DOMAIN buffer' <=> x \in DOMAIN buffer)
      BY <1>20 DEF Deletes, delete_buffered, Drop
  <2>4. ASSUME NEW x \in Msg, x # m PROVE Place'[x] = Place[x]
    <3>1. (q.msg = x \/ x \in q.todo) <=> (h[t].msg = x \/ x \in h[t].todo)
        BY <1>20, <2>4, NoneAssumption DEF Deletes
    <3> QED
        BY <1>1, <2>1, <2>3, <2>4, <3>1, MemoryKept, Still
  <2>5. m \in submitted /\ InMemory(m)
      BY <1>4, <2>1, PlaceIs
  <2>6. Place[m] \in {"stored", "moving"} /\ Place'[m] \in {"gone", "moving"}
      BY <2>1, <2>3, <2>5 DEF Place
  <2>7. CASE Place[m] = "stored"
    <3>1. Box!Move(m, "stored", "gone") \/ Box!Move(m, "stored", "moving")
        BY <2>1, <2>4, <2>6, <2>7, OneMoves
    <3>2. Box!Clear(m)
        BY <2>2, <3>1 DEF Box!Clear, PassedOn
    <3> QED
        BY <1>3, <2>1, <3>2
  <2>8. CASE Place[m] = "moving" /\ Place'[m] = "gone"
    <3>1. Box!Finish(m)
        BY <2>1, <2>2, <2>4, <2>8, OneMoves DEF Box!Finish, PassedOn
    <3> QED
        BY <1>3, <2>1, <3>1
  <2>9. CASE Place[m] = "moving" /\ Place'[m] = "moving"
      BY <1>2, <2>2, <2>4, <2>9
  <2> QED
      BY <2>6, <2>7, <2>8, <2>9
<1>21. ASSUME Buffers(t, q) PROVE Goal
  <2> DEFINE F == {"buffered"} \cup IF Raced(m) THEN {"late"} ELSE {}
  <2>1. m \in Msg /\ h[t].pc \in Routing /\ h[t].reg = None /\ Note(m, F)
        /\ UNCHANGED <<submitted, sent>>
      BY <1>4, <1>21 DEF Buffers, Routing
  <2>2. "handed" \notin F /\ F \cap {"expired", "given up", "crashed"} = {}
      OBVIOUS
  <2> HIDE DEF F
  <2>3. PassedOn' = PassedOn /\ Excused' = Excused
      BY <1>1, <2>1, <2>2, NotedHistory
  <2>4. m \notin DOMAIN buffer
      BY <1>1, <2>1 DEF Held
  <2>5. DOMAIN buffer' = DOMAIN buffer \cup {m}
      BY <1>21, <2>4 DEF Buffers, buffer_message, Put
  <2>6. Place[m] = "moving" /\ Place'[m] = "stored"
      BY <1>4, <2>1, <2>4, <2>5 DEF Place
  <2>7. ASSUME NEW x \in Msg, x # m PROVE Place'[x] = Place[x]
    <3>1. h[t].todo = {} /\ q.todo = {} /\ q.msg = None
        BY <1>1, <1>21, Facts DEF Buffers, Idle
    <3>2. (q.msg = x \/ x \in q.todo) <=> (h[t].msg = x \/ x \in h[t].todo)
        BY <2>7, <3>1, NoneAssumption
    <3> QED
        BY <1>1, <2>1, <2>5, <2>7, <3>2, MemoryKept, Still
  <2>8. Box!Store(m)
      BY <2>1, <2>3, <2>6, <2>7, OneMoves DEF Box!Store, PassedOn
  <2> QED
      BY <1>3, <2>1, <2>8
<1>22. Goal
    BY <1>7, <1>8, <1>9, <1>10, <1>12, <1>15, <1>16, <1>18, <1>19, <1>20, <1>21 DEF Moves
<1> QED
    BY <1>22 DEF Goal
-----------------------------------------------------------------------------
\* The steps of the environment.
LEMMA Places == Place' \in Box!Places
BY DEF Place, Box!Places

LEMMA NotedAll ==
    ASSUME DInv, NEW M, NEW f \in {"expired", "crashed"}, NoteAll(M, f), sent' = sent
    PROVE  /\ PassedOn' = PassedOn
           /\ \A x \in Msg : x \in Excused' <=> x \in Excused \/ x \in M
<1>1. \A x \in Msg : fate'[x] = IF x \in M THEN fate[x] \cup {f} ELSE fate[x]
    BY DEF NoteAll
<1>2. PassedOn' = PassedOn
  <2>1. \A x \in Msg : "handed" \in fate'[x] <=> "handed" \in fate[x]
      BY <1>1
  <2> QED
      BY <2>1 DEF PassedOn, Delivered
<1>3. ASSUME NEW x \in Msg PROVE x \in Excused' <=> x \in Excused \/ x \in M
    BY <1>1 DEF Excused
<1> QED
    BY <1>2, <1>3

LEMMA RestSimulates ==
    ASSUME MInv, Rests \/ Tick
    PROVE  UNCHANGED Box!mailboxVars
<1>1. DOMAIN buffer' = DOMAIN buffer
    BY DEF Rests, Tick, AgeMessages
<1>2. UNCHANGED <<h, submitted, sent, fate>>
    BY DEF Rests, Tick, historyVars
<1>3. ASSUME NEW x \in Msg PROVE Place'[x] = Place[x]
    BY <1>1, <1>2, Still DEF InMemory
<1> QED
    BY <1>2, <1>3, SameHistory, Stutters

\* What only the snapshot of a flush has was passed on or has expired: a crash
\* leaves nothing without a reason.
LEMMA CrashSimulates ==
    ASSUME MInv, Crash
    PROVE  Box!LoseMemory
<1> DEFINE M == {m \in Msg : \E t \in Thread : h[t].msg = m}
<1>1. /\ UNCHANGED <<buffer, submitted, sent>> /\ NoteAll(M, "crashed")
      /\ \A t \in Thread : h'[t] = Idle
    BY DEF Crash, tableVars
<1>2. DInv
    BY DEF MInv, KeptInv
<1>3. PassedOn' = PassedOn /\ \A x \in Msg : x \in Excused' <=> x \in Excused \/ x \in M
    BY <1>1, <1>2, NotedAll
<1>4. ASSUME NEW x \in Msg
      PROVE  /\ Place'[x] = IF Place[x] = "moving" THEN "gone" ELSE Place[x]
             /\ Place[x] = "moving" => x \in PassedOn \cup Excused'
  <2>1. ~InMemory(x)'
      BY <1>1, NoneAssumption DEF InMemory, Idle
  <2>2. Place'[x] = IF Place[x] = "moving" THEN "gone" ELSE Place[x]
      BY <1>1, <2>1, PlaceIs DEF Place
  <2>3. ASSUME Place[x] = "moving" PROVE x \in PassedOn \cup Excused'
    <3>1. x \notin DOMAIN buffer /\ InMemory(x)
        BY <2>3, PlaceIs
    <3>2. CASE x \in M
        BY <1>3, <3>2
    <3>3. CASE x \notin M
      <4>1. \E t \in Thread : x \in h[t].todo
          BY <3>1, <3>3 DEF InMemory
      <4>2. "buffered" \in fate[x]
          BY <4>1 DEF MInv, Held
      <4>3. Delivered(x) \/ "expired" \in fate[x]
          BY <3>1, <4>2 DEF MInv, KeptInv, BufferedNotLost
      <4> QED
          BY <1>3, <4>3 DEF PassedOn, Excused
    <3> QED
        BY <3>2, <3>3
  <2> QED
      BY <2>2, <2>3
<1> HIDE DEF M
<1> QED
    BY <1>3, <1>4, Places DEF Box!LoseMemory, PassedOn

LEMMA CleanupSimulates ==
    ASSUME MInv, Cleanup
    PROVE  Box!Expire
<1> DEFINE M == ExpiredMessages(buffer)
<1>1. /\ UNCHANGED <<h, submitted, sent>> /\ NoteAll(M, "expired")
      /\ M \subseteq DOMAIN buffer /\ DOMAIN buffer' = DOMAIN buffer \ M
    BY DEF Cleanup, ExpiredMessages, cleanup_expired_messages, DropAll
<1> HIDE DEF M
<1>2. DInv
    BY DEF MInv, KeptInv
<1>3. PassedOn' = PassedOn /\ \A x \in Msg : x \in Excused' <=> x \in Excused \/ x \in M
    BY <1>1, <1>2, NotedAll
<1>4. ASSUME NEW x \in Msg
      PROVE  \/ Place'[x] = Place[x] /\ (x \in Excused' <=> x \in Excused)
             \/ /\ Place[x] = "stored" /\ Place'[x] \in {"gone", "moving"}
                /\ x \in Excused'
  <2>1. CASE x \in M
    <3>1. Place[x] = "stored" /\ x \in submitted
        BY <1>1, <2>1, PlaceIs
    <3>2. Place'[x] \in {"gone", "moving"}
        BY <1>1, <2>1, <3>1 DEF Place
    <3> QED
        BY <1>3, <2>1, <3>1, <3>2
  <2>2. CASE x \notin M
    <3>1. Place'[x] = Place[x]
        BY <1>1, <2>2, Still DEF InMemory
    <3> QED
        BY <1>3, <2>2, <3>1
  <2> QED
      BY <2>1, <2>2
<1> QED
    BY <1>3, <1>4, Places DEF Box!Expire, PassedOn

LEMMA StepSimulates ==
    ASSUME HasHandler, MInv, [Next]_vars
    PROVE  [Box!MailboxNext]_(Box!mailboxVars)
<1>1. CASE \E t \in Thread : \E q : Become(t, q) /\ Moves(t, q)
    BY <1>1, MoveSimulates
<1>2. CASE Rests \/ Tick
    BY <1>2, RestSimulates
<1>3. CASE Crash
    BY <1>3, CrashSimulates DEF Box!MailboxNext
<1>4. CASE Cleanup
    BY <1>4, CleanupSimulates DEF Box!MailboxNext
<1> QED
    BY <1>1, <1>2, <1>3, <1>4, StepMoves DEF MInv, KeptInv

LEMMA InitSimulates == Init => Box!MailboxInit
<1> SUFFICES ASSUME Init PROVE Box!MailboxInit
    OBVIOUS
<1>1. \A m \in Msg : ~InMemory(m) /\ m \notin submitted /\ m \notin DOMAIN buffer
    BY NoneAssumption, EmptyIsTable DEF Init, InMemory, Idle
<1>2. Place = [m \in Msg |-> "new"]
    BY <1>1 DEF Place
<1>3. \A m \in Msg : sent[m] = 0 /\ fate[m] = {}
    BY DEF Init
<1>4. \A m \in Msg : m \notin PassedOn /\ m \notin Excused
  <2> SUFFICES ASSUME NEW m \in Msg PROVE m \notin PassedOn /\ m \notin Excused
      OBVIOUS
  <2>1. ~Delivered(m)
      BY <1>3 DEF Delivered
  <2>2. fate[m] \cap {"expired", "given up", "crashed"} = {}
      BY <1>3
  <2> QED
      BY <2>1, <2>2 DEF PassedOn, Excused
<1>5. PassedOn = {} /\ Excused = {}
    BY <1>4 DEF PassedOn, Excused
<1> QED
    BY <1>2, <1>5 DEF Box!MailboxInit, PassedOn

\* With an on_message callback the node of router.py and node.py keeps what
\* Mailbox promises: whatever handlers, faults and the clock do, a message leaves
\* memory and the database only when it was passed on or given up for a reason.
THEOREM MailboxImplemented == ASSUME HasHandler PROVE Spec => ImplementsMailbox
<1>1. Init => MInv
  <2> SUFFICES ASSUME Init PROVE MInv
      OBVIOUS
  <2>1. Held
      BY NoneAssumption, EmptyIsTable DEF Init, Held, Idle
  <2>2. KeptInv
      BY InitDInv DEF Init, KeptInv, Passed, BufferedNotLost, NoMessageVanishes, Idle
  <2> QED
      BY <2>1, <2>2 DEF MInv
<1>2. MInv /\ [Next]_vars => MInv'
    BY StepMInv
<1>3. MInv /\ [Next]_vars => [Box!MailboxNext]_(Box!mailboxVars)
    BY StepSimulates
<1> QED
    BY <1>1, <1>2, <1>3, InitSimulates, PTL DEF Spec, ImplementsMailbox, Box!MailboxSafe
\* The steps of Mailbox keep its promise: nothing is nowhere without having been
\* passed on or excused.
LEMMA StepPromise ==
    Box!Promise /\ [Box!MailboxNext]_(Box!mailboxVars) => Box!Promise'
<1> SUFFICES ASSUME Box!Promise, [Box!MailboxNext]_(Box!mailboxVars) PROVE Box!Promise'
    OBVIOUS
<1> USE DEF Box!Promise, PassedOn
<1>1. Place = [x \in Msg |-> Place[x]]
    BY DEF Place
<1>2. ASSUME NEW m \in Msg,
             \/ Box!Take(m) \/ Box!PassOn(m) \/ Box!Store(m) \/ Box!Finish(m)
             \/ Box!GiveUp(m) \/ Box!Clear(m)
      PROVE  Box!Promise'
    BY <1>1, <1>2 DEF Box!Take, Box!PassOn, Box!Store, Box!Finish, Box!GiveUp, Box!Clear,
                      Box!Move
<1>3. CASE Box!Expire
    BY <1>3 DEF Box!Expire
<1>4. CASE Box!LoseMemory
    BY <1>4 DEF Box!LoseMemory
<1>5. CASE UNCHANGED Box!mailboxVars
    BY <1>5 DEF Box!mailboxVars
<1> QED
    BY <1>2, <1>3, <1>4, <1>5 DEF Box!MailboxNext

\* A message that neither a handler nor the database has any more was written,
\* given to on_message, expired, given up or lost in a crash: a consequence of
\* Mailbox alone.
THEOREM PromiseKept == ASSUME HasHandler PROVE Spec => []Box!Promise
<1>1. Box!MailboxInit => Box!Promise
    BY DEF Box!MailboxInit, Box!Promise
<1> QED
    BY <1>1, StepPromise, MailboxImplemented, PTL DEF ImplementsMailbox, Box!MailboxSafe
=============================================================================
