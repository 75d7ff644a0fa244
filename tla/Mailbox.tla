------------------------------ MODULE Mailbox ------------------------------
(***************************************************************************)
(* What a node promises for each message that it takes on: until it has    *)
(* passed the message on it holds it in memory or in its database, or it   *)
(* has a reason not to.  Nothing is said of connections, handlers or how   *)
(* often a message is passed on.                                           *)
(***************************************************************************)
CONSTANT Msg

VARIABLES
    place,    \* place[m]: "new", "moving" (in memory), "stored", "gone"
    passed,   \* messages passed on at least once
    excused   \* messages that the node gave up for a reason

mailboxVars == <<place, passed, excused>>

Places == [Msg -> {"new", "moving", "stored", "gone"}]

MailboxInit ==
    /\ place = [m \in Msg |-> "new"]
    /\ passed = {}
    /\ excused = {}

Move(m, from, to) ==
    /\ place[m] = from
    /\ place' = [place EXCEPT ![m] = to]

Take(m) == Move(m, "new", "moving") /\ UNCHANGED <<passed, excused>>

\* Passing on may be the last that memory knows of the message.
PassOn(m) ==
    /\ \/ place[m] \in {"moving", "stored"} /\ UNCHANGED place
       \/ Move(m, "moving", "gone")
    /\ passed' = passed \cup {m}
    /\ UNCHANGED excused

Store(m) == Move(m, "moving", "stored") /\ UNCHANGED <<passed, excused>>

Finish(m) == m \in passed /\ Move(m, "moving", "gone") /\ UNCHANGED <<passed, excused>>

\* No recipient is known or can be reached, or the embedder's callback raised
\* and with it the handler ended: of the other messages that it had, those that
\* nothing else holds were passed on or given up before.
GiveUp(m) ==
    /\ place[m] \in {"moving", "stored"}
    /\ excused' = excused \cup {m}
    /\ place' \in Places
    /\ \A x \in Msg :
         \/ place'[x] = place[x]
         \/ place[x] = "moving" /\ place'[x] = "gone" /\ x \in passed \cup excused'
    /\ UNCHANGED passed

\* What is stored is cleared only once passed on.  Another handler may still
\* have the message in memory.
Clear(m) ==
    /\ m \in passed
    /\ Move(m, "stored", "gone") \/ Move(m, "stored", "moving")
    /\ UNCHANGED <<passed, excused>>

\* Stored messages grow too old, some at a time.
Expire ==
    /\ UNCHANGED passed
    /\ place' \in Places
    /\ \A m \in Msg :
         \/ place'[m] = place[m] /\ (m \in excused' <=> m \in excused)
         \/ place[m] = "stored" /\ place'[m] \in {"gone", "moving"} /\ m \in excused'

\* Memory is lost, the database is not.
LoseMemory ==
    /\ UNCHANGED passed
    /\ place' \in Places
    /\ \A m \in Msg :
         /\ place'[m] = IF place[m] = "moving" THEN "gone" ELSE place[m]
         /\ m \in excused => m \in excused'
         /\ place[m] = "moving" => m \in passed \cup excused'

MailboxNext ==
    \/ \E m \in Msg :
         Take(m) \/ PassOn(m) \/ Store(m) \/ Finish(m) \/ GiveUp(m) \/ Clear(m)
    \/ Expire
    \/ LoseMemory

MailboxSafe == MailboxInit /\ [][MailboxNext]_mailboxVars

\* What the steps add up to: a message that is nowhere any more was passed on or
\* given up for a reason.
Promise == \A m \in Msg : place[m] = "gone" => m \in passed \cup excused
=============================================================================
