--------------------------- MODULE MessageBuffer ---------------------------
(***************************************************************************)
(* message_buffer, presence_table and cells of node/storage.py.  The       *)
(* buffer maps a message id to the ticks left until expires_at, so that    *)
(* time has no bound; a row with none left is expired but there until it   *)
(* is deleted.                                                             *)
(***************************************************************************)
EXTENDS Naturals, Tables

CONSTANT TtlMessage   \* TTL_MESSAGE_SECS, in ticks

ASSUME TtlMessageAssumption == TtlMessage \in Nat \ {0}

\* Mutant of buffer_message: expires_at is one tick late.
buffer_message_late(buf, m) ==
    IF m \in DOMAIN buf THEN buf ELSE Put(buf, m, TtlMessage + 1)

\* INSERT OR IGNORE: a row that exists keeps its expiry.
buffer_message(buf, m) ==
    IF m \in DOMAIN buf THEN buf ELSE Put(buf, m, TtlMessage)

\* The rows of cell c that are not expired; the query names no order.
get_buffered(buf, dest, c) ==
    {m \in DOMAIN buf : dest[m] = c /\ buf[m] > 0}

delete_buffered(buf, m) == Drop(buf, m)

ExpiredMessages(buf) == {m \in DOMAIN buf : buf[m] = 0}

cleanup_expired_messages(buf) == DropAll(buf, ExpiredMessages(buf))

\* One tick of the wall clock, seen by every row.
AgeMessages(buf) ==
    [m \in DOMAIN buf |-> IF buf[m] > 0 THEN buf[m] - 1 ELSE 0]

\* update_presence
update_presence(pres, c, homeNode, visitingNode) ==
    Put(pres, c, [home |-> homeNode, visiting |-> visitingNode])

\* The row of a cell, or none.
get_presence(pres, c, none) == IF c \in DOMAIN pres THEN pres[c] ELSE none

\* Whether the cells table has a row for the cell.
get_cell(rows, c) == c \in rows
=============================================================================
