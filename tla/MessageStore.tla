---------------------------- MODULE MessageStore ----------------------------
(***************************************************************************)
(* What the path from SendMessage to the messages table promises, without  *)
(* producers, sessions or retries: a log that only grows, a table into     *)
(* which every client message of the log goes once, a sender who is told   *)
(* "sent" of what is in the log, and an offset that passes a record when   *)
(* it is in the table.  Only while there is no offset may records be left  *)
(* behind.  Module Persist implements this with records that are written,  *)
(* delivered and inserted any number of times.                             *)
(***************************************************************************)
EXTENDS Naturals, Sequences

CONSTANTS Records, Garbage

VARIABLES
  log,      \* the partition
  rows,     \* the messages table
  offset,   \* the next record to consume; 0: none yet
  base,     \* the first record the offset answers for
  acked     \* the records whose sender was told "sent"

vars == <<log, rows, offset, base, acked>>

Init == log = <<>> /\ rows = {} /\ offset \in {0, 1} /\ base = 1 /\ acked = {}

Write(r) == log' = Append(log, r) /\ UNCHANGED <<rows, offset, base, acked>>

Ack(i) == acked' = acked \cup {log[i]} /\ UNCHANGED <<log, rows, offset, base>>

\* A message enters the table if it is not there yet, under its id or under
\* the client's name for it.
Store(i) ==
  /\ log[i] # Garbage
  /\ \A row \in rows : row.id # log[i].id /\ row.key # log[i].key
  /\ rows' = rows \cup {log[i]}
  /\ UNCHANGED <<log, offset, base, acked>>

\* Who finds no offset starts behind the log.
Skip ==
  /\ offset = 0
  /\ base' = Len(log) + 1
  /\ UNCHANGED <<log, rows, offset, acked>>

\* The offset passes records that are in the table or cannot be.
Advance(n) ==
  /\ n > offset /\ n >= base
  /\ \A i \in base .. n - 1 : log[i] = Garbage \/ \E row \in rows : row.key = log[i].key
  /\ offset' = n
  /\ UNCHANGED <<log, rows, base, acked>>

Next ==
  \/ \E r \in Records \cup {Garbage} : Write(r)
  \/ \E i \in 1 .. Len(log) : Ack(i) \/ Store(i)
  \/ Skip
  \/ \E n \in 1 .. Len(log) + 1 : Advance(n)

Spec == Init /\ [][Next]_vars

=============================================================================
