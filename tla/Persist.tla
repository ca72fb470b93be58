------------------------------ MODULE Persist ------------------------------
(***************************************************************************)
(* How a message sent by a client reaches the messages table: Logic's      *)
(* SendMessage and SendGroupMessage append it to a Kafka partition         *)
(* (internal/logic/chatserver.go), and the persistence consumer group of   *)
(* the Task layer inserts it (internal/task/consumer.go, cmd/task).        *)
(*                                                                         *)
(* Partitions share no state, and the single-chat and the group tables are *)
(* written the same way, so one partition and one table stand for all.  An *)
(* offset is a position of the log, the first being 1.                     *)
(*                                                                         *)
(* The consumer group is sarama's: a session starts at the group's         *)
(* committed offset, or behind the newest record when there is none        *)
(* (OffsetNewest); MarkMessage only notes an offset, which is committed    *)
(* from time to time and when the session is released; the broker refuses  *)
(* commits of a session it has replaced.                                   *)
(***************************************************************************)
EXTENDS Naturals, Sequences

CONSTANTS
  Calls,        \* SendMessage handlers
  Ids,          \* message ids (nextMessageID)
  Keys,         \* sender, receiver and client_msg_id: the client's name of a message
  Members,      \* Task processes
  None,
  MaxLog,       \* bound on the log
  MaxFaults     \* bound on ended sessions

ASSUME PersistAssumption ==
  /\ None \notin Ids \cup Keys \cup Members
  /\ MaxLog \in Nat /\ MaxFaults \in Nat

VARIABLES
  log,        \* the partition
  drawn,      \* ids given out
  send,       \* the SendMessage calls
  acked,      \* history: the records whose client was told "sent"
  rows,       \* the messages table
  committed,  \* the group's offset: the next record to consume; 0: none
  floor,      \* history: where the group last started without an offset
  holder,     \* the member whose session the broker recognises
  at, pos,    \* each session: ConsumeClaim's stage and the record it works on
  mark,       \* the offset noted by MarkMessage; 0: none
  stop,       \* session.Context() is done
  faults

producer == <<drawn, send, acked>>
vars == <<log, producer, rows, committed, floor, holder, at, pos, mark, stop, faults>>

Record == [id : Ids, key : Keys]

\* A record that does not unmarshal.
Garbage == [id |-> None, key |-> None]

Idle == [at |-> "idle", rec |-> Garbage, wrote |-> FALSE]

TypeOK ==
  /\ log \in Seq(Record \cup {Garbage})
  /\ drawn \subseteq Ids
  /\ send \in [Calls -> {Idle} \cup [at : {"sending"}, rec : Record, wrote : BOOLEAN]]
  /\ acked \subseteq Record
  /\ rows \subseteq Record
  /\ committed \in Nat
  /\ floor \in Nat \ {0}
  /\ holder \in Members \cup {None}
  /\ at \in [Members -> {"out", "polling", "insert", "wait", "marking", "stopping"}]
  /\ pos \in [Members -> Nat \ {0}]
  /\ mark \in [Members -> Nat]
  /\ stop \in [Members -> BOOLEAN]
  /\ faults \in Nat

Init ==
  /\ log = <<>>
  /\ drawn = {}
  /\ send = [k \in Calls |-> Idle]
  /\ acked = {}
  /\ rows = {}
  /\ committed \in {0, 1}   \* a new group, or one that has committed
  /\ floor = 1
  /\ holder = None
  /\ at = [m \in Members |-> "out"]
  /\ pos = [m \in Members |-> 1]
  /\ mark = [m \in Members |-> 0]
  /\ stop = [m \in Members |-> FALSE]
  /\ faults = 0

\* The unique keys uk_msg_id and uk_from_client_msg: a row that an insert of
\* the record would collide with.
Conflict(r) == \E row \in rows : row.id = r.id \/ row.key = r.key

\* The record is in the table, if it can be: itself, or the row of the same
\* client message that came first.
Stored(r) == r = Garbage \/ \E row \in rows : row.key = r.key

Move(m, from, to) == at[m] = from /\ at' = [at EXCEPT ![m] = to]

-----------------------------------------------------------------------------
(***************************************************************************)
(* SendMessage.                                                            *)
(***************************************************************************)

\* The request is valid; the message gets an id.  A client that was told of a
\* failure may send the same key again.
SendBegin(k, id, key) ==
  /\ send[k] = Idle
  /\ id \notin drawn
  /\ drawn' = drawn \cup {id}
  /\ send' = [send EXCEPT ![k] = [at |-> "sending", rec |-> [id |-> id, key |-> key], wrote |-> FALSE]]
  /\ UNCHANGED <<log, acked, rows, committed, floor, holder, at, pos, mark, stop, faults>>

\* The broker appends the record.  When its answer is lost the producer sends
\* the record again.
SendAppend(k) ==
  /\ send[k].at = "sending"
  /\ Len(log) < MaxLog
  /\ log' = Append(log, send[k].rec)
  /\ send' = [send EXCEPT ![k].wrote = TRUE]
  /\ UNCHANGED <<drawn, acked, rows, committed, floor, holder, at, pos, mark, stop, faults>>

\* All replicas have the record: the client is told.
SendOk(k) ==
  /\ send[k].at = "sending"
  /\ send[k].wrote
  /\ acked' = acked \cup {send[k].rec}
  /\ send' = [send EXCEPT ![k] = Idle]
  /\ UNCHANGED <<log, drawn, rows, committed, floor, holder, at, pos, mark, stop, faults>>

\* The producer gives up, whether or not the broker has the record.
SendFails(k) ==
  /\ send[k].at = "sending"
  /\ send' = [send EXCEPT ![k] = Idle]
  /\ UNCHANGED <<log, drawn, acked, rows, committed, floor, holder, at, pos, mark, stop, faults>>

\* Somebody else wrote a record that is no message.
Foreign ==
  /\ Len(log) < MaxLog
  /\ log' = Append(log, Garbage)
  /\ UNCHANGED <<producer, rows, committed, floor, holder, at, pos, mark, stop, faults>>

-----------------------------------------------------------------------------
(***************************************************************************)
(* PersistConsumer.ConsumeClaim.                                           *)
(***************************************************************************)

\* Mutant of Start: the session starts at the oldest record.
StartOldest(m) ==
  /\ Move(m, "out", "polling")
  /\ holder = None
  /\ holder' = m
  /\ pos' = [pos EXCEPT ![m] = 1]
  /\ mark' = [mark EXCEPT ![m] = 0]
  /\ stop' = [stop EXCEPT ![m] = FALSE]
  /\ UNCHANGED <<log, producer, rows, committed, floor, faults>>

\* consumeLoop's Consume: the partition is assigned to a new session.
Start(m) ==
  /\ Move(m, "out", "polling")
  /\ holder = None
  /\ holder' = m
  /\ pos' = [pos EXCEPT ![m] = IF committed = 0 THEN Len(log) + 1 ELSE committed]
  /\ floor' = IF committed = 0 THEN Len(log) + 1 ELSE floor
  /\ mark' = [mark EXCEPT ![m] = 0]
  /\ stop' = [stop EXCEPT ![m] = FALSE]
  /\ UNCHANGED <<log, producer, rows, committed, faults>>

\* The next record arrives.  (The select may prefer it to a done context.)
Take(m) ==
  /\ Move(m, "polling", "insert")
  /\ pos[m] <= Len(log)
  /\ UNCHANGED <<log, producer, rows, committed, floor, holder, pos, mark, stop, faults>>

\* A record that does not unmarshal is passed over.
SkipBad(m) ==
  /\ Move(m, "insert", "marking")
  /\ log[pos[m]] = Garbage
  /\ UNCHANGED <<log, producer, rows, committed, floor, holder, pos, mark, stop, faults>>

\* INSERT ... ON CONFLICT DO NOTHING.
Insert(r) == rows' = IF Conflict(r) THEN rows ELSE rows \cup {r}

\* Mutant of InsertOk: without the conflict clause a duplicate is an error.
InsertOkStrict(m) ==
  /\ Move(m, "insert", "marking")
  /\ log[pos[m]] # Garbage
  /\ ~Conflict(log[pos[m]])
  /\ Insert(log[pos[m]])
  /\ UNCHANGED <<log, producer, committed, floor, holder, pos, mark, stop, faults>>

\* persistMessage succeeds.
InsertOk(m) ==
  /\ Move(m, "insert", "marking")
  /\ log[pos[m]] # Garbage
  /\ Insert(log[pos[m]])
  /\ UNCHANGED <<log, producer, committed, floor, holder, pos, mark, stop, faults>>

\* It returns an error: MySQL is down, or the two seconds are over although
\* the row was written.
InsertFails(m) ==
  /\ Move(m, "insert", "wait")
  /\ log[pos[m]] # Garbage
  /\ Insert(log[pos[m]]) \/ UNCHANGED rows
  /\ UNCHANGED <<log, producer, committed, floor, holder, pos, mark, stop, faults>>

\* Mutant of Retry: a failed insert is given up after the pause.
RetryGivesUp(m) ==
  /\ Move(m, "wait", "marking")
  /\ UNCHANGED <<log, producer, rows, committed, floor, holder, pos, mark, stop, faults>>

\* The one-second pause is over.
Retry(m) ==
  /\ Move(m, "wait", "insert")
  /\ UNCHANGED <<log, producer, rows, committed, floor, holder, pos, mark, stop, faults>>

\* MarkMessage.
Mark(m) ==
  /\ Move(m, "marking", "polling")
  /\ pos' = [pos EXCEPT ![m] = @ + 1]
  /\ mark' = [mark EXCEPT ![m] = pos[m] + 1]
  /\ UNCHANGED <<log, producer, rows, committed, floor, holder, stop, faults>>

\* The context is done: ConsumeClaim returns, without marking what it works on.
Quit(m) ==
  /\ at[m] \in {"polling", "wait"}
  /\ stop[m]
  /\ at' = [at EXCEPT ![m] = "stopping"]
  /\ UNCHANGED <<log, producer, rows, committed, floor, holder, pos, mark, stop, faults>>

-----------------------------------------------------------------------------
(***************************************************************************)
(* The consumer group: sarama and the broker.                              *)
(***************************************************************************)

\* The offset of the session's last mark is committed.
Commit(m) ==
  /\ at[m] # "out"
  /\ holder = m
  /\ mark[m] # 0
  /\ committed' = mark[m]
  /\ UNCHANGED <<log, producer, rows, floor, holder, at, pos, mark, stop, faults>>

\* The session is released, with a last commit if the broker takes it.
Release(m) ==
  /\ Move(m, "stopping", "out")
  /\ holder' = IF holder = m THEN None ELSE holder
  /\ \/ holder = m /\ mark[m] # 0 /\ committed' = mark[m]
     \/ UNCHANGED committed
  /\ UNCHANGED <<log, producer, rows, floor, pos, mark, stop, faults>>

\* A rebalance, or the end of the process, ends the session's context.
Cancel(m) ==
  /\ at[m] # "out" /\ ~stop[m]
  /\ faults < MaxFaults
  /\ faults' = faults + 1
  /\ stop' = [stop EXCEPT ![m] = TRUE]
  /\ UNCHANGED <<log, producer, rows, committed, floor, holder, at, pos, mark>>

\* The broker gives up a session that is late with its heartbeats, or slow to
\* rejoin; the session itself goes on.
Evict(m) ==
  /\ holder = m
  /\ faults < MaxFaults
  /\ faults' = faults + 1
  /\ holder' = None
  /\ UNCHANGED <<log, producer, rows, committed, floor, at, pos, mark, stop>>

\* A session learns from its heartbeat that it has been replaced.
Notice(m) ==
  /\ at[m] # "out" /\ ~stop[m]
  /\ holder # m
  /\ stop' = [stop EXCEPT ![m] = TRUE]
  /\ UNCHANGED <<log, producer, rows, committed, floor, holder, at, pos, mark, faults>>

\* The process dies; what it had marked but not committed is forgotten.
Crash(m) ==
  /\ at[m] # "out"
  /\ faults < MaxFaults
  /\ faults' = faults + 1
  /\ at' = [at EXCEPT ![m] = "out"]
  /\ holder' = IF holder = m THEN None ELSE holder
  /\ UNCHANGED <<log, producer, rows, committed, floor, pos, mark, stop>>

\* The steps of a session that need nobody else.
Work(m) ==
  \/ Start(m)
  \/ Take(m)
  \/ SkipBad(m)
  \/ Retry(m)
  \/ Mark(m)
  \/ Quit(m)
  \/ Release(m)
  \/ Notice(m)

Next ==
  \/ \E k \in Calls :
       \/ \E id \in Ids, key \in Keys : SendBegin(k, id, key)
       \/ SendAppend(k)
       \/ SendOk(k)
       \/ SendFails(k)
  \/ Foreign
  \/ \E m \in Members :
       \/ Work(m)
       \/ InsertOk(m)
       \/ InsertFails(m)
       \/ Commit(m)
       \/ Cancel(m)
       \/ Evict(m)
       \/ Crash(m)

Spec == Init /\ [][Next]_vars

(***************************************************************************)
(* A session that can go on does, a replaced one hears of it, and MySQL    *)
(* does not refuse the same insert for ever.  Nothing is assumed of the    *)
(* clients, of the producer, of Commit or of the faults.                   *)
(***************************************************************************)
Fairness ==
  \A m \in Members :
    /\ WF_vars(Work(m))
    /\ SF_vars(InsertOk(m))

FairSpec == Spec /\ Fairness

-----------------------------------------------------------------------------
(***************************************************************************)
(* Properties.                                                             *)
(***************************************************************************)

\* A committed offset is a promise that everything before it, from where the
\* group first found no offset and started behind the newest record, is in the
\* table (ConsumeClaim marks a record only after its insert succeeded).
\* Sessions that overlap, time out, crash or repeat records do not break it:
\* what a group skips (OffsetNewest) it skips before its first commit.
CommittedStored ==
  \A i \in 1 .. Len(log) : floor <= i /\ i < committed => Stored(log[i])

\* The group's offset never goes back: a replaced session that is still
\* working cannot rewind the group, and a new one starts where the last commit
\* left off.
CommitAdvances == [][committed' >= committed]_vars

\* Once the group has an offset, a message whose sender was told "sent" is
\* stored in the end, unless it was skipped before: records repeat, inserts
\* fail and sessions come and go, and a duplicate does not hold up what is
\* behind it.
AckedStored ==
  \A key \in Keys :
    (/\ committed # 0
     /\ \E r \in acked, i \in floor .. Len(log) : r.key = key /\ log[i] = r)
    ~> (\E row \in rows : row.key = key)

-----------------------------------------------------------------------------
(***************************************************************************)
(* The refinement: the group's offset is the store's, its base is where    *)
(* the group started, and the producers, the sessions, their positions and *)
(* their marks are not visible.                                            *)
(***************************************************************************)
MS == INSTANCE MessageStore WITH Records <- Record, offset <- committed, base <- floor

\* A message that is written, delivered and inserted at least once is stored
\* once; a sender is told "sent" only of what the log has; and the offset
\* passes nothing that is not stored, except what a group without an offset
\* starts behind (SendMessage, ConsumeClaim, persistMessage, OffsetNewest).
ImplementsMessageStore == MS!Spec

=============================================================================
