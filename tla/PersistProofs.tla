--------------------------- MODULE PersistProofs ---------------------------
(***************************************************************************)
(* Persist, for any number of clients, messages and Task processes: a      *)
(* committed offset has everything before it in the table, it never goes   *)
(* back, and the whole is a MessageStore.                                  *)
(*                                                                         *)
(* The argument has two halves.  OneKey: records of the same id are the    *)
(* same record, so an insert that DO NOTHING skips because of uk_msg_id    *)
(* was not needed.  Places and Behind: everything from the group's floor   *)
(* to a session's own position is stored, the position of the session that *)
(* may commit is not behind the group's offset, and the floor moves only   *)
(* while there is no offset.                                               *)
(***************************************************************************)
EXTENDS Persist, SequenceTheorems, TLAPS

\* The record is somewhere between the producer and the table.
Known(r) ==
  \/ \E k \in Calls : send[k].at = "sending" /\ send[k].rec = r
  \/ \E i \in 1 .. Len(log) : log[i] = r
  \/ r \in rows

\* Records that are under way have an id of their own.
OneKey ==
  \A r \in Record : Known(r) =>
    /\ r.id \in drawn
    /\ \A s \in Record : Known(s) /\ s.id = r.id => s = r

\* Where a session is: at a record that exists while it works on one, its mark
\* is its position, and the recognised session is not behind the group.
Places ==
  /\ committed <= Len(log) + 1
  /\ committed # 0 => floor <= committed
  /\ \A m \in Members : at[m] # "out" =>
       /\ pos[m] <= Len(log) + 1
       /\ mark[m] = 0 \/ mark[m] = pos[m]
       /\ at[m] \in {"insert", "wait", "marking"} => pos[m] <= Len(log)
  /\ holder # None => at[holder] # "out" /\ pos[holder] >= committed /\ pos[holder] >= floor

\* Everything from the floor to a session's position is stored, and so is the
\* record it is about to mark.
Behind ==
  \A m \in Members : at[m] # "out" =>
       /\ \A i \in 1 .. Len(log) : floor <= i /\ i < pos[m] => Stored(log[i])
       /\ at[m] = "marking" => Stored(log[pos[m]])

IInv == TypeOK /\ OneKey /\ Places /\ Behind /\ CommittedStored

\* Every action is one of these.
LEMMA NextCases ==
  ASSUME Next
  PROVE  \/ \E k \in Calls, id \in Ids, key \in Keys : SendBegin(k, id, key)
         \/ \E k \in Calls : SendAppend(k) \/ SendOk(k) \/ SendFails(k)
         \/ Foreign
         \/ \E m \in Members :
              \/ Start(m) \/ Take(m) \/ SkipBad(m) \/ Retry(m) \/ Mark(m) \/ Quit(m)
              \/ InsertOk(m) \/ InsertFails(m)
              \/ Commit(m) \/ Release(m) \/ Cancel(m) \/ Evict(m) \/ Notice(m) \/ Crash(m)
  BY DEF Next, Work

\* The log only grows.
LEMMA LogGrows ==
  ASSUME TypeOK, NEW r \in Record \cup {Garbage}, log' = Append(log, r)
  PROVE  /\ log' \in Seq(Record \cup {Garbage})
         /\ Len(log') = Len(log) + 1
         /\ \A i \in 1 .. Len(log) : log'[i] = log[i]
         /\ log'[Len(log) + 1] = r
  BY AppendProperties DEF TypeOK

\* What an insert does to the table.
LEMMA InsertEffect ==
  ASSUME TypeOK, OneKey, NEW r \in Record, Known(r), Insert(r)
  PROVE  /\ rows \subseteq rows'
         /\ rows' \subseteq rows \cup {r}
         /\ \E row \in rows' : row.key = r.key
<1>1. CASE Conflict(r)
  <2>1. PICK row \in rows : row.id = r.id \/ row.key = r.key
    BY <1>1 DEF Conflict
  <2>2. row \in Record /\ Known(row)
    BY <2>1 DEF TypeOK, Known
  <2>3. row.key = r.key
    BY <2>1, <2>2 DEF OneKey
  <2> QED
    BY <1>1, <2>3 DEF Insert
<1>2. CASE ~Conflict(r)
  BY <1>2 DEF Insert
<1> QED
  BY <1>1, <1>2

-----------------------------------------------------------------------------
(***************************************************************************)
(* Type correctness.                                                       *)
(***************************************************************************)

\* The initial state satisfies the inductive invariant.
LEMMA InitIInv == Init => IInv
<1> SUFFICES ASSUME Init PROVE IInv
  OBVIOUS
<1>1. TypeOK
  BY PersistAssumption DEF Init, TypeOK, Idle
<1>2. OneKey
  BY DEF Init, OneKey, Known, Idle
<1>3. Places
  BY PersistAssumption DEF Init, Places
<1>4. Behind /\ CommittedStored
  BY DEF Init, Behind, CommittedStored
<1> QED
  BY <1>1, <1>2, <1>3, <1>4 DEF IInv

\* A producer's step preserves the types.
LEMMA SendType ==
  ASSUME TypeOK, NEW k \in Calls, SendAppend(k) \/ SendOk(k) \/ SendFails(k)
  PROVE  TypeOK'
<1>1. send[k].at = "sending"
  BY DEF SendAppend, SendOk, SendFails
<1>2. send[k] \in [at : {"sending"}, rec : Record, wrote : BOOLEAN]
  BY <1>1 DEF TypeOK, Idle
<1>3. CASE SendAppend(k)
  <2>1. log' \in Seq(Record \cup {Garbage})
    BY <1>2, <1>3, LogGrows DEF SendAppend
  <2>2. send' \in [Calls -> {Idle} \cup [at : {"sending"}, rec : Record, wrote : BOOLEAN]]
    BY <1>2, <1>3 DEF TypeOK, SendAppend
  <2> QED
    BY <1>3, <2>1, <2>2 DEF TypeOK, SendAppend
<1>4. CASE SendOk(k)
  BY <1>2, <1>4 DEF TypeOK, SendOk
<1>5. CASE SendFails(k)
  BY <1>2, <1>5 DEF TypeOK, SendFails
<1> QED
  BY <1>3, <1>4, <1>5

\* An insert preserves the types.
LEMMA InsertType ==
  ASSUME TypeOK, Places, NEW m \in Members, InsertOk(m) \/ InsertFails(m)
  PROVE  /\ TypeOK'
         /\ pos[m] \in 1 .. Len(log)
         /\ log[pos[m]] \in Record
         /\ rows' = rows \/ Insert(log[pos[m]])
<1>1. pos[m] \in 1 .. Len(log)
  BY DEF TypeOK, Places, InsertOk, InsertFails, Move
<1>2. log[pos[m]] \in Record
  BY <1>1 DEF TypeOK, InsertOk, InsertFails
<1>3. rows' = rows \/ Insert(log[pos[m]])
  BY DEF InsertOk, InsertFails
<1>4. rows' \subseteq Record
  BY <1>2, <1>3 DEF TypeOK, Insert
<1>5. at' \in [Members -> {"out", "polling", "insert", "wait", "marking", "stopping"}]
  BY DEF TypeOK, InsertOk, InsertFails, Move
<1>6. UNCHANGED <<log, producer, committed, floor, holder, pos, mark, stop, faults>>
  BY DEF InsertOk, InsertFails
<1>7. TypeOK'
  BY <1>4, <1>5, <1>6 DEF TypeOK, producer
<1> QED
  BY <1>1, <1>2, <1>3, <1>7

\* The steps of a session that do not touch the log or the table.
SessionStep(m) ==
  \/ Start(m) \/ Take(m) \/ SkipBad(m) \/ Retry(m) \/ Mark(m) \/ Quit(m)
  \/ Commit(m) \/ Release(m) \/ Cancel(m) \/ Evict(m) \/ Notice(m) \/ Crash(m)

\* A session's step preserves the types and leaves the messages alone.
LEMMA SessionType ==
  ASSUME TypeOK, NEW m \in Members, SessionStep(m)
  PROVE  TypeOK' /\ UNCHANGED <<log, producer, rows>>
<1>1. CASE Start(m)
  BY <1>1 DEF TypeOK, Start, Move, producer
<1>2. CASE Take(m) \/ SkipBad(m) \/ Retry(m) \/ Quit(m)
  BY <1>2 DEF TypeOK, Take, SkipBad, Retry, Quit, Move, producer
<1>3. CASE Mark(m)
  BY <1>3 DEF TypeOK, Mark, Move, producer
<1>4. CASE Commit(m)
  BY <1>4 DEF TypeOK, Commit, producer
<1>5. CASE Release(m)
  <2>1. holder' \in Members \cup {None} /\ committed' \in Nat
    BY <1>5 DEF TypeOK, Release
  <2> QED
    BY <1>5, <2>1 DEF TypeOK, Release, Move, producer
<1>6. CASE Cancel(m) \/ Notice(m)
  <2>1. stop' \in [Members -> BOOLEAN]
    BY <1>6 DEF TypeOK, Cancel, Notice
  <2>2. faults' \in Nat
    BY <1>6 DEF TypeOK, Cancel, Notice
  <2> QED
    BY <1>6, <2>1, <2>2 DEF TypeOK, Cancel, Notice, producer
<1>7. CASE Evict(m)
  BY <1>7 DEF TypeOK, Evict, producer
<1>8. CASE Crash(m)
  <2>1. holder' \in Members \cup {None} /\ faults' \in Nat
    BY <1>8 DEF TypeOK, Crash
  <2> QED
    BY <1>8, <2>1 DEF TypeOK, Crash, producer
<1> QED
  BY <1>1, <1>2, <1>3, <1>4, <1>5, <1>6, <1>7, <1>8 DEF SessionStep

-----------------------------------------------------------------------------
(***************************************************************************)
(* The producer's steps and the inserts keep the inductive invariant.      *)
(***************************************************************************)

\* A new message has an id nobody has.
LEMMA SendBeginIInv ==
  ASSUME IInv, NEW k \in Calls, NEW id \in Ids, NEW key \in Keys, SendBegin(k, id, key)
  PROVE  IInv'
<1> DEFINE new == [id |-> id, key |-> key]
<1>1. TypeOK'
  BY DEF IInv, TypeOK, SendBegin, Record
<1>2. UNCHANGED <<log, rows, committed, floor, holder, at, pos, mark>>
  BY DEF SendBegin
<1>3. OneKey'
  <2>1. \A r \in Record : Known(r)' => Known(r) \/ r = new
    BY <1>2 DEF Known, SendBegin, IInv, TypeOK
  <2>2. \A r \in Record : Known(r) => r.id # id
    BY DEF SendBegin, IInv, OneKey
  <2>3. new.id = id /\ id \in drawn' /\ drawn \subseteq drawn'
    BY DEF SendBegin
  <2> QED
    BY <2>1, <2>2, <2>3 DEF IInv, OneKey
<1>4. Places'
  BY <1>2 DEF IInv, Places
<1>5. Behind' /\ CommittedStored'
  BY <1>2 DEF IInv, Behind, CommittedStored, Stored
<1> QED
  BY <1>1, <1>3, <1>4, <1>5 DEF IInv

\* A longer log.
LEMMA AppendIInv ==
  ASSUME IInv, TypeOK', NEW r \in Record \cup {Garbage}, log' = Append(log, r),
         r \in Record => Known(r), \A s \in Record : Known(s)' => Known(s) \/ s = r,
         UNCHANGED <<drawn, rows, committed, floor, holder, at, pos, mark>>
  PROVE  IInv'
<1>1. /\ Len(log') = Len(log) + 1 /\ Len(log) \in Nat
      /\ \A i \in 1 .. Len(log) : log'[i] = log[i]
  BY LogGrows DEF IInv, TypeOK
<1>2. OneKey'
  BY DEF IInv, OneKey
<1>3. Places'
  BY <1>1 DEF IInv, TypeOK, Places
<1>4. Behind' /\ CommittedStored'
  <2>1. Behind /\ CommittedStored /\ Places /\ TypeOK
    BY DEF IInv
  <2>2. CommittedStored'
    BY <1>1, <2>1 DEF CommittedStored, Places, TypeOK, Stored
  <2>3. ASSUME NEW m \in Members, at[m] # "out"
        PROVE  /\ (\A i \in 1 .. Len(log) : floor <= i /\ i < pos[m] => Stored(log[i]))'
               /\ (at[m] = "marking" => Stored(log[pos[m]]))'
    <3>1. pos[m] \in Nat \ {0} /\ pos[m] <= Len(log) + 1
      BY <2>1, <2>3 DEF Places, TypeOK
    <3>2. (\A i \in 1 .. Len(log) : floor <= i /\ i < pos[m] => Stored(log[i]))'
      BY <1>1, <2>1, <2>3, <3>1 DEF Behind, Stored
    <3>3. (at[m] = "marking" => Stored(log[pos[m]]))'
      BY <1>1, <2>1, <2>3, <3>1 DEF Behind, Places, Stored
    <3> QED
      BY <3>2, <3>3
  <2> QED
    BY <2>1, <2>2, <2>3 DEF Behind
<1> QED
  BY <1>2, <1>3, <1>4 DEF IInv

\* The steps of a producer that has an id.
LEMMA SendIInv ==
  ASSUME IInv, NEW k \in Calls, SendAppend(k) \/ SendOk(k) \/ SendFails(k)
  PROVE  IInv'
<1>1. TypeOK'
  BY SendType DEF IInv
<1>2. send[k].at = "sending"
  BY DEF SendAppend, SendOk, SendFails
<1>3. send[k].rec \in Record /\ Known(send[k].rec)
  BY <1>2 DEF IInv, TypeOK, Idle, Known
<1>4. CASE SendAppend(k)
  <2>1. \A j \in Calls : send'[j].rec = send[j].rec /\ send'[j].at = send[j].at
    BY <1>4 DEF SendAppend, IInv, TypeOK, Idle
  <2>2. /\ Len(log') = Len(log) + 1 /\ Len(log) \in Nat
        /\ \A i \in 1 .. Len(log) : log'[i] = log[i]
        /\ log'[Len(log) + 1] = send[k].rec
    BY <1>3, <1>4, LogGrows DEF SendAppend, IInv, TypeOK
  <2>3. rows' = rows
    BY <1>4 DEF SendAppend
  <2>4. \A s \in Record : Known(s)' => Known(s) \/ s = send[k].rec
    BY <2>1, <2>2, <2>3 DEF Known
  <2> QED
    BY <1>1, <1>3, <1>4, <2>4, AppendIInv DEF SendAppend
<1>5. CASE SendOk(k) \/ SendFails(k)
  <2>1. UNCHANGED <<log, drawn, rows, committed, floor, holder, at, pos, mark>> /\ send' = [send EXCEPT ![k] = Idle]
    BY <1>5 DEF SendOk, SendFails
  <2>2. \A s \in Record : Known(s)' => Known(s)
    BY <2>1 DEF Known, IInv, TypeOK, Idle
  <2>3. OneKey'
    BY <2>1, <2>2 DEF IInv, OneKey
  <2>4. Places' /\ Behind' /\ CommittedStored'
    BY <2>1 DEF IInv, Places, Behind, CommittedStored, Stored
  <2> QED
    BY <1>1, <2>3, <2>4 DEF IInv
<1> QED
  BY <1>4, <1>5

\* A foreign record.
LEMMA ForeignIInv ==
  ASSUME IInv, Foreign
  PROVE  IInv'
<1>1. /\ Len(log') = Len(log) + 1 /\ Len(log) \in Nat
      /\ \A i \in 1 .. Len(log) : log'[i] = log[i]
      /\ log'[Len(log) + 1] = Garbage
      /\ log' \in Seq(Record \cup {Garbage})
  BY LogGrows DEF Foreign, IInv, TypeOK
<1>2. UNCHANGED <<drawn, send, rows, committed, floor, holder, at, pos, mark>>
  BY DEF Foreign, producer
<1>3. TypeOK'
  BY <1>1 DEF Foreign, producer, IInv, TypeOK
<1>4. \A s \in Record : Known(s)' => Known(s) \/ s = Garbage
  BY <1>1, <1>2 DEF Known
<1>5. Garbage \notin Record
  BY PersistAssumption DEF Garbage, Record
<1> QED
  BY <1>2, <1>3, <1>4, <1>5, AppendIInv DEF Foreign

\* An insert, successful or not.
LEMMA InsertIInv ==
  ASSUME IInv, NEW m \in Members, InsertOk(m) \/ InsertFails(m)
  PROVE  IInv'
<1> DEFINE r == log[pos[m]]
<1>1. TypeOK' /\ pos[m] \in 1 .. Len(log) /\ r \in Record /\ (rows' = rows \/ Insert(r))
  BY InsertType DEF IInv
<1>2. /\ UNCHANGED <<log, drawn, send, committed, floor, holder, pos, mark>>
      /\ at[m] = "insert"
      /\ at' = [at EXCEPT ![m] = at'[m]] /\ at'[m] \in {"marking", "wait"}
  BY DEF InsertOk, InsertFails, Move, producer, IInv, TypeOK
<1>3. Known(r)
  BY <1>1 DEF Known
<1>4. rows \subseteq rows' /\ rows' \subseteq rows \cup {r}
  BY <1>1, <1>3, InsertEffect DEF IInv
<1>5. InsertOk(m) => \E row \in rows' : row.key = r.key
  BY <1>1, <1>3, InsertEffect DEF IInv, InsertOk
<1>6. OneKey'
  <2>1. \A s \in Record : Known(s)' => Known(s)
    BY <1>2, <1>3, <1>4 DEF Known
  <2> QED
    BY <1>2, <2>1 DEF IInv, OneKey
<1>7. Places'
  BY <1>1, <1>2 DEF IInv, Places, TypeOK
<1>8. Behind' /\ CommittedStored'
  <2>1. Behind /\ CommittedStored /\ TypeOK
    BY DEF IInv
  <2>2. CommittedStored'
    BY <1>2, <1>4, <2>1 DEF CommittedStored, Stored
  <2>3. at'[m] = "marking" => InsertOk(m)
    BY <2>1 DEF InsertOk, InsertFails, Move, TypeOK
  <2>4. ASSUME NEW n \in Members, at'[n] # "out"
        PROVE  /\ (\A i \in 1 .. Len(log) : floor <= i /\ i < pos[n] => Stored(log[i]))'
               /\ (at[n] = "marking" => Stored(log[pos[n]]))'
    <3>1. at[n] # "out" /\ (n # m => at'[n] = at[n])
      BY <1>2, <2>1, <2>4 DEF TypeOK
    <3>2. (\A i \in 1 .. Len(log) : floor <= i /\ i < pos[n] => Stored(log[i]))'
      BY <1>2, <1>4, <2>1, <3>1 DEF Behind, Stored
    <3>3. CASE n = m
      BY <1>2, <1>5, <2>3, <3>2, <3>3 DEF Stored
    <3>4. CASE n # m
      BY <1>2, <1>4, <2>1, <3>1, <3>2, <3>4 DEF Behind, Stored
    <3> QED
      BY <3>3, <3>4
  <2> QED
    BY <1>2, <2>1, <2>2, <2>4 DEF Behind
<1> QED
  BY <1>1, <1>6, <1>7, <1>8 DEF IInv

-----------------------------------------------------------------------------
(***************************************************************************)
(* The steps of the sessions.                                              *)
(***************************************************************************)

\* The floor moves only when a session starts without an offset, to the end of
\* the log.
LEMMA FloorMoves ==
  ASSUME NEW m \in Members, SessionStep(m), floor' # floor
  PROVE  Start(m) /\ committed = 0 /\ committed' = committed /\ floor' = Len(log) + 1
  BY DEF SessionStep, Start, Take, SkipBad, Retry, Mark, Quit, Commit, Release, Cancel, Notice,
         Evict, Crash

\* A session's step keeps Places.
LEMMA SessionPlaces ==
  ASSUME IInv, NEW m \in Members, SessionStep(m)
  PROVE  Places'
<1>1. log' = log /\ Len(log) \in Nat
  BY SessionType DEF IInv, TypeOK
<1> USE PersistAssumption DEF IInv, TypeOK, Places
<1>2. CASE Start(m)
  <2>1. /\ at' = [at EXCEPT ![m] = "polling"] /\ holder' = m /\ committed' = committed
        /\ mark' = [mark EXCEPT ![m] = 0]
        /\ pos' = [pos EXCEPT ![m] = IF committed = 0 THEN Len(log) + 1 ELSE committed]
        /\ floor' = IF committed = 0 THEN Len(log) + 1 ELSE floor
    BY <1>2 DEF Start, Move
  <2>2. pos'[m] <= Len(log) + 1 /\ pos'[m] >= committed /\ pos'[m] >= floor'
    BY <1>1, <2>1
  <2> QED
    BY <1>1, <2>1, <2>2
<1>3. CASE Take(m)
  BY <1>1, <1>3 DEF Take, Move
<1>4. CASE SkipBad(m) \/ Retry(m)
  <2>1. /\ at[m] \in {"insert", "wait"}
        /\ \/ at' = [at EXCEPT ![m] = "marking"]
           \/ at' = [at EXCEPT ![m] = "insert"]
        /\ UNCHANGED <<committed, floor, holder, pos, mark>>
    BY <1>4 DEF SkipBad, Retry, Move
  <2> QED
    BY <1>1, <2>1
<1>5. CASE Mark(m)
  <2>1. /\ at[m] = "marking" /\ at' = [at EXCEPT ![m] = "polling"] /\ UNCHANGED <<holder, committed, floor>>
        /\ pos' = [pos EXCEPT ![m] = pos[m] + 1] /\ mark' = [mark EXCEPT ![m] = pos[m] + 1]
    BY <1>5 DEF Mark, Move
  <2>2. pos'[m] = pos[m] + 1 /\ mark'[m] = pos[m] + 1 /\ pos[m] <= Len(log)
    BY <2>1
  <2> QED
    BY <1>1, <2>1, <2>2
<1>6. CASE Quit(m)
  BY <1>1, <1>6 DEF Quit
<1>7. CASE Commit(m)
  BY <1>1, <1>7 DEF Commit
<1>8. CASE Release(m)
  BY <1>1, <1>8 DEF Release, Move
<1>9. CASE Cancel(m) \/ Notice(m) \/ Evict(m)
  BY <1>1, <1>9 DEF Cancel, Notice, Evict
<1>10. CASE Crash(m)
  BY <1>1, <1>10 DEF Crash
<1> QED
  BY <1>2, <1>3, <1>4, <1>5, <1>6, <1>7, <1>8, <1>9, <1>10 DEF SessionStep

\* A session's step keeps Behind: positions move only past stored records, and
\* only positions are committed.
LEMMA SessionBehind ==
  ASSUME IInv, NEW m \in Members, SessionStep(m)
  PROVE  Behind' /\ CommittedStored'
<1>1. log' = log /\ rows' = rows /\ Len(log) \in Nat
  BY SessionType DEF IInv, TypeOK
<1>2. Behind /\ CommittedStored /\ Places /\ TypeOK
  BY DEF IInv
<1>3. \A i \in 1 .. Len(log) : Stored(log[i])' <=> Stored(log[i])
  BY <1>1 DEF Stored
<1>4. \A i \in 1 .. Len(log) : floor' <= i /\ i < committed' => Stored(log[i])
  <2>1. CASE committed' = committed
    <3>1. CASE floor' = floor
      BY <1>2, <2>1, <3>1 DEF CommittedStored
    <3>2. CASE floor' # floor
      BY <1>1, <3>2, FloorMoves
    <3> QED
      BY <3>1, <3>2
  <2>2. CASE committed' # committed
    <3>1. at[m] # "out" /\ mark[m] # 0 /\ committed' = mark[m]
      BY <2>2 DEF SessionStep, Start, Take, SkipBad, Retry, Mark, Quit, Commit, Release,
                 Cancel, Notice, Evict, Crash, Move
    <3>2. committed' = pos[m] /\ pos[m] \in Nat \ {0} /\ floor' = floor
      BY <1>2, <2>2, <3>1, FloorMoves DEF Places, TypeOK
    <3> QED
      BY <1>2, <3>1, <3>2 DEF Behind
  <2> QED
    BY <2>1, <2>2
<1>5. ASSUME NEW n \in Members, at'[n] # "out"
      PROVE  /\ \A i \in 1 .. Len(log) : floor' <= i /\ i < pos'[n] => Stored(log[i])
             /\ at'[n] = "marking" => pos'[n] \in 1 .. Len(log) /\ Stored(log[pos'[n]])
  <2>0. CASE floor' # floor
    <3>1. /\ \A i \in 1 .. Len(log) : ~(floor' <= i)
          /\ at' = [at EXCEPT ![m] = "polling"] /\ pos' = [pos EXCEPT ![m] = pos'[m]]
      BY <1>1, <1>2, <2>0, FloorMoves DEF Start, Move, TypeOK
    <3> QED
      BY <1>2, <1>5, <3>1 DEF Behind, Places, TypeOK
  <2>1. CASE floor' = floor /\ at'[n] = at[n] /\ pos'[n] = pos[n]
    BY <1>2, <1>5, <2>1 DEF Behind, Places, TypeOK
  <2>2. CASE floor' = floor /\ ~(at'[n] = at[n] /\ pos'[n] = pos[n])
    <3>1. n = m
      BY <1>2, <2>2 DEF TypeOK, SessionStep, Start, Take, SkipBad, Retry, Mark, Quit, Commit, Release,
                 Cancel, Notice, Evict, Crash, Move
    <3>2. CASE Start(m)
      <4>1. at'[m] = "polling" /\ pos'[m] = IF committed = 0 THEN Len(log) + 1 ELSE committed
        BY <1>2, <3>2 DEF Start, Move, TypeOK
      <4>2. committed = 0 => floor' = Len(log) + 1
        BY <3>2 DEF Start
      <4> QED
        BY <1>1, <1>2, <2>2, <3>1, <4>1, <4>2 DEF CommittedStored
    <3>3. CASE Mark(m)
      <4>1. at[m] = "marking" /\ at'[m] = "polling" /\ pos'[m] = pos[m] + 1 /\ pos[m] \in Nat
        BY <1>2, <3>3 DEF Mark, Move, TypeOK
      <4>2. \A i \in 1 .. Len(log) : i < pos'[m] => i < pos[m] \/ i = pos[m]
        BY <4>1
      <4> QED
        BY <1>2, <2>2, <3>1, <4>1, <4>2 DEF Behind
    <3>4. CASE SkipBad(m)
      <4>1. /\ at[m] = "insert" /\ at'[m] = "marking" /\ pos'[m] = pos[m]
            /\ log[pos[m]] = Garbage /\ pos[m] \in 1 .. Len(log)
        BY <1>2, <3>4 DEF SkipBad, Move, TypeOK, Places
      <4> QED
        BY <1>2, <2>2, <3>1, <4>1 DEF Behind, Stored
    <3>5. CASE Take(m) \/ Retry(m) \/ Quit(m)
      <4>1. at[m] # "out" /\ at'[m] # "marking" /\ pos'[m] = pos[m]
        BY <1>2, <3>5 DEF Take, Retry, Quit, Move, TypeOK
      <4> QED
        BY <1>2, <2>2, <3>1, <4>1 DEF Behind
    <3>6. CASE Commit(m) \/ Cancel(m) \/ Notice(m) \/ Evict(m)
      BY <2>2, <3>1, <3>6 DEF Commit, Cancel, Notice, Evict
    <3>7. CASE Release(m) \/ Crash(m)
      BY <1>2, <1>5, <3>1, <3>7 DEF Release, Crash, Move, TypeOK
    <3> QED
      BY <3>2, <3>3, <3>4, <3>5, <3>6, <3>7 DEF SessionStep
  <2> QED
    BY <2>0, <2>1, <2>2
<1>6. CommittedStored'
  BY <1>1, <1>3, <1>4 DEF CommittedStored, Stored
<1>7. Behind'
  BY <1>1, <1>3, <1>4, <1>5 DEF Behind, Stored
<1> QED
  BY <1>6, <1>7

\* A session's step keeps the inductive invariant.
LEMMA SessionIInv ==
  ASSUME IInv, NEW m \in Members, SessionStep(m)
  PROVE  IInv'
<1>1. TypeOK' /\ UNCHANGED <<log, drawn, send, rows>>
  BY SessionType DEF IInv, producer
<1>2. OneKey'
  BY <1>1 DEF IInv, OneKey, Known
<1> QED
  BY <1>1, <1>2, SessionPlaces, SessionBehind DEF IInv

\* Every step keeps the inductive invariant.
LEMMA NextIInv == IInv /\ [Next]_vars => IInv'
<1> SUFFICES ASSUME IInv, [Next]_vars PROVE IInv'
  OBVIOUS
<1>1. CASE UNCHANGED vars
  BY <1>1 DEF vars, producer, IInv, TypeOK, OneKey, Known, Places, Behind, CommittedStored, Stored
<1>2. CASE Next
  BY <1>2, NextCases, SendBeginIInv, SendIInv, ForeignIInv, InsertIInv, SessionIInv DEF SessionStep
<1> QED
  BY <1>1, <1>2

-----------------------------------------------------------------------------
(***************************************************************************)
(* The theorems.                                                           *)
(***************************************************************************)

\* The inductive invariant holds throughout.
THEOREM SpecIInv == Spec => []IInv
  BY InitIInv, NextIInv, PTL DEF Spec

\* Type correctness of the log, the table, the sessions and the offsets.
THEOREM PersistTypeOK == Spec => []TypeOK
<1>1. IInv => TypeOK
  BY DEF IInv
<1> QED
  BY <1>1, SpecIInv, PTL

\* A group never commits an offset before everything below it is in the table
\* (ConsumeClaim's mark after insert), from where it last started without an
\* offset (OffsetNewest), for any number of overlapping sessions.
THEOREM PersistCommittedStored == Spec => []CommittedStored
<1>1. IInv => CommittedStored
  BY DEF IInv
<1> QED
  BY <1>1, SpecIInv, PTL

\* The group's offset never goes back.
THEOREM PersistCommitAdvances == Spec => CommitAdvances
<1>1. IInv /\ [Next]_vars => [committed' >= committed]_vars
  <2> SUFFICES ASSUME IInv, [Next]_vars PROVE committed' >= committed
    OBVIOUS
  <2>1. committed \in Nat /\ None \notin Members
    BY PersistAssumption DEF IInv, TypeOK
  <2>2. CASE committed' = committed
    BY <2>1, <2>2
  <2>3. CASE committed' # committed
    <3>1. PICK m \in Members : Commit(m) \/ Release(m)
      BY <2>3, NextCases DEF vars, SendBegin, SendAppend, SendOk, SendFails, Foreign, Start, Take, SkipBad,
         Retry, Mark, Quit, InsertOk, InsertFails, Cancel, Evict, Notice, Crash
    <3>2. holder = m /\ mark[m] # 0 /\ committed' = mark[m]
      BY <2>3, <3>1 DEF Commit, Release
    <3>3. committed' = pos[m] /\ pos[m] >= committed
      BY <2>1, <3>2 DEF IInv, Places
    <3> QED
      BY <3>3
  <2> QED
    BY <2>2, <2>3
<1> QED
  BY <1>1, SpecIInv, PTL DEF Spec, CommitAdvances

-----------------------------------------------------------------------------
(***************************************************************************)
(* The refinement of MessageStore.                                         *)
(***************************************************************************)

\* A producer that has the broker's answer has its record in the log.
Written ==
  \A k \in Calls : send[k].wrote => \E i \in 1 .. Len(log) : log[i] = send[k].rec

\* The log never loses a record, so Written stays.
LEMMA LogKeeps ==
  ASSUME IInv, NEW r \in Record \cup {Garbage}, log' = Append(log, r), NEW x
  PROVE  /\ (\E i \in 1 .. Len(log) : log[i] = x) => \E i \in 1 .. Len(log') : log'[i] = x
         /\ \E i \in 1 .. Len(log') : log'[i] = r
<1>1. /\ Len(log') = Len(log) + 1 /\ Len(log) \in Nat
      /\ \A i \in 1 .. Len(log) : log'[i] = log[i]
      /\ log'[Len(log) + 1] = r
  BY LogGrows DEF IInv, TypeOK
<1> QED
  BY <1>1

\* Every step keeps Written.
LEMMA NextWritten ==
  ASSUME IInv, Written, [Next]_vars
  PROVE  Written'
<1>1. CASE UNCHANGED <<log, send>>
  BY <1>1 DEF Written
<1>2. ASSUME NEW k \in Calls, NEW id \in Ids, NEW key \in Keys, SendBegin(k, id, key)
      PROVE  Written'
  BY <1>2 DEF SendBegin, Written, IInv, TypeOK
<1>3. ASSUME NEW k \in Calls, SendAppend(k)
      PROVE  Written'
  <2>1. send[k] \in [at : {"sending"}, rec : Record, wrote : BOOLEAN]
    BY <1>3 DEF SendAppend, IInv, TypeOK, Idle
  <2>2. \A j \in Calls : send'[j].rec = send[j].rec /\ (j # k => send'[j] = send[j])
    BY <1>3, <2>1 DEF SendAppend, IInv, TypeOK
  <2>3. send[k].rec \in Record /\ log' = Append(log, send[k].rec)
    BY <1>3, <2>1 DEF SendAppend
  <2> QED
    BY <2>2, <2>3, LogKeeps DEF Written
<1>4. ASSUME NEW k \in Calls, SendOk(k) \/ SendFails(k)
      PROVE  Written'
  <2>1. log' = log /\ send' = [send EXCEPT ![k] = Idle]
    BY <1>4 DEF SendOk, SendFails
  <2> QED
    BY <2>1 DEF Written, IInv, TypeOK, Idle
<1>5. CASE Foreign
  BY <1>5, LogKeeps DEF Foreign, producer, Written
<1>6. ASSUME NEW m \in Members, SessionStep(m) \/ InsertOk(m) \/ InsertFails(m)
      PROVE  UNCHANGED <<log, send>>
  BY <1>6, SessionType DEF IInv, InsertOk, InsertFails, producer
<1> QED
  BY <1>1, <1>2, <1>3, <1>4, <1>5, <1>6, NextCases DEF SessionStep, vars, producer

\* What an insert, successful or not, is for the store.
LEMMA InsertRefines ==
  ASSUME IInv, NEW m \in Members, InsertOk(m) \/ InsertFails(m)
  PROVE  (\E i \in 1 .. Len(log) : MS!Store(i)) \/ UNCHANGED MS!vars
<1>1. /\ pos[m] \in 1 .. Len(log) /\ log[pos[m]] \in Record
      /\ rows' = rows \/ Insert(log[pos[m]])
      /\ log[pos[m]] # Garbage
      /\ UNCHANGED <<log, committed, floor, acked>>
  BY InsertType DEF IInv, InsertOk, InsertFails, producer
<1>2. CASE rows' = rows
  BY <1>1, <1>2 DEF MS!vars
<1>3. CASE rows' # rows
  <2>1. /\ \A row \in rows : row.id # log[pos[m]].id /\ row.key # log[pos[m]].key
        /\ rows' = rows \cup {log[pos[m]]}
    BY <1>1, <1>3 DEF Insert, Conflict
  <2>2. MS!Store(pos[m])
    BY <1>1, <2>1 DEF MS!Store
  <2> QED
    BY <1>1, <2>2
<1> QED
  BY <1>2, <1>3

\* A session's step is a commit for the store, or not visible.
LEMMA SessionRefines ==
  ASSUME IInv, NEW m \in Members, SessionStep(m)
  PROVE  MS!Skip \/ (\E n \in 1 .. Len(log) + 1 : MS!Advance(n)) \/ UNCHANGED MS!vars
<1>1. UNCHANGED <<log, rows, acked>> /\ Len(log) \in Nat
  BY SessionType DEF IInv, TypeOK, producer
<1>2. CASE committed' = committed /\ floor' = floor
  BY <1>1, <1>2 DEF MS!vars
<1>4. CASE floor' # floor
  <2>1. MS!Skip
    BY <1>1, <1>4, FloorMoves DEF MS!Skip
  <2> QED
    BY <2>1
<1>3. CASE committed' # committed
  <2>1. at[m] # "out" /\ holder = m /\ mark[m] # 0 /\ committed' = mark[m]
    BY <1>3 DEF SessionStep, Start, Take, SkipBad, Retry, Mark, Quit, Commit, Release,
               Cancel, Notice, Evict, Crash, Move
  <2>2. /\ committed' = pos[m] /\ pos[m] \in 1 .. Len(log) + 1 /\ pos[m] >= committed /\ committed \in Nat
        /\ pos[m] >= floor /\ floor \in Nat \ {0} /\ floor' = floor
    BY <1>1, <1>3, <2>1, PersistAssumption, FloorMoves DEF IInv, Places, TypeOK
  <2>3. \A i \in floor .. pos[m] - 1 : log[i] = Garbage \/ \E row \in rows : row.key = log[i].key
    BY <1>1, <2>1, <2>2 DEF IInv, Behind, Stored
  <2>4. MS!Advance(pos[m])
    BY <1>1, <1>3, <2>2, <2>3 DEF MS!Advance
  <2> QED
    BY <2>2, <2>4
<1> QED
  BY <1>2, <1>3, <1>4

\* Every step is one of the store, or not visible.
LEMMA NextRefines ==
  IInv /\ Written /\ [Next]_vars => [MS!Next]_(MS!vars)
<1> SUFFICES ASSUME IInv, Written, [Next]_vars PROVE [MS!Next]_(MS!vars)
  OBVIOUS
<1>1. CASE UNCHANGED vars
  BY <1>1 DEF vars, producer, MS!vars
<1>2. ASSUME NEW k \in Calls, NEW id \in Ids, NEW key \in Keys, SendBegin(k, id, key)
      PROVE  UNCHANGED MS!vars
  BY <1>2 DEF SendBegin, MS!vars
<1>3. ASSUME NEW k \in Calls, SendAppend(k)
      PROVE  MS!Next
  <2>1. send[k].rec \in Record
    BY <1>3 DEF SendAppend, IInv, TypeOK, Idle
  <2>2. MS!Write(send[k].rec)
    BY <1>3 DEF SendAppend, MS!Write
  <2> QED
    BY <2>1, <2>2 DEF MS!Next
<1>4. ASSUME NEW k \in Calls, SendOk(k)
      PROVE  MS!Next
  <2>1. PICK i \in 1 .. Len(log) : log[i] = send[k].rec
    BY <1>4 DEF SendOk, Written
  <2>2. MS!Ack(i)
    BY <1>4, <2>1 DEF SendOk, MS!Ack
  <2> QED
    BY <2>2 DEF MS!Next
<1>5. ASSUME NEW k \in Calls, SendFails(k)
      PROVE  UNCHANGED MS!vars
  BY <1>5 DEF SendFails, MS!vars
<1>6. CASE Foreign
  <2>1. MS!Write(Garbage)
    BY <1>6 DEF Foreign, producer, MS!Write
  <2> QED
    BY <2>1 DEF MS!Next
<1>7. ASSUME NEW m \in Members, InsertOk(m) \/ InsertFails(m)
      PROVE  [MS!Next]_(MS!vars)
  BY <1>7, InsertRefines DEF MS!Next
<1>8. ASSUME NEW m \in Members, SessionStep(m)
      PROVE  [MS!Next]_(MS!vars)
  BY <1>8, SessionRefines DEF MS!Next
<1> QED
  BY <1>1, <1>2, <1>3, <1>4, <1>5, <1>6, <1>7, <1>8, NextCases DEF SessionStep

\* SendMessage, the log and the persistence consumers together are a store of
\* messages that keeps nothing twice and acknowledges only what it has, for
\* any number of producers and overlapping sessions.
THEOREM PersistImplementsMessageStore == Spec => ImplementsMessageStore
<1>1. Init => MS!Init /\ Written
  BY DEF Init, MS!Init, Written, Idle
<1>2. IInv /\ Written /\ [Next]_vars => Written'
  BY NextWritten
<1>3. IInv /\ Written /\ [Next]_vars => [MS!Next]_(MS!vars)
  BY NextRefines
<1> QED
  BY <1>1, <1>2, <1>3, SpecIInv, PTL DEF Spec, ImplementsMessageStore, MS!Spec

=============================================================================
