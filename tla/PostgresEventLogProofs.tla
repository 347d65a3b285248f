------------------------ MODULE PostgresEventLogProofs ------------------------
(***************************************************************************)
(* Proofs about PostgresEventLog, for every set of clients, keys and       *)
(* events and every size of the pool.  IInv is the inductive invariant.    *)
(* The open transactions that have inserted their key, a client's before   *)
(* its COMMIT or an orphan, own that key and their seq alone: that is what *)
(* makes a commit add one command with one event of its own.               *)
(***************************************************************************)
EXTENDS PostgresEventLog, TLAPS

(* A client's transaction has inserted the key.                            *)
Holds(c) == pc[c] = "commit"

KeyOf(c) == request[c].command_id

(* No command that is logged is inserted by an open transaction, and no    *)
(* two of those insert the same one.                                       *)
ClientKeysOwned ==
    /\ \A c \in Clients : Holds(c) => ~ Known(KeyOf(c))
    /\ \A c, d \in Clients : Holds(c) /\ Holds(d) /\ KeyOf(c) = KeyOf(d) => c = d

OrphanKeysOwned ==
    /\ \A o \in orphans : ~ Known(o.command_id)
    /\ \A o, q \in orphans : o.command_id = q.command_id => o = q
    /\ \A c \in Clients : \A o \in orphans : Holds(c) => KeyOf(c) # o.command_id

(* The seq a transaction was given is in no committed row and in no other  *)
(* transaction.                                                            *)
ClientSeqsOwned ==
    /\ \A c \in Clients : seq[c] # 0 => seq[c] \notin DOMAIN event_log
    /\ \A c, d \in Clients : seq[c] # 0 /\ seq[c] = seq[d] => c = d

OrphanSeqsOwned ==
    /\ \A o \in orphans : o.seq \notin DOMAIN event_log
    /\ \A o, q \in orphans : o.seq = q.seq => o = q
    /\ \A c \in Clients : \A o \in orphans : seq[c] # o.seq

(* After 23505 the key is there to be looked up.                           *)
WinnerLogged ==
    \A c \in Clients : pc[c] \in {"rollback", "relookup"} => Known(KeyOf(c))

IInv == /\ TypeOK /\ OneEventPerCommand /\ AnswersAreLogged /\ NoMissingCommandEvent
        /\ ClientKeysOwned /\ OrphanKeysOwned
        /\ ClientSeqsOwned /\ OrphanSeqsOwned /\ WinnerLogged

-------------------------------------------------------------------------------
(* Records.                                                                *)

(* A row that appears leaves the other rows as they were.                  *)
LEMMA RowProperties ==
    ASSUME NEW map, NEW key, NEW value
    PROVE  /\ DOMAIN Row(map, key, value) = DOMAIN map \cup {key}
           /\ Row(map, key, value)[key] = value
           /\ \A k \in DOMAIN map \ {key} : Row(map, key, value)[k] = map[k]
BY DEF Row

(* The numbers given so far.                                               *)
LEMMA GivenSeqs ==
    ASSUME TypeOK
    PROVE  /\ next_seq \in Nat \ {0} /\ MaxSeq \in Nat
           /\ 1 .. (next_seq - 1) \subseteq 1 .. MaxSeq
BY PostgresEventLogAssumption DEF TypeOK

(* A retry of a command that is known is told the record of the log.       *)
LEMMA ReplayedProperties ==
    ASSUME TypeOK, OneEventPerCommand, NEW id \in CommandIds, Known(id)
    PROVE  /\ Replayed(id) \in Answers
           /\ Replayed(id).result = "Ok"
           /\ Replayed(id).record = RecordOf(id)
           /\ command_log[id] \in DOMAIN event_log
<1>1. command_log[id] \in DOMAIN event_log
  BY DEF Known, OneEventPerCommand
<1>2. RecordOf(id) \in Record
  BY <1>1, GivenSeqs DEF TypeOK, RecordOf, Record, Known
<1> QED  BY <1>1, <1>2 DEF Replayed, Ok, Answers

-------------------------------------------------------------------------------
(* The initial states.                                                     *)

LEMMA InitIInv == Init => IInv
<1> SUFFICES ASSUME Init PROVE IInv
  OBVIOUS
<1> USE PostgresEventLogAssumption DEF Init
<1>1. TypeOK
  BY DEF TypeOK, Labels
<1>2. OneEventPerCommand
  BY DEF OneEventPerCommand
<1>3. AnswersAreLogged /\ NoMissingCommandEvent
  BY DEF AnswersAreLogged, NoMissingCommandEvent
<1>4. ClientKeysOwned /\ OrphanKeysOwned
  BY DEF ClientKeysOwned, OrphanKeysOwned, Holds
<1>5. ClientSeqsOwned /\ OrphanSeqsOwned /\ WinnerLogged
  BY DEF ClientSeqsOwned, OrphanSeqsOwned, WinnerLogged
<1> QED  BY <1>1, <1>2, <1>3, <1>4, <1>5 DEF IInv

-------------------------------------------------------------------------------
(* The steps of a call.                                                    *)

LEMMA StartStep ==
    ASSUME IInv, NEW c \in Clients, Start(c)
    PROVE  IInv'
<1> USE DEF IInv
<1>0. PICK r \in Request : request' = [request EXCEPT ![c] = r]
  BY DEF Start
<1>1. TypeOK'
  BY <1>0 DEF TypeOK, Start, Goto, Labels, database
<1>2. OneEventPerCommand'
  BY DEF OneEventPerCommand, Start, database
<1>3. AnswersAreLogged' /\ NoMissingCommandEvent'
  BY <1>0 DEF AnswersAreLogged, NoMissingCommandEvent, TypeOK, Start, Goto, database, Known, RecordOf
<1>4. ClientKeysOwned' /\ OrphanKeysOwned'
  BY <1>0 DEF ClientKeysOwned, OrphanKeysOwned, TypeOK, Start, Goto, database, Holds, KeyOf, Known
<1>5. ClientSeqsOwned' /\ OrphanSeqsOwned'
  BY DEF ClientSeqsOwned, OrphanSeqsOwned, Start, database
<1>6. WinnerLogged'
  BY <1>0 DEF WinnerLogged, TypeOK, Start, Goto, database, KeyOf, Known
<1> QED  BY <1>1, <1>2, <1>3, <1>4, <1>5, <1>6

(* A call ends with an answer of the right type.                           *)
LEMMA FinishTypes ==
    ASSUME TypeOK, NEW c \in Clients, NEW result \in Answers, pc[c] # "idle",
           Finish(c, result),
           UNCHANGED <<event_log, command_log, next_seq, request>>,
           \A o \in orphans' : o \in Orphan /\ o.seq < next_seq
    PROVE  TypeOK'
<1> USE DEF TypeOK
<1>1. /\ pc' = [pc EXCEPT ![c] = "done"] /\ pc' \in [Clients -> Labels]
      /\ answer' = [answer EXCEPT ![c] = result]
      /\ seq' = [seq EXCEPT ![c] = 0] /\ seq' \in [Clients -> 0 .. (next_seq' - 1)]
  BY DEF Finish, Goto, Labels
<1>2. answer' = [d \in Clients |-> answer'[d]]
  BY <1>1
<1>3. ASSUME NEW d \in Clients
      PROVE  /\ pc'[d] # "idle" => request'[d] \in Request
             /\ pc'[d] \in {"insertCommand", "commit"} => seq'[d] > 0
             /\ pc'[d] = "done" => answer'[d] \in Answers
  <2>1. CASE d = c
    BY <2>1, <1>1, answer'[c] = result
  <2>2. CASE d # c
    <3>1. pc'[d] = pc[d] /\ seq'[d] = seq[d] /\ answer'[d] = answer[d]
      BY <1>1, <2>2
    <3> QED  BY <3>1
  <2> QED  BY <2>1, <2>2
<1> QED  BY <1>1, <1>2, <1>3

(* A call moves on and holds nothing new.                                  *)
LEMMA QuietStep ==
    ASSUME IInv, NEW c \in Clients, NEW label \in {"begin", "insertEvent"},
           pc[c] \in {"lookup", "begin"}, Goto(c, label),
           UNCHANGED <<database, next_seq, request, seq, answer, orphans>>
    PROVE  IInv'
<1> USE DEF IInv, database
<1>1. TypeOK'
  BY DEF TypeOK, Goto, Labels
<1>2. OneEventPerCommand'
  BY DEF OneEventPerCommand
<1>3. AnswersAreLogged' /\ NoMissingCommandEvent'
  BY DEF AnswersAreLogged, NoMissingCommandEvent, TypeOK, Goto, Known, RecordOf
<1>4. ClientKeysOwned' /\ OrphanKeysOwned'
  BY DEF ClientKeysOwned, OrphanKeysOwned, TypeOK, Goto, Holds, KeyOf, Known
<1>5. ClientSeqsOwned' /\ OrphanSeqsOwned'
  BY DEF ClientSeqsOwned, OrphanSeqsOwned
<1>6. WinnerLogged'
  BY DEF WinnerLogged, TypeOK, Goto, KeyOf, Known
<1> QED  BY <1>1, <1>2, <1>3, <1>4, <1>5, <1>6

(* A call is told the record of a command that is known.                   *)
LEMMA ReplayStep ==
    ASSUME IInv, NEW c \in Clients, pc[c] \in {"lookup", "relookup"},
           Known(KeyOf(c)), Finish(c, Replayed(KeyOf(c))),
           UNCHANGED <<database, next_seq, request, orphans>>
    PROVE  IInv'
<1> USE DEF IInv, database
<1>0. KeyOf(c) \in CommandIds
  BY DEF TypeOK, Request, KeyOf
<1>1. /\ Replayed(KeyOf(c)) \in Answers /\ Replayed(KeyOf(c)).result = "Ok"
      /\ Replayed(KeyOf(c)).record = RecordOf(KeyOf(c))
      /\ command_log[KeyOf(c)] \in DOMAIN event_log
  BY <1>0, ReplayedProperties
<1>2. TypeOK'
  BY <1>1, FinishTypes DEF TypeOK
<1>3. OneEventPerCommand'
  BY DEF OneEventPerCommand
<1>4. AnswersAreLogged' /\ NoMissingCommandEvent'
  BY <1>1 DEF AnswersAreLogged, NoMissingCommandEvent, TypeOK, Finish, Goto,
              Known, RecordOf, KeyOf
<1>5. ClientKeysOwned' /\ OrphanKeysOwned'
  BY DEF ClientKeysOwned, OrphanKeysOwned, TypeOK, Finish, Goto, Holds, KeyOf, Known
<1>6. ClientSeqsOwned' /\ OrphanSeqsOwned'
  BY DEF ClientSeqsOwned, OrphanSeqsOwned, TypeOK, Finish, Orphan
<1>7. WinnerLogged'
  BY DEF WinnerLogged, TypeOK, Finish, Goto, KeyOf, Known
<1> QED  BY <1>2, <1>3, <1>4, <1>5, <1>6, <1>7

LEMMA LookUpStep ==
    ASSUME IInv, NEW c \in Clients, LookUp(c)
    PROVE  IInv'
<1>1. CASE Known(KeyOf(c))
  BY <1>1, ReplayStep DEF LookUp, KeyOf
<1>2. CASE ~ Known(KeyOf(c))
  BY <1>2, QuietStep DEF LookUp, KeyOf
<1> QED  BY <1>1, <1>2

LEMMA BeginStep ==
    ASSUME IInv, NEW c \in Clients, Begin(c)
    PROVE  IInv'
BY QuietStep DEF Begin

LEMMA InsertEventStep ==
    ASSUME IInv, NEW c \in Clients, InsertEvent(c)
    PROVE  IInv'
<1> USE DEF IInv
<1>0. /\ pc[c] = "insertEvent" /\ pc' = [pc EXCEPT ![c] = "insertCommand"]
      /\ seq' = [seq EXCEPT ![c] = next_seq]
      /\ next_seq <= MaxSeq /\ next_seq' = next_seq + 1
      /\ UNCHANGED <<event_log, command_log, request, answer, orphans>>
  BY DEF InsertEvent, InsertsInTx, AfterNextval, Goto, database
<1>1. TypeOK'
  <2> USE DEF TypeOK
  <2>1. /\ next_seq \in Nat \ {0} /\ next_seq' \in 1 .. MaxSeq + 1
        /\ 1 .. (next_seq - 1) \subseteq 1 .. (next_seq' - 1)
    BY <1>0, GivenSeqs
  <2>2. /\ DOMAIN event_log' \subseteq 1 .. (next_seq' - 1)
        /\ command_log' \in [DOMAIN command_log' -> 1 .. (next_seq' - 1)]
    BY <1>0, <2>1
  <2>3. pc' \in [Clients -> Labels] /\ seq' \in [Clients -> 0 .. (next_seq' - 1)]
    BY <1>0, <2>1 DEF Labels
  <2>4. \A o \in orphans' : o \in Orphan /\ o.seq < next_seq'
    BY <1>0, <2>1 DEF Orphan
  <2>5. \A d \in Clients :
           /\ pc'[d] # "idle" => request'[d] \in Request
           /\ pc'[d] \in {"insertCommand", "commit"} => seq'[d] > 0
           /\ pc'[d] = "done" => answer'[d] \in Answers
    BY <1>0, <2>1
  <2> QED  BY <1>0, <2>1, <2>2, <2>3, <2>4, <2>5
<1>2. OneEventPerCommand'
  BY <1>0 DEF OneEventPerCommand
<1>3. AnswersAreLogged' /\ NoMissingCommandEvent'
  BY <1>0 DEF AnswersAreLogged, NoMissingCommandEvent, TypeOK, Known, RecordOf
<1>4. ClientKeysOwned' /\ OrphanKeysOwned'
  BY <1>0 DEF ClientKeysOwned, OrphanKeysOwned, TypeOK, Holds, KeyOf, Known
<1>5. ClientSeqsOwned'
  BY <1>0 DEF ClientSeqsOwned, TypeOK
<1>6. OrphanSeqsOwned'
  BY <1>0 DEF OrphanSeqsOwned, TypeOK, Orphan
<1>7. WinnerLogged'
  BY <1>0 DEF WinnerLogged, TypeOK, KeyOf, Known
<1> QED  BY <1>1, <1>2, <1>3, <1>4, <1>5, <1>6, <1>7

(* The key was free: it is the transaction's own from here on.             *)
LEMMA InsertCommandStep ==
    ASSUME IInv, NEW c \in Clients, InsertCommand(c)
    PROVE  IInv'
<1> USE DEF IInv
<1>0. PICK label \in AfterInsertOf(KeyOf(c)) : Goto(c, label)
  BY DEF InsertCommand, KeyOf
<1>1. /\ label \in {"rollback", "commit"}
      /\ ~ KeyHeld(KeyOf(c))
      /\ label = "rollback" <=> Known(KeyOf(c))
  BY <1>0 DEF AfterInsertOf
<1>2. /\ pc[c] = "insertCommand"
      /\ UNCHANGED <<event_log, command_log, next_seq, request, seq, answer, orphans>>
  BY DEF InsertCommand, database
<1>3. TypeOK'
  BY <1>0, <1>1, <1>2 DEF TypeOK, Goto, Labels
<1>4. OneEventPerCommand'
  BY <1>2 DEF OneEventPerCommand
<1>5. AnswersAreLogged' /\ NoMissingCommandEvent'
  BY <1>0, <1>1, <1>2 DEF AnswersAreLogged, NoMissingCommandEvent, TypeOK, Goto, Known, RecordOf
<1>6. ClientKeysOwned' /\ OrphanKeysOwned'
  BY <1>0, <1>1, <1>2 DEF ClientKeysOwned, OrphanKeysOwned, TypeOK, Goto, Holds,
                          KeyOf, KeyHeld, Known
<1>7. ClientSeqsOwned' /\ OrphanSeqsOwned'
  BY <1>2 DEF ClientSeqsOwned, OrphanSeqsOwned
<1>8. WinnerLogged'
  BY <1>0, <1>1, <1>2 DEF WinnerLogged, TypeOK, Goto, KeyOf, Known
<1> QED  BY <1>3, <1>4, <1>5, <1>6, <1>7, <1>8

(* A transaction that owns its key and its seq adds one command with one   *)
(* event, and the records of the other commands stay as they were.         *)
LEMMA CommitRowsProperties ==
    ASSUME TypeOK, OneEventPerCommand,
           NEW row \in 1 .. (next_seq - 1), NEW id \in CommandIds, NEW event \in Events,
           row \notin DOMAIN event_log, ~ Known(id),
           CommitRows(row, id, event), next_seq' = next_seq
    PROVE  /\ DOMAIN event_log' = DOMAIN event_log \cup {row}
           /\ DOMAIN event_log' \subseteq 1 .. (next_seq' - 1)
           /\ event_log' \in [DOMAIN event_log' -> Events]
           /\ DOMAIN command_log' = DOMAIN command_log \cup {id}
           /\ DOMAIN command_log' \subseteq CommandIds
           /\ command_log' \in [DOMAIN command_log' -> 1 .. (next_seq' - 1)]
           /\ OneEventPerCommand'
           /\ Known(id)' /\ command_log'[id] = row
           /\ RecordOf(id)' = [seq |-> row, event |-> event]
           /\ \A k \in DOMAIN command_log :
                 /\ Known(k)' /\ command_log'[k] = command_log[k]
                 /\ command_log'[k] \in DOMAIN event_log'
                 /\ RecordOf(k)' = RecordOf(k)
<1>1. /\ DOMAIN event_log' = DOMAIN event_log \cup {row}
      /\ event_log'[row] = event
      /\ \A k \in DOMAIN event_log \ {row} : event_log'[k] = event_log[k]
      /\ event_log' = [k \in DOMAIN event_log \cup {row} |->
                          IF k = row THEN event ELSE event_log[k]]
  BY RowProperties DEF CommitRows, Row
<1>2. /\ DOMAIN command_log' = DOMAIN command_log \cup {id}
      /\ command_log'[id] = row
      /\ \A k \in DOMAIN command_log \ {id} : command_log'[k] = command_log[k]
      /\ command_log' = [k \in DOMAIN command_log \cup {id} |->
                            IF k = id THEN row ELSE command_log[k]]
  BY RowProperties DEF CommitRows, Row
<1>3. id \notin DOMAIN command_log
  BY DEF Known
<1>4. \A k \in DOMAIN command_log : command_log[k] \in DOMAIN event_log
  BY DEF OneEventPerCommand
<1>5. /\ DOMAIN event_log' \subseteq 1 .. (next_seq' - 1)
      /\ event_log' \in [DOMAIN event_log' -> Events]
  BY <1>1 DEF TypeOK
<1>6. /\ DOMAIN command_log' \subseteq CommandIds
      /\ command_log' \in [DOMAIN command_log' -> 1 .. (next_seq' - 1)]
  BY <1>2 DEF TypeOK
<1>7. OneEventPerCommand'
  <2>1. \A i, j \in DOMAIN command_log' : command_log'[i] = command_log'[j] => i = j
    BY <1>2, <1>3, <1>4 DEF OneEventPerCommand
  <2>2. {command_log'[k] : k \in DOMAIN command_log'}
           = {command_log[k] : k \in DOMAIN command_log} \cup {row}
    BY <1>2, <1>3
  <2> QED  BY <2>1, <2>2, <1>1 DEF OneEventPerCommand
<1>8. RecordOf(id)' = [seq |-> row, event |-> event] /\ Known(id)'
  BY <1>1, <1>2 DEF RecordOf, Known
<1>9. \A k \in DOMAIN command_log :
         /\ Known(k)' /\ command_log'[k] = command_log[k]
         /\ command_log'[k] \in DOMAIN event_log'
         /\ RecordOf(k)' = RecordOf(k)
  BY <1>1, <1>2, <1>3, <1>4 DEF RecordOf, Known
<1> QED  BY <1>1, <1>2, <1>5, <1>6, <1>7, <1>8, <1>9

LEMMA CommitStep ==
    ASSUME IInv, NEW c \in Clients, Commit(c)
    PROVE  IInv'
<1> USE DEF IInv
<1>0. /\ pc[c] = "commit" /\ seq[c] \in 1 .. (next_seq - 1)
      /\ KeyOf(c) \in CommandIds /\ request[c].event \in Events
  BY DEF Commit, TypeOK, Request, KeyOf
<1>1. PICK row \in 1 .. (next_seq - 1), id \in CommandIds, event \in Events :
          row = seq[c] /\ id = KeyOf(c) /\ event = request[c].event
  BY <1>0
<1> DEFINE told == Ok([seq |-> row, event |-> event], TRUE)
<1>2. /\ CommitRows(row, id, event)
      /\ Finish(c, told)
      /\ UNCHANGED <<next_seq, request, orphans>>
  BY <1>1 DEF Commit, KeyOf
<1>3. /\ row \notin DOMAIN event_log /\ ~ Known(id)
      /\ \A d \in Clients \ {c} : seq[d] # row
      /\ \A o \in orphans : o.seq # row /\ o.command_id # id
      /\ \A d \in Clients \ {c} : Holds(d) => KeyOf(d) # id
  <2>1. row \notin DOMAIN event_log /\ \A d \in Clients \ {c} : seq[d] # row
    BY <1>1 DEF ClientSeqsOwned
  <2>2. \A o \in orphans : o.seq # row
    BY <1>1 DEF OrphanSeqsOwned
  <2>3. ~ Known(id) /\ \A d \in Clients \ {c} : Holds(d) => KeyOf(d) # id
    BY <1>0, <1>1 DEF ClientKeysOwned, Holds
  <2>4. \A o \in orphans : o.command_id # id
    BY <1>0, <1>1 DEF OrphanKeysOwned, Holds
  <2> QED  BY <2>1, <2>2, <2>3, <2>4
<1>4. /\ DOMAIN event_log' = DOMAIN event_log \cup {row}
      /\ DOMAIN event_log' \subseteq 1 .. (next_seq' - 1)
      /\ event_log' \in [DOMAIN event_log' -> Events]
      /\ DOMAIN command_log' = DOMAIN command_log \cup {id}
      /\ DOMAIN command_log' \subseteq CommandIds
      /\ command_log' \in [DOMAIN command_log' -> 1 .. (next_seq' - 1)]
      /\ OneEventPerCommand'
      /\ Known(id)' /\ command_log'[id] = row
      /\ RecordOf(id)' = [seq |-> row, event |-> event]
      /\ \A k \in DOMAIN command_log :
            /\ Known(k)' /\ command_log'[k] = command_log[k]
            /\ command_log'[k] \in DOMAIN event_log'
            /\ RecordOf(k)' = RecordOf(k)
  BY <1>2, <1>3, CommitRowsProperties
<1>5. told \in Answers /\ told.result = "Ok" /\ told.record = [seq |-> row, event |-> event]
  BY GivenSeqs DEF Ok, Answers, Record
<1> HIDE DEF told
<1>6. TypeOK'
  <2>1. /\ pc' = [pc EXCEPT ![c] = "done"] /\ answer' = [answer EXCEPT ![c] = told]
        /\ seq' = [seq EXCEPT ![c] = 0]
    BY <1>2 DEF Finish, Goto
  <2>2. pc' \in [Clients -> Labels] /\ seq' \in [Clients -> 0 .. (next_seq' - 1)]
    BY <1>2, <2>1 DEF TypeOK, Labels
  <2>3. answer' = [d \in Clients |-> answer'[d]]
    BY <2>1 DEF TypeOK
  <2>4. \A d \in Clients :
           /\ pc'[d] # "idle" => request'[d] \in Request
           /\ pc'[d] \in {"insertCommand", "commit"} => seq'[d] > 0
           /\ pc'[d] = "done" => answer'[d] \in Answers
    <3>1. pc'[c] = "done" /\ answer'[c] = told
      BY <2>1 DEF TypeOK
    <3>2. \A d \in Clients \ {c} : pc'[d] = pc[d] /\ seq'[d] = seq[d] /\ answer'[d] = answer[d]
      BY <2>1 DEF TypeOK
    <3> QED  BY <1>0, <1>2, <1>5, <3>1, <3>2 DEF TypeOK
  <2> QED  BY <1>2, <1>4, <2>2, <2>3, <2>4 DEF TypeOK
<1>7. AnswersAreLogged' /\ NoMissingCommandEvent'
  <2>1. /\ pc' = [pc EXCEPT ![c] = "done"] /\ answer' = [answer EXCEPT ![c] = told]
    BY <1>2 DEF Finish, Goto
  <2>2. KeyOf(c)' = id /\ row \in DOMAIN event_log'
    BY <1>1, <1>2, <1>4 DEF KeyOf
  <2>3. ASSUME NEW d \in Clients, pc'[d] = "done", answer'[d].result = "Ok"
        PROVE  /\ Known(KeyOf(d))' /\ command_log'[KeyOf(d)'] \in DOMAIN event_log'
               /\ answer'[d].record = RecordOf(KeyOf(d))'
    <3>1. CASE d = c
      <4>1. answer'[d].record = [seq |-> row, event |-> event]
        BY <3>1, <1>5, <2>1 DEF TypeOK
      <4>2. KeyOf(d)' = id /\ Known(KeyOf(d))' = Known(id)' /\ RecordOf(KeyOf(d))' = RecordOf(id)'
        BY <3>1, <2>2 DEF Known, RecordOf
      <4> QED  BY <4>1, <4>2, <1>4, <2>2
    <3>2. CASE d # c
      <4>1. pc[d] = "done" /\ answer'[d] = answer[d] /\ KeyOf(d)' = KeyOf(d)
        BY <3>2, <2>3, <1>2, <2>1 DEF TypeOK, KeyOf
      <4>2. Known(KeyOf(d)) /\ answer[d].record = RecordOf(KeyOf(d))
        BY <2>3, <4>1 DEF AnswersAreLogged, KeyOf
      <4>3. PICK k \in DOMAIN command_log : k = KeyOf(d)
        BY <4>2 DEF Known
      <4>4. Known(KeyOf(d))' = Known(k)' /\ RecordOf(KeyOf(d))' = RecordOf(k)'
        BY <4>1, <4>3 DEF Known, RecordOf
      <4>5. Known(k)' /\ command_log'[k] \in DOMAIN event_log' /\ RecordOf(k)' = RecordOf(k)
        BY <1>4
      <4> QED  BY <4>1, <4>2, <4>3, <4>4, <4>5
    <3> QED  BY <3>1, <3>2
  <2>4. AnswersAreLogged'
    BY <2>3 DEF AnswersAreLogged, KeyOf, Known, RecordOf
  <2>5. NoMissingCommandEvent'
    BY <1>5, <2>1 DEF NoMissingCommandEvent, TypeOK
  <2> QED  BY <2>4, <2>5
<1>8. ClientKeysOwned' /\ OrphanKeysOwned'
  BY <1>0, <1>1, <1>2, <1>3, <1>4
     DEF ClientKeysOwned, OrphanKeysOwned, TypeOK, Finish, Goto,
         Holds, KeyOf, Known
<1>9. ClientSeqsOwned' /\ OrphanSeqsOwned'
  BY <1>0, <1>1, <1>2, <1>3, <1>4
     DEF ClientSeqsOwned, OrphanSeqsOwned, TypeOK, Finish, Orphan
<1>10. WinnerLogged'
  BY <1>2, <1>4 DEF WinnerLogged, TypeOK, Finish, Goto, KeyOf, Known
<1> QED  BY <1>4, <1>6, <1>7, <1>8, <1>9, <1>10

LEMMA RollbackStep ==
    ASSUME IInv, NEW c \in Clients, Rollback(c)
    PROVE  IInv'
<1> USE DEF IInv, Rollback, Goto, database
<1>1. TypeOK'
  BY DEF TypeOK, Labels
<1>2. OneEventPerCommand'
  BY DEF OneEventPerCommand
<1>3. AnswersAreLogged' /\ NoMissingCommandEvent'
  BY DEF AnswersAreLogged, NoMissingCommandEvent, TypeOK, Known, RecordOf
<1>4. ClientKeysOwned' /\ OrphanKeysOwned'
  BY DEF ClientKeysOwned, OrphanKeysOwned, TypeOK, Holds, KeyOf, Known
<1>5. ClientSeqsOwned' /\ OrphanSeqsOwned'
  BY DEF ClientSeqsOwned, OrphanSeqsOwned, TypeOK, Orphan
<1>6. WinnerLogged'
  BY DEF WinnerLogged, TypeOK, KeyOf, Known
<1> QED  BY <1>1, <1>2, <1>3, <1>4, <1>5, <1>6

(* WinnerLogged: the other outcome of the second lookup is dead code.      *)
LEMMA LookUpAgainStep ==
    ASSUME IInv, NEW c \in Clients, LookUpAgain(c)
    PROVE  IInv'
<1>1. Known(KeyOf(c))
  BY DEF IInv, LookUpAgain, WinnerLogged
<1> QED  BY <1>1, ReplayStep DEF LookUpAgain, KeyOf

LEMMA ReturnStep ==
    ASSUME IInv, NEW c \in Clients, Return(c)
    PROVE  IInv'
<1> USE DEF IInv, Return, Goto, database
<1>1. TypeOK'
  BY DEF TypeOK, Labels
<1>2. OneEventPerCommand'
  BY DEF OneEventPerCommand
<1>3. AnswersAreLogged' /\ NoMissingCommandEvent'
  BY DEF AnswersAreLogged, NoMissingCommandEvent, TypeOK, Known, RecordOf
<1>4. ClientKeysOwned' /\ OrphanKeysOwned'
  BY DEF ClientKeysOwned, OrphanKeysOwned, TypeOK, Holds, KeyOf, Known
<1>5. ClientSeqsOwned' /\ OrphanSeqsOwned'
  BY DEF ClientSeqsOwned, OrphanSeqsOwned
<1>6. WinnerLogged'
  BY DEF WinnerLogged, TypeOK, KeyOf, Known
<1> QED  BY <1>1, <1>2, <1>3, <1>4, <1>5, <1>6

-------------------------------------------------------------------------------
(* Failures.                                                               *)

(* What a call leaves behind: its key and its seq change hands.            *)
LEMMA OrphanedProperties ==
    ASSUME IInv, NEW c \in Clients, Orphaned(c)
    PROVE  /\ \A o \in orphans' :
                 o \in orphans \/ ( /\ pc[c] = "commit" /\ o \in Orphan
                                    /\ o.command_id = KeyOf(c)
                                    /\ o.seq = seq[c] /\ seq[c] # 0 )
           /\ \A o, q \in orphans' :
                 o \in orphans \/ q \in orphans \/ o = q
           /\ \A o \in orphans' : o \in Orphan /\ o.seq < next_seq
<1> USE DEF IInv
<1>1. CASE pc[c] # "commit"
  BY <1>1 DEF Orphaned, TypeOK
<1>2. CASE pc[c] = "commit"
  <2>1. PICK slot \in BOOLEAN :
            orphans' = orphans \cup {[command_id |-> request[c].command_id,
                                      event |-> request[c].event,
                                      seq |-> seq[c], slot |-> slot]}
    BY <1>2 DEF Orphaned
  <2>2. /\ request[c].command_id \in CommandIds /\ request[c].event \in Events
        /\ seq[c] \in 1 .. MaxSeq /\ seq[c] < next_seq
    BY <1>2, GivenSeqs DEF TypeOK, Request
  <2> QED  BY <1>2, <2>1, <2>2 DEF TypeOK, Orphan, KeyOf
<1> QED  BY <1>1, <1>2

(* A call that is given up, whatever its caller is told.                   *)
LEMMA GivenUp ==
    ASSUME IInv, NEW c \in Clients, pc[c] \notin {"idle", "done"}, Orphaned(c),
           NEW label \in {"idle", "done"}, Goto(c, label),
           \A d \in Clients \ {c} : request'[d] = request[d],
           seq' = [seq EXCEPT ![c] = 0], UNCHANGED <<database, next_seq>>
    PROVE  /\ OneEventPerCommand'
           /\ ClientKeysOwned' /\ OrphanKeysOwned'
           /\ ClientSeqsOwned' /\ OrphanSeqsOwned' /\ WinnerLogged'
<1> USE DEF IInv, database
<1>1. /\ pc' = [pc EXCEPT ![c] = label] /\ ~ Holds(c)'
      /\ \A d \in Clients \ {c} : pc'[d] = pc[d] /\ KeyOf(d)' = KeyOf(d)
      /\ \A d \in Clients : Holds(d)' => d # c /\ Holds(d)
  BY DEF Goto, TypeOK, Holds, KeyOf
<1>2. OneEventPerCommand'
  BY DEF OneEventPerCommand
<1>3. ClientKeysOwned'
  BY <1>1 DEF ClientKeysOwned, Known
<1>4. OrphanKeysOwned'
  BY <1>1, OrphanedProperties DEF ClientKeysOwned, OrphanKeysOwned, Known, Holds
<1>5. ClientSeqsOwned'
  BY DEF ClientSeqsOwned, TypeOK
<1>6. OrphanSeqsOwned'
  BY OrphanedProperties DEF OrphanSeqsOwned, ClientSeqsOwned, TypeOK, Orphan
<1>7. WinnerLogged'
  BY <1>1 DEF WinnerLogged, TypeOK, Known
<1> QED  BY <1>2, <1>3, <1>4, <1>5, <1>6, <1>7

LEMMA DropStep ==
    ASSUME IInv, NEW c \in Clients, Drop(c)
    PROVE  IInv'
<1> USE DEF IInv
<1>1. /\ \A d \in Clients \ {c} : request'[d] = request[d]
      /\ pc' = [pc EXCEPT ![c] = "idle"] /\ seq' = [seq EXCEPT ![c] = 0]
      /\ request' \in [Clients -> Request \cup {NoRequest}]
      /\ UNCHANGED <<event_log, command_log, next_seq, answer>>
  BY DEF Drop, Goto, database, TypeOK
<1>2. /\ OneEventPerCommand' /\ ClientKeysOwned' /\ OrphanKeysOwned'
      /\ ClientSeqsOwned' /\ OrphanSeqsOwned' /\ WinnerLogged'
  BY <1>1, GivenUp DEF Drop
<1>3. \A o \in orphans' : o \in Orphan /\ o.seq < next_seq
  BY OrphanedProperties DEF Drop
<1>4. TypeOK'
  BY <1>1, <1>3 DEF TypeOK, Labels
<1>5. AnswersAreLogged' /\ NoMissingCommandEvent'
  BY <1>1 DEF AnswersAreLogged, NoMissingCommandEvent, TypeOK, Known, RecordOf
<1> QED  BY <1>2, <1>4, <1>5

LEMMA FailStep ==
    ASSUME IInv, NEW c \in Clients, Fail(c)
    PROVE  IInv'
<1> USE DEF IInv
<1>1. /\ pc' = [pc EXCEPT ![c] = "done"] /\ seq' = [seq EXCEPT ![c] = 0]
      /\ answer' = [answer EXCEPT ![c] = Err("Database")] /\ pc[c] # "idle"
      /\ UNCHANGED <<event_log, command_log, next_seq, request>>
  BY DEF Fail, Finish, Goto, database
<1>2. /\ OneEventPerCommand' /\ ClientKeysOwned' /\ OrphanKeysOwned'
      /\ ClientSeqsOwned' /\ OrphanSeqsOwned' /\ WinnerLogged'
  BY <1>1, GivenUp DEF Fail, Finish
<1>3. \A o \in orphans' : o \in Orphan /\ o.seq < next_seq
  BY OrphanedProperties DEF Fail
<1>4. Err("Database") \in Answers /\ Err("Database").result = "Database"
  BY DEF Answers, Err
<1>5. TypeOK'
  BY <1>1, <1>3, <1>4, FinishTypes DEF Fail
<1>6. AnswersAreLogged' /\ NoMissingCommandEvent'
  BY <1>1, <1>4 DEF AnswersAreLogged, NoMissingCommandEvent, TypeOK, Known, RecordOf
<1> QED  BY <1>2, <1>5, <1>6

LEMMA SeqExhaustedStep ==
    ASSUME IInv, NEW c \in Clients, SeqExhausted(c)
    PROVE  IInv'
<1> USE DEF IInv
<1>1. /\ pc' = [pc EXCEPT ![c] = "done"] /\ seq' = [seq EXCEPT ![c] = 0]
      /\ answer' = [answer EXCEPT ![c] = Err("Database")] /\ pc[c] = "insertEvent"
      /\ UNCHANGED <<event_log, command_log, next_seq, request, orphans>>
  BY DEF SeqExhausted, Finish, Goto, database
<1>2. /\ OneEventPerCommand' /\ ClientKeysOwned' /\ OrphanKeysOwned'
      /\ ClientSeqsOwned' /\ OrphanSeqsOwned' /\ WinnerLogged'
  BY <1>1, GivenUp DEF SeqExhausted, Finish, Orphaned
<1>3. Err("Database") \in Answers /\ Err("Database").result = "Database"
  BY DEF Answers, Err
<1>4. TypeOK'
  BY <1>1, <1>3, FinishTypes DEF SeqExhausted, TypeOK
<1>5. AnswersAreLogged' /\ NoMissingCommandEvent'
  BY <1>1, <1>3 DEF AnswersAreLogged, NoMissingCommandEvent, TypeOK, Known, RecordOf
<1> QED  BY <1>2, <1>4, <1>5

(* An orphan commits: its rows appear, and what it owned is in the log.    *)
LEMMA OrphanCommitsStep ==
    ASSUME IInv, NEW o \in orphans, OrphanCommits(o)
    PROVE  IInv'
<1> USE DEF IInv
<1>0. /\ o.seq \in 1 .. (next_seq - 1) /\ o.command_id \in CommandIds /\ o.event \in Events
      /\ o.seq \notin DOMAIN event_log /\ ~ Known(o.command_id)
  BY DEF TypeOK, Orphan, OrphanSeqsOwned, OrphanKeysOwned
<1>1. PICK row \in 1 .. (next_seq - 1), id \in CommandIds, event \in Events :
          row = o.seq /\ id = o.command_id /\ event = o.event
  BY <1>0
<1>2. /\ CommitRows(row, id, event) /\ row \notin DOMAIN event_log /\ ~ Known(id)
      /\ orphans' = orphans \ {o}
      /\ UNCHANGED <<next_seq, pc, request, seq, answer>>
  BY <1>0, <1>1 DEF OrphanCommits
<1>3. /\ \A q \in orphans' : q \in orphans /\ q.command_id # id /\ q.seq # row
      /\ \A c \in Clients : seq[c] # row
      /\ \A c \in Clients : Holds(c) => KeyOf(c) # id
  BY <1>1, <1>2 DEF OrphanKeysOwned, OrphanSeqsOwned
<1>4. /\ DOMAIN event_log' = DOMAIN event_log \cup {row}
      /\ DOMAIN event_log' \subseteq 1 .. (next_seq' - 1)
      /\ event_log' \in [DOMAIN event_log' -> Events]
      /\ DOMAIN command_log' = DOMAIN command_log \cup {id}
      /\ DOMAIN command_log' \subseteq CommandIds
      /\ command_log' \in [DOMAIN command_log' -> 1 .. (next_seq' - 1)]
      /\ OneEventPerCommand'
      /\ \A k \in DOMAIN command_log :
            /\ Known(k)' /\ command_log'[k] = command_log[k]
            /\ command_log'[k] \in DOMAIN event_log'
            /\ RecordOf(k)' = RecordOf(k)
  BY <1>2, CommitRowsProperties
<1>5. TypeOK'
  BY <1>2, <1>3, <1>4 DEF TypeOK
<1>6. AnswersAreLogged'
  <2> SUFFICES ASSUME NEW c \in Clients, pc[c] = "done", answer[c].result = "Ok",
                      NEW k, k = request[c].command_id
               PROVE  /\ Known(k)' /\ command_log'[k] \in DOMAIN event_log'
                      /\ answer[c].record = RecordOf(k)'
    BY <1>2 DEF AnswersAreLogged, Known, RecordOf
  <2>1. k \in DOMAIN command_log /\ answer[c].record = RecordOf(k)
    BY DEF AnswersAreLogged, Known
  <2> QED  BY ONLY <2>1, <1>4
<1>7. NoMissingCommandEvent'
  BY <1>2, <1>4 DEF NoMissingCommandEvent
<1>8. ClientKeysOwned'
  BY <1>2, <1>3, <1>4 DEF ClientKeysOwned, Holds, KeyOf, Known
<1>9. OrphanKeysOwned'
  BY <1>2, <1>3, <1>4 DEF OrphanKeysOwned, Holds, KeyOf, Known
<1>10. ClientSeqsOwned' /\ OrphanSeqsOwned'
  BY <1>2, <1>3, <1>4 DEF ClientSeqsOwned, OrphanSeqsOwned
<1>11. WinnerLogged'
  BY <1>2, <1>4 DEF WinnerLogged, KeyOf, Known
<1> QED  BY <1>4, <1>5, <1>6, <1>7, <1>8, <1>9, <1>10, <1>11

LEMMA OrphanAbortsStep ==
    ASSUME IInv, NEW o \in orphans, OrphanAborts(o)
    PROVE  IInv'
<1> USE DEF IInv, OrphanAborts, database
<1>1. TypeOK'
  BY DEF TypeOK
<1>2. OneEventPerCommand' /\ AnswersAreLogged' /\ NoMissingCommandEvent' /\ WinnerLogged'
  BY DEF OneEventPerCommand, AnswersAreLogged, NoMissingCommandEvent, WinnerLogged,
         Known, RecordOf, KeyOf
<1>3. ClientKeysOwned' /\ OrphanKeysOwned'
  BY DEF ClientKeysOwned, OrphanKeysOwned, Holds, KeyOf, Known
<1>4. ClientSeqsOwned' /\ OrphanSeqsOwned'
  BY DEF ClientSeqsOwned, OrphanSeqsOwned
<1> QED  BY <1>1, <1>2, <1>3, <1>4

-------------------------------------------------------------------------------
(* The theorems.                                                           *)

LEMMA NextStep == IInv /\ [Next]_vars => IInv'
<1> SUFFICES ASSUME IInv, [Next]_vars PROVE IInv'
  OBVIOUS
<1>1. ASSUME NEW c \in Clients, Start(c) PROVE IInv'
  BY <1>1, StartStep
<1>2. ASSUME NEW c \in Clients, Step(c) PROVE IInv'
  BY <1>2, LookUpStep, BeginStep, InsertEventStep, SeqExhaustedStep, InsertCommandStep,
     CommitStep, RollbackStep, LookUpAgainStep, ReturnStep DEF Step
<1>3. ASSUME NEW c \in Clients, Drop(c) PROVE IInv'
  BY <1>3, DropStep
<1>4. ASSUME NEW c \in Clients, Fail(c) PROVE IInv'
  BY <1>4, FailStep
<1>5. CASE OrphanEnds
  BY <1>5, OrphanCommitsStep, OrphanAbortsStep DEF OrphanEnds
<1>6. CASE UNCHANGED vars
  <2> USE <1>6 DEF vars, IInv
  <2>1. TypeOK' /\ OneEventPerCommand'
    BY DEF TypeOK, OneEventPerCommand
  <2>2. AnswersAreLogged' /\ NoMissingCommandEvent'
    BY DEF AnswersAreLogged, NoMissingCommandEvent, Known, RecordOf
  <2>3. ClientKeysOwned' /\ OrphanKeysOwned' /\ WinnerLogged'
    BY DEF ClientKeysOwned, OrphanKeysOwned, WinnerLogged, Holds, KeyOf, Known
  <2>4. ClientSeqsOwned' /\ OrphanSeqsOwned'
    BY DEF ClientSeqsOwned, OrphanSeqsOwned
  <2> QED  BY <2>1, <2>2, <2>3, <2>4
<1> QED  BY <1>1, <1>2, <1>3, <1>4, <1>5, <1>6 DEF Next

(* Open transactions own their keys and seqs in every reachable state.     *)
THEOREM Invariance == Spec => []IInv
BY InitIInv, NextStep, PTL DEF Spec

(* The state of the calls and of the two tables keeps its types.           *)
THEOREM TypeCorrect == Spec => []TypeOK
<1>1. IInv => TypeOK
  BY DEF IInv
<1> QED  BY <1>1, Invariance, PTL

(* The transaction of append_idempotent keeps event_log and command_log in *)
(* one-to-one correspondence, whatever callers race, fail or go away.      *)
THEOREM OneToOne == Spec => []OneEventPerCommand
<1>1. IInv => OneEventPerCommand
  BY DEF IInv
<1> QED  BY <1>1, Invariance, PTL

(* Whoever append_idempotent tells Ok is told what the log holds for the   *)
(* command.                                                                *)
THEOREM AnswersTrue == Spec => []AnswersAreLogged
<1>1. IInv => AnswersAreLogged
  BY DEF IInv
<1> QED  BY <1>1, Invariance, PTL

(* AppendIdempotentError::MissingCommandEvent is never returned.           *)
THEOREM WinnerFound == Spec => []NoMissingCommandEvent
<1>1. IInv => NoMissingCommandEvent
  BY DEF IInv
<1> QED  BY <1>1, Invariance, PTL

-------------------------------------------------------------------------------
(* PostgresEventLog implements IdempotentLog: each step of                 *)
(* pg_append_idempotent is one abstract step or a stutter.  The commit is  *)
(* the abstract insertion, and the lookup that finds the key is the        *)
(* abstract replay; IInv says that the key and the seq of what commits are *)
(* new to the log.                                                         *)

(* Only the call of c changes.                                             *)
LEMMA OneCallChanges ==
    ASSUME NEW c \in Clients,
           \A d \in Clients \ {c} :
              pc'[d] = pc[d] /\ request'[d] = request[d] /\ answer'[d] = answer[d]
    PROVE  Calls' = [Calls EXCEPT ![c] = CallOf(c)']
<1>1. \A d \in Clients \ {c} : CallOf(d)' = CallOf(d)
  BY DEF CallOf
<1> QED  BY <1>1 DEF Calls

LEMMA LogUnchanged ==
    ASSUME UNCHANGED database
    PROVE  UNCHANGED LogOfRecords
BY DEF database, LogOfRecords, RecordOf

LEMMA InitRefines == Init => IL!Init
<1> SUFFICES ASSUME Init PROVE IL!Init
  OBVIOUS
<1>1. LogOfRecords = << >>
  BY DEF Init, LogOfRecords
<1>2. Calls = [c \in Clients |-> IL!NoCall]
  BY DEF Init, Calls, CallOf, IL!NoCall
<1>3. Abandoned = {}
  BY DEF Init, Abandoned
<1> QED  BY <1>1, <1>2, <1>3 DEF IL!Init

-------------------------------------------------------------------------------
(* The steps of a call.                                                    *)

LEMMA StartRefines ==
    ASSUME IInv, NEW c \in Clients, Start(c)
    PROVE  IL!Start(c)
<1>1. PICK r \in Request :
          /\ request' = [request EXCEPT ![c] = r] /\ pc' = [pc EXCEPT ![c] = "lookup"]
          /\ pc[c] = "idle" /\ UNCHANGED <<database, answer, orphans>>
  BY DEF Start, Goto
<1>2. Calls' = [Calls EXCEPT ![c] = CallOf(c)']
  BY <1>1, OneCallChanges DEF IInv, TypeOK
<1>3. Calls[c] = IL!NoCall
  BY <1>1 DEF Calls, CallOf, IL!NoCall
<1>4. CallOf(c)' = IL!Pending(r)
  BY <1>1 DEF CallOf, IInv, TypeOK, IL!Pending
<1>5. UNCHANGED <<LogOfRecords, Abandoned>>
  BY <1>1, LogUnchanged DEF Abandoned
<1> QED  BY <1>2, <1>3, <1>4, <1>5 DEF IL!Start, IL!Request, Request

(* A call whose caller sees nothing yet.                                   *)
LEMMA QuietRefines ==
    ASSUME IInv, NEW c \in Clients, NEW label \in Labels \ {"idle", "done"},
           pc[c] \notin {"idle", "done"}, Goto(c, label),
           UNCHANGED <<database, request, answer, orphans>>
    PROVE  UNCHANGED IL!vars
<1>1. Calls' = [Calls EXCEPT ![c] = CallOf(c)']
  BY OneCallChanges DEF IInv, TypeOK, Goto
<1>2. CallOf(c)' = CallOf(c)
  BY DEF CallOf, IInv, TypeOK, Goto
<1>3. UNCHANGED Calls
  BY <1>1, <1>2 DEF Calls
<1>4. UNCHANGED <<LogOfRecords, Abandoned>>
  BY LogUnchanged DEF Abandoned
<1> QED  BY <1>3, <1>4 DEF IL!vars

(* The log has the key: the call replays its record.                       *)
LEMMA ReplayRefines ==
    ASSUME IInv, NEW c \in Clients, pc[c] \in {"lookup", "relookup"},
           Known(KeyOf(c)), Finish(c, Replayed(KeyOf(c))),
           UNCHANGED <<database, request, orphans>>
    PROVE  IL!Replay(c)
<1>1. Calls' = [Calls EXCEPT ![c] = CallOf(c)']
  BY OneCallChanges DEF IInv, TypeOK, Finish, Goto
<1>2. Calls[c] = [status |-> "pending", request |-> request[c]]
  BY DEF Calls, CallOf
<1>3. LogOfRecords[KeyOf(c)] = RecordOf(KeyOf(c)) /\ KeyOf(c) \in DOMAIN LogOfRecords
  BY DEF LogOfRecords, Known
<1>4. CallOf(c)' = Replayed(KeyOf(c))
  <2>1. pc'[c] = "done" /\ answer'[c] = Replayed(KeyOf(c))
    <3> DEFINE told == Replayed(KeyOf(c))
    <3>1. pc' = [pc EXCEPT ![c] = "done"] /\ answer' = [answer EXCEPT ![c] = told]
      BY DEF Finish, Goto
    <3> HIDE DEF told
    <3>2. pc'[c] = "done" /\ answer'[c] = told
      BY <3>1 DEF IInv, TypeOK
    <3> QED  BY <3>2 DEF told
  <2> QED  BY <2>1 DEF CallOf
<1>5. CallOf(c)' = IL!Ok(LogOfRecords[Calls[c].request.command_id], FALSE)
  <2>1. Calls[c].request.command_id = KeyOf(c)
    BY <1>2 DEF KeyOf
  <2>2. Replayed(KeyOf(c)) = IL!Ok(RecordOf(KeyOf(c)), FALSE)
    BY DEF Replayed, Ok, IL!Ok
  <2> QED  BY <2>1, <2>2, <1>3, <1>4
<1>6. UNCHANGED <<LogOfRecords, Abandoned>>
  BY LogUnchanged DEF Abandoned
<1> QED  BY <1>1, <1>2, <1>3, <1>5, <1>6 DEF IL!Replay, IL!Logged, KeyOf
LEMMA LookUpRefines ==
    ASSUME IInv, NEW c \in Clients, LookUp(c)
    PROVE  IL!Replay(c) \/ UNCHANGED IL!vars
<1>1. CASE Known(KeyOf(c))
  BY <1>1, ReplayRefines DEF LookUp, KeyOf
<1>2. CASE ~ Known(KeyOf(c))
  BY <1>2, QuietRefines DEF LookUp, KeyOf, Labels
<1> QED  BY <1>1, <1>2

-------------------------------------------------------------------------------
(* The steps that write the log.                                           *)

(* The log gets the record of a new key; the record's seq is new.          *)
LogIncludes(id, record) ==
    /\ id \notin DOMAIN LogOfRecords
    /\ \A k \in DOMAIN LogOfRecords : LogOfRecords[k].seq # record.seq
    /\ LogOfRecords' = [k \in DOMAIN LogOfRecords \cup {id} |->
                           IF k = id THEN record ELSE LogOfRecords[k]]

LEMMA CommitLogs ==
    ASSUME IInv,
           NEW row \in 1 .. (next_seq - 1), NEW id \in CommandIds, NEW event \in Events,
           row \notin DOMAIN event_log, ~ Known(id),
           CommitRows(row, id, event), next_seq' = next_seq
    PROVE  LogIncludes(id, [seq |-> row, event |-> event])
<1>1. /\ DOMAIN command_log' = DOMAIN command_log \cup {id}
      /\ RecordOf(id)' = [seq |-> row, event |-> event]
      /\ \A k \in DOMAIN command_log : RecordOf(k)' = RecordOf(k)
  BY CommitRowsProperties DEF IInv
<1>2. id \notin DOMAIN LogOfRecords /\ DOMAIN LogOfRecords = DOMAIN command_log
  BY DEF LogOfRecords, Known
<1>3. \A k \in DOMAIN LogOfRecords : LogOfRecords[k].seq # row
  BY DEF LogOfRecords, RecordOf, IInv, OneEventPerCommand
<1>4. LogOfRecords' = [k \in DOMAIN LogOfRecords \cup {id} |->
                          IF k = id THEN [seq |-> row, event |-> event] ELSE LogOfRecords[k]]
  BY <1>1, <1>2 DEF LogOfRecords
<1> QED  BY <1>2, <1>3, <1>4 DEF LogIncludes

LEMMA CommitRefines ==
    ASSUME IInv, NEW c \in Clients, Commit(c)
    PROVE  IL!Insert(c)
<1> USE DEF IInv
<1>1. PICK row \in 1 .. (next_seq - 1), id \in CommandIds, event \in Events :
          row = seq[c] /\ id = KeyOf(c) /\ event = request[c].event
  BY DEF Commit, TypeOK, Request, KeyOf
<1> DEFINE record == [seq |-> row, event |-> event]
           told   == Ok(record, TRUE)
<1>2. /\ CommitRows(row, id, event) /\ Finish(c, told) /\ pc[c] = "commit"
      /\ UNCHANGED <<next_seq, request, orphans>>
  BY <1>1 DEF Commit, KeyOf
<1>3. row \notin DOMAIN event_log /\ ~ Known(id)
  BY <1>1, <1>2 DEF ClientSeqsOwned, ClientKeysOwned, Holds, TypeOK
<1>4. LogIncludes(id, record)
  BY <1>2, <1>3, CommitLogs
<1>5. pc' = [pc EXCEPT ![c] = "done"] /\ answer' = [answer EXCEPT ![c] = told]
  BY <1>2 DEF Finish, Goto
<1> HIDE DEF told
<1>6. Calls' = [Calls EXCEPT ![c] = CallOf(c)']
  BY <1>2, <1>5, OneCallChanges DEF TypeOK
<1>7. CallOf(c)' = told
  BY <1>5 DEF CallOf, TypeOK
<1>8. told = IL!Ok(record, TRUE)
  BY DEF told, Ok, IL!Ok
<1>9. /\ Calls[c].status = "pending"
      /\ Calls[c].request.command_id = id /\ Calls[c].request.event = event
  BY <1>1, <1>2 DEF Calls, CallOf, KeyOf
<1>10. UNCHANGED Abandoned
  BY <1>2 DEF Abandoned
<1>11. record \in IL!Record
  BY GivenSeqs DEF IL!Record
<1>12. IL!Log(Calls[c].request, record)
  BY <1>4, <1>9 DEF IL!Log, IL!Logged, LogIncludes
<1> QED  BY <1>6, <1>7, <1>8, <1>9, <1>10, <1>11, <1>12 DEF IL!Insert

LEMMA ReturnRefines ==
    ASSUME IInv, NEW c \in Clients, Return(c)
    PROVE  IL!Return(c)
<1>1. Calls' = [Calls EXCEPT ![c] = CallOf(c)']
  BY OneCallChanges DEF Return, Goto, IInv, TypeOK
<1>2. Calls[c].status = "answered"
  BY DEF Return, Calls, CallOf, IInv, TypeOK, Answers, Err
<1>3. CallOf(c)' = IL!NoCall
  BY DEF Return, Goto, CallOf, IL!NoCall, IInv, TypeOK
<1>4. UNCHANGED <<LogOfRecords, Abandoned>>
  BY LogUnchanged DEF Return, Abandoned
<1> QED  BY <1>1, <1>2, <1>3, <1>4 DEF IL!Return

-------------------------------------------------------------------------------
(* Failures.                                                               *)

(* What is left of a given-up call is at most its own request.             *)
LEMMA GivenUpRefines ==
    ASSUME IInv, NEW c \in Clients, pc[c] \notin {"idle", "done"}, Orphaned(c),
           \A d \in Clients \ {c} :
              pc'[d] = pc[d] /\ request'[d] = request[d] /\ answer'[d] = answer[d],
           CallOf(c)' \in {IL!NoCall, IL!Err},
           UNCHANGED database
    PROVE  IL!GiveUp(c)
<1>1. Calls' = [Calls EXCEPT ![c] = CallOf(c)']
  BY OneCallChanges
<1>2. Calls[c] = [status |-> "pending", request |-> request[c]]
  BY DEF Calls, CallOf
<1>3. Abandoned' \in {Abandoned, Abandoned \cup {request[c]}}
  <2>1. CASE pc[c] # "commit"
    BY <2>1 DEF Orphaned, Abandoned
  <2>2. CASE pc[c] = "commit"
    <3> DEFINE left(slot) == [command_id |-> request[c].command_id,
                              event |-> request[c].event,
                              seq |-> seq[c], slot |-> slot]
    <3>1. PICK slot \in BOOLEAN : orphans' = orphans \cup {left(slot)}
      BY <2>2 DEF Orphaned
    <3>2. RequestOf(left(slot)) = request[c]
      BY <2>2 DEF RequestOf, IInv, TypeOK, Request
    <3> HIDE DEF left
    <3> QED  BY <3>1, <3>2 DEF Abandoned
  <2> QED  BY <2>1, <2>2
<1>4. UNCHANGED LogOfRecords
  BY LogUnchanged
<1>5. \E rest \in {IL!NoCall, IL!Err} : Calls' = [Calls EXCEPT ![c] = rest]
  BY <1>1
<1>6. Calls[c].status = "pending" /\ Calls[c].request = request[c]
  BY <1>2
<1>7. Abandoned' \in {Abandoned, Abandoned \cup {Calls[c].request}}
  BY <1>3, <1>6
<1> QED  BY <1>4, <1>5, <1>6, <1>7 DEF IL!GiveUp

LEMMA DropRefines ==
    ASSUME IInv, NEW c \in Clients, Drop(c)
    PROVE  IL!GiveUp(c)
<1>1. CallOf(c)' = IL!NoCall
  BY DEF Drop, Goto, CallOf, IL!NoCall, IInv, TypeOK
<1> QED  BY <1>1, GivenUpRefines DEF Drop, Goto, IInv, TypeOK

LEMMA FailRefines ==
    ASSUME IInv, NEW c \in Clients, Fail(c) \/ SeqExhausted(c)
    PROVE  IL!GiveUp(c)
<1>1. /\ Finish(c, Err("Database")) /\ pc[c] \notin {"idle", "done"}
      /\ Orphaned(c) /\ UNCHANGED <<database, request>>
  BY DEF Fail, SeqExhausted, Orphaned
<1>2. CallOf(c)' = IL!Err
  BY <1>1 DEF Finish, Goto, CallOf, Err, IL!Err, IInv, TypeOK
<1> QED  BY <1>1, <1>2, GivenUpRefines DEF Finish, Goto, IInv, TypeOK

(* The other orphans' requests have other keys.                            *)
LEMMA AbandonedWithout ==
    ASSUME IInv, NEW o \in orphans, orphans' = orphans \ {o}
    PROVE  Abandoned' = Abandoned \ {RequestOf(o)}
<1>1. \A q \in orphans \ {o} : RequestOf(q) # RequestOf(o)
  BY DEF IInv, OrphanKeysOwned, RequestOf
<1> QED  BY <1>1 DEF Abandoned

LEMMA OrphanCommitsRefines ==
    ASSUME IInv, NEW o \in orphans, OrphanCommits(o)
    PROVE  IL!LateInsert(RequestOf(o))
<1>1. PICK row \in 1 .. (next_seq - 1), id \in CommandIds, event \in Events :
          row = o.seq /\ id = o.command_id /\ event = o.event
  BY DEF IInv, TypeOK, Orphan
<1> DEFINE record == [seq |-> row, event |-> event]
<1>2. CommitRows(row, id, event) /\ UNCHANGED <<next_seq, pc, request, answer>>
  BY <1>1 DEF OrphanCommits
<1>3. row \notin DOMAIN event_log /\ ~ Known(id)
  BY <1>1 DEF IInv, OrphanSeqsOwned, OrphanKeysOwned
<1>4. LogIncludes(id, record)
  BY <1>2, <1>3, CommitLogs
<1>5. record \in IL!Record
  BY GivenSeqs DEF IInv, IL!Record
<1>6. RequestOf(o).command_id = id /\ RequestOf(o).event = event
  BY <1>1 DEF RequestOf
<1>7. IL!Log(RequestOf(o), record)
  BY <1>4, <1>6 DEF IL!Log, IL!Logged, LogIncludes
<1>8. UNCHANGED Calls
  BY <1>2 DEF Calls, CallOf
<1>9. Abandoned' = Abandoned \ {RequestOf(o)}
  BY AbandonedWithout DEF OrphanCommits
<1> QED  BY <1>5, <1>7, <1>8, <1>9 DEF IL!LateInsert

LEMMA OrphanAbortsRefines ==
    ASSUME IInv, NEW o \in orphans, OrphanAborts(o)
    PROVE  IL!Forget(RequestOf(o))
<1>1. Abandoned' = Abandoned \ {RequestOf(o)}
  BY AbandonedWithout DEF OrphanAborts
<1>2. UNCHANGED <<LogOfRecords, Calls>>
  BY LogUnchanged DEF OrphanAborts, Calls, CallOf
<1> QED  BY <1>1, <1>2 DEF IL!Forget

-------------------------------------------------------------------------------
LEMMA NextRefines ==
    ASSUME IInv, [Next]_vars
    PROVE  [IL!Next]_(IL!vars)
<1>1. ASSUME NEW c \in Clients, Start(c) PROVE IL!Next
  BY <1>1, StartRefines DEF IL!Next
<1>2. ASSUME NEW c \in Clients, Step(c) PROVE [IL!Next]_(IL!vars)
  <2>1. CASE LookUp(c)
    BY <2>1, LookUpRefines DEF IL!Next
  <2>2. CASE Begin(c) \/ InsertEvent(c) \/ Rollback(c)
    BY <2>2, QuietRefines DEF Begin, InsertEvent, InsertsInTx, Rollback, Labels
  <2>3. CASE InsertCommand(c)
    BY <2>3, QuietRefines DEF InsertCommand, AfterInsertOf, Labels
  <2>4. CASE SeqExhausted(c)
    BY <2>4, FailRefines DEF IL!Next
  <2>5. CASE Commit(c)
    BY <2>5, CommitRefines DEF IL!Next
  <2>6. CASE LookUpAgain(c)
    <3>1. Known(KeyOf(c))
      BY <2>6 DEF IInv, LookUpAgain, WinnerLogged
    <3>2. IL!Replay(c)
      BY <2>6, <3>1, ReplayRefines DEF LookUpAgain, KeyOf
    <3> QED  BY <3>2 DEF IL!Next
  <2>7. CASE Return(c)
    BY <2>7, ReturnRefines DEF IL!Next
  <2> QED  BY <1>2, <2>1, <2>2, <2>3, <2>4, <2>5, <2>6, <2>7 DEF Step
<1>3. ASSUME NEW c \in Clients, Drop(c) \/ Fail(c) PROVE IL!Next
  BY <1>3, DropRefines, FailRefines DEF IL!Next
<1>4. CASE OrphanEnds
  <2>1. PICK o \in orphans : OrphanCommits(o) \/ OrphanAborts(o)
    BY <1>4 DEF OrphanEnds
  <2>2. RequestOf(o) \in Abandoned
    BY DEF Abandoned
  <2> QED  BY <2>1, <2>2, OrphanCommitsRefines, OrphanAbortsRefines DEF IL!Next
<1>5. CASE UNCHANGED vars
  BY <1>5, LogUnchanged DEF vars, IL!vars, database, Calls, CallOf, Abandoned
<1> QED  BY <1>1, <1>2, <1>3, <1>4, <1>5 DEF Next

(* append_idempotent is an atomic idempotent insertion to its callers,     *)
(* however its statements interleave and whatever is dropped or fails.     *)
THEOREM Refinement == Spec => ImplementsIdempotentLog
BY InitRefines, NextRefines, Invariance, PTL DEF Spec, ImplementsIdempotentLog, IL!Spec
===============================================================================
