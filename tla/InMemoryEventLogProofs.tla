------------------------- MODULE InMemoryEventLogProofs -------------------------
(***************************************************************************)
(* InMemoryEventLog implements IdempotentLog, for every set of callers,    *)
(* commands and events and vectors of every length.  IndexSound is         *)
(* inductive with the types: a position once given stays in the vector,    *)
(* and the next one is new.                                                *)
(***************************************************************************)
EXTENDS InMemoryEventLog, TLAPS

IInv == TypeOK /\ IndexSound

-------------------------------------------------------------------------------
(* The vector.                                                             *)

(* What append leaves: the old records where they were, one more behind.   *)
LEMMA VectorGrows ==
    ASSUME IInv, NEW event \in Events, Append_(event)
    PROVE  /\ Appended(event) \in Record /\ Appended(event).seq = Len(records)
           /\ Appended(event).event = event
           /\ records' \in Seq(Record) /\ Len(records') = Len(records) + 1
           /\ DOMAIN records' = 1 .. Len(records) + 1
           /\ \A i \in 1 .. Len(records) : records'[i] = records[i]
           /\ records'[Len(records) + 1] = Appended(event)
<1>1. records \in Seq(Record)
  BY DEF IInv, TypeOK
<1>2. Appended(event) \in Record /\ Appended(event).seq = Len(records)
      /\ Appended(event).event = event
  BY <1>1 DEF Appended, Record
<1> HIDE DEF Appended
<1> QED  BY <1>1, <1>2 DEF Append_

(* Every position the vector had is still its record's seq.                *)
LEMMA PositionsStay ==
    ASSUME IInv, NEW event \in Events, Append_(event)
    PROVE  \A i \in DOMAIN records' : records'[i].seq = i - 1
<1>1. records \in Seq(Record) /\ DOMAIN records = 1 .. Len(records) /\ Len(records) \in Nat
  BY DEF IInv, TypeOK
<1>2. TAKE i \in DOMAIN records'
<1>3. i \in 1 .. Len(records) \/ i = Len(records) + 1
  BY <1>1, <1>2, VectorGrows
<1>4. CASE i \in 1 .. Len(records)
  BY <1>1, <1>4, VectorGrows DEF IInv, IndexSound
<1>5. CASE i = Len(records) + 1
  BY <1>1, <1>5, VectorGrows
<1> QED  BY <1>3, <1>4, <1>5

(* What a key is mapped to lies in the vector.                             *)
LEMMA IndexedRecord ==
    ASSUME IInv, NEW id \in DOMAIN command_index
    PROVE  /\ id \in CommandIds
           /\ command_index[id] \in 0 .. Len(records) - 1
           /\ command_index[id] + 1 \in 1 .. Len(records)
           /\ RecordAt(command_index[id]) \in Record
           /\ RecordAt(command_index[id]).seq = command_index[id]
<1>1. records \in Seq(Record) /\ DOMAIN records = 1 .. Len(records) /\ Len(records) \in Nat
  BY DEF IInv, TypeOK
<1>2. id \in CommandIds /\ command_index[id] \in 0 .. Len(records) - 1
  BY DEF IInv, TypeOK, IndexSound
<1>3. command_index[id] + 1 \in 1 .. Len(records)
  BY <1>1, <1>2
<1>4. records[command_index[id] + 1] \in Record
  BY <1>1, <1>3
<1>5. records[command_index[id] + 1].seq = command_index[id]
  BY <1>1, <1>2, <1>3 DEF IInv, IndexSound
<1> QED  BY <1>2, <1>3, <1>4, <1>5 DEF RecordAt

-------------------------------------------------------------------------------
(* The invariant.                                                          *)

(* What an answered or dropped call leaves alone.                          *)
LEMMA OnlyCallChanges ==
    ASSUME IInv, NEW c \in Clients, NEW call \in Calls,
           calls' = [calls EXCEPT ![c] = call], UNCHANGED <<records, command_index>>
    PROVE  IInv'
BY DEF IInv, TypeOK, IndexSound, Calls, Record, Request

LEMMA AnswerIsCall ==
    ASSUME NEW record \in Record, NEW inserted \in BOOLEAN
    PROVE  Ok(record, inserted) \in Calls
BY DEF Calls

LEMMA PendingCall ==
    ASSUME IInv, NEW c \in Clients, calls[c].status = "pending"
    PROVE  calls[c].request \in Request /\ calls[c] = Pending(calls[c].request)
<1>1. calls[c] \in Calls
  BY DEF IInv, TypeOK
<1>2. PICK request \in Request : calls[c] = Pending(request)
  BY <1>1 DEF Calls, NoCall, Pending, Ok
<1> QED  BY <1>2 DEF Pending

LEMMA StartKeeps == ASSUME IInv, NEW c \in Clients, Start(c) PROVE IInv'
<1>1. PICK request \in Request : calls' = [calls EXCEPT ![c] = Pending(request)]
  BY DEF Start
<1>2. Pending(request) \in Calls
  BY DEF Calls
<1> QED  BY <1>1, <1>2, OnlyCallChanges DEF Start

LEMMA AppendAgainKeeps == ASSUME IInv, NEW c \in Clients, AppendAgain(c) PROVE IInv'
<1> DEFINE id == calls[c].request.command_id
           told == Ok(RecordAt(command_index[id]), FALSE)
<1>1. id \in DOMAIN command_index
  BY DEF AppendAgain, Indexed
<1>2. told \in Calls
  BY <1>1, IndexedRecord, AnswerIsCall
<1>3. calls' = [calls EXCEPT ![c] = told]
  BY DEF AppendAgain
<1> HIDE DEF told
<1> QED  BY <1>2, <1>3, OnlyCallChanges DEF AppendAgain

(* The new key gets the new position, the others keep theirs.              *)
LEMMA IndexGrows ==
    ASSUME IInv, NEW c \in Clients, AppendNew(c)
    PROVE  LET id == calls[c].request.command_id
           IN  /\ id \in CommandIds /\ id \notin DOMAIN command_index
               /\ DOMAIN command_index' = DOMAIN command_index \cup {id}
               /\ command_index'[id] = Len(records)
               /\ \A k \in DOMAIN command_index : command_index'[k] = command_index[k]
<1>1. calls[c].request \in Request
  BY PendingCall DEF AppendNew
<1>2. calls[c].request.command_id \in CommandIds
  BY <1>1 DEF Request
<1> QED  BY <1>2 DEF AppendNew, Indexed, Appended

LEMMA AppendNewKeeps == ASSUME IInv, NEW c \in Clients, AppendNew(c) PROVE IInv'
<1> DEFINE id    == calls[c].request.command_id
           event == calls[c].request.event
           told  == Ok(Appended(event), TRUE)
<1>1. event \in Events /\ Append_(event)
  BY PendingCall DEF AppendNew, Request
<1>2. Len(records) \in Nat
  BY DEF IInv, TypeOK
<1>3. TypeOK'
  <2>1. records' \in Seq(Record)
    BY <1>1, VectorGrows
  <2>2. DOMAIN command_index' \subseteq CommandIds
    BY IndexGrows DEF IInv, TypeOK
  <2>3. calls' \in [Clients -> Calls]
    <3>1. told \in Calls
      BY <1>1, VectorGrows, AnswerIsCall
    <3>2. calls' = [calls EXCEPT ![c] = told]
      BY DEF AppendNew
    <3> HIDE DEF told
    <3> QED  BY <3>1, <3>2 DEF IInv, TypeOK
  <2>4. Calls' = Calls
    BY DEF Calls, Record, Request
  <2> QED  BY <2>1, <2>2, <2>3, <2>4 DEF TypeOK, Record
<1>4. IndexSound'
  <2>1. \A i \in DOMAIN records' : records'[i].seq = i - 1
    BY <1>1, PositionsStay
  <2>2. \A k \in DOMAIN command_index' : command_index'[k] \in 0 .. Len(records') - 1
    <3>1. Len(records') = Len(records) + 1
      BY <1>1, VectorGrows
    <3>2. DOMAIN command_index' = DOMAIN command_index \cup {id}
          /\ command_index'[id] = Len(records)
      BY IndexGrows
    <3>3. \A k \in DOMAIN command_index : command_index'[k] \in 0 .. Len(records) - 1
      BY IndexGrows, IndexedRecord
    <3> QED  BY <1>2, <3>1, <3>2, <3>3
  <2>3. \A j, k \in DOMAIN command_index' : command_index'[j] = command_index'[k] => j = k
    <3>1. \A k \in DOMAIN command_index : command_index'[k] # Len(records)
      <4>1. \A k \in DOMAIN command_index : command_index[k] \in 0 .. Len(records) - 1
        BY IndexedRecord
      <4>2. \A k \in DOMAIN command_index : command_index'[k] = command_index[k]
        BY IndexGrows
      <4> QED  BY <1>2, <4>1, <4>2
    <3>2. \A j, k \in DOMAIN command_index : command_index'[j] = command_index'[k] => j = k
      BY IndexGrows DEF IInv, IndexSound
    <3>3. DOMAIN command_index' = DOMAIN command_index \cup {id}
          /\ command_index'[id] = Len(records)
      BY IndexGrows
    <3> HIDE DEF id
    <3> QED  BY ONLY <3>1, <3>2, <3>3
  <2> QED  BY <2>1, <2>2, <2>3 DEF IndexSound
<1> QED  BY <1>3, <1>4 DEF IInv

LEMMA PlainAppendKeeps == ASSUME IInv, PlainAppend PROVE IInv'
<1>1. PICK event \in Events : Append_(event)
  BY DEF PlainAppend
<1>2. UNCHANGED <<command_index, calls>> /\ Len(records) \in Nat
  BY DEF PlainAppend, IInv, TypeOK
<1>3. TypeOK'
  <2>1. records' \in Seq(Record)
    BY <1>1, VectorGrows
  <2>2. Calls' = Calls /\ Record' = Record
    BY DEF Calls, Record, Request
  <2> QED  BY <1>2, <2>1, <2>2 DEF IInv, TypeOK
<1>4. \A i \in DOMAIN records' : records'[i].seq = i - 1
  BY <1>1, PositionsStay
<1>5. \A id \in DOMAIN command_index : command_index[id] \in 0 .. Len(records') - 1
  <2>1. Len(records') = Len(records) + 1
    BY <1>1, VectorGrows
  <2>2. \A id \in DOMAIN command_index : command_index[id] \in 0 .. Len(records) - 1
    BY IndexedRecord
  <2> QED  BY <1>2, <2>1, <2>2
<1>6. IndexSound'
  BY <1>2, <1>4, <1>5 DEF IInv, IndexSound
<1> QED  BY <1>3, <1>6 DEF IInv

LEMMA InitGivesIInv == Init => IInv
BY DEF Init, IInv, TypeOK, IndexSound, Calls

LEMMA NextKeepsIInv == IInv /\ [Next]_vars => IInv'
<1> SUFFICES ASSUME IInv, [Next]_vars PROVE IInv'
  OBVIOUS
<1>1. ASSUME NEW c \in Clients, Start(c) PROVE IInv'
  BY <1>1, StartKeeps
<1>2. ASSUME NEW c \in Clients, AppendAgain(c) PROVE IInv'
  BY <1>2, AppendAgainKeeps
<1>3. ASSUME NEW c \in Clients, AppendNew(c) PROVE IInv'
  BY <1>3, AppendNewKeeps
<1>4. ASSUME NEW c \in Clients, Drop(c) \/ Return(c) PROVE IInv'
  BY <1>4, OnlyCallChanges DEF Drop, Return, Calls
<1>5. CASE PlainAppend
  BY <1>5, PlainAppendKeeps
<1>6. CASE UNCHANGED vars
  BY <1>6 DEF vars, IInv, TypeOK, IndexSound, Calls, Record, Request
<1> QED  BY <1>1, <1>2, <1>3, <1>4, <1>5, <1>6 DEF Next

LEMMA Invariance == Spec => []IInv
<1>1. Init => IInv
  BY InitGivesIInv
<1>2. IInv /\ [Next]_vars => IInv'
  BY NextKeepsIInv
<1> QED  BY <1>1, <1>2, PTL DEF Spec

(* The index of append_idempotent always points at the record its command  *)
(* was answered with, whatever plain appends come in between: the lookup   *)
(* `self.records[seq as usize]` never panics.                              *)
THEOREM IndexStaysSound == Spec => []IndexSound
<1>1. IInv => IndexSound
  BY DEF IInv
<1> QED  BY <1>1, Invariance, PTL

-------------------------------------------------------------------------------
(* The refinement.                                                         *)

LEMMA InitRefines == Init => IL!Init
BY DEF Init, LogOfRecords, IL!Init, NoCall, IL!NoCall

LEMMA LogUnchanged ==
    ASSUME UNCHANGED <<records, command_index>>
    PROVE  UNCHANGED LogOfRecords
BY DEF LogOfRecords, RecordAt

LEMMA StartRefines == ASSUME IInv, NEW c \in Clients, Start(c) PROVE IL!Start(c)
BY LogUnchanged
DEF Start, IL!Start, NoCall, IL!NoCall, Pending, IL!Pending, Request, IL!Request

LEMMA AppendAgainRefines ==
    ASSUME IInv, NEW c \in Clients, AppendAgain(c)
    PROVE  IL!Replay(c)
<1> DEFINE id == calls[c].request.command_id
<1>1. id \in DOMAIN LogOfRecords /\ LogOfRecords[id] = RecordAt(command_index[id])
  BY DEF AppendAgain, Indexed, LogOfRecords
<1>2. Ok(RecordAt(command_index[id]), FALSE) = IL!Ok(LogOfRecords[id], FALSE)
  BY <1>1 DEF Ok, IL!Ok
<1>3. UNCHANGED LogOfRecords
  BY LogUnchanged DEF AppendAgain
<1> QED  BY <1>1, <1>2, <1>3 DEF AppendAgain, IL!Replay, IL!Logged

(* The records the keys had are still theirs after an append.              *)
LEMMA OldRecordsStay ==
    ASSUME IInv, NEW event \in Events, Append_(event), NEW k \in DOMAIN command_index
    PROVE  records'[command_index[k] + 1] = LogOfRecords[k]
BY IndexedRecord, VectorGrows DEF LogOfRecords, RecordAt

LEMMA AppendNewRefines ==
    ASSUME IInv, NEW c \in Clients, AppendNew(c)
    PROVE  IL!Insert(c)
<1> DEFINE id     == calls[c].request.command_id
           event  == calls[c].request.event
           record == Appended(event)
<1>1. event \in Events /\ Append_(event) /\ Len(records) \in Nat
  BY PendingCall DEF AppendNew, Request, IInv, TypeOK
<1>2. record \in IL!Record /\ record.event = event /\ record.seq = Len(records)
  BY <1>1, VectorGrows DEF Record, IL!Record
<1>3. \A k \in DOMAIN LogOfRecords : LogOfRecords[k].seq # record.seq
  BY <1>1, <1>2, IndexedRecord DEF LogOfRecords
<1>4. id \notin DOMAIN LogOfRecords
  BY IndexGrows DEF LogOfRecords
<1>5. LogOfRecords' = [k \in DOMAIN LogOfRecords \cup {id} |->
                          IF k = id THEN record ELSE LogOfRecords[k]]
  <2> DEFINE new == [k \in DOMAIN LogOfRecords \cup {id} |->
                        IF k = id THEN record ELSE LogOfRecords[k]]
  <2>1. LogOfRecords' = [k \in DOMAIN command_index' |-> records'[command_index'[k] + 1]]
    BY DEF LogOfRecords, RecordAt
  <2>2. DOMAIN command_index' = DOMAIN LogOfRecords \cup {id}
    BY IndexGrows DEF LogOfRecords
  <2>3. records'[command_index'[id] + 1] = record
    BY <1>1, IndexGrows, VectorGrows
  <2>4. \A k \in DOMAIN LogOfRecords : records'[command_index'[k] + 1] = LogOfRecords[k]
    <3>1. DOMAIN LogOfRecords = DOMAIN command_index
      BY DEF LogOfRecords
    <3> QED  BY <1>1, <3>1, IndexGrows, OldRecordsStay
  <2> HIDE DEF record
  <2>5. \A k \in DOMAIN LogOfRecords \cup {id} : records'[command_index'[k] + 1] = new[k]
    BY <1>4, <2>3, <2>4
  <2> QED  BY <2>1, <2>2, <2>5
<1>6. calls' = [calls EXCEPT ![c] = IL!Ok(record, TRUE)] /\ calls[c].status = "pending"
  BY DEF AppendNew, Ok, IL!Ok
<1> HIDE DEF record
<1> QED  BY <1>2, <1>3, <1>4, <1>5, <1>6 DEF IL!Insert, IL!Log, IL!Logged

LEMMA DropRefines == ASSUME IInv, NEW c \in Clients, Drop(c) PROVE IL!GiveUp(c)
BY LogUnchanged DEF Drop, IL!GiveUp, NoCall, IL!NoCall

LEMMA ReturnRefines == ASSUME IInv, NEW c \in Clients, Return(c) PROVE IL!Return(c)
BY LogUnchanged DEF Return, IL!Return, NoCall, IL!NoCall

(* A plain append shows in no key's record.                                *)
LEMMA PlainAppendStutters == ASSUME IInv, PlainAppend PROVE UNCHANGED IL!vars
<1>1. PICK event \in Events : Append_(event)
  BY DEF PlainAppend
<1>2. \A k \in DOMAIN command_index : records'[command_index[k] + 1] = LogOfRecords[k]
  BY <1>1, OldRecordsStay
<1>3. LogOfRecords' = LogOfRecords
  BY <1>2 DEF LogOfRecords, RecordAt, PlainAppend
<1> QED  BY <1>3 DEF PlainAppend, IL!vars

LEMMA NextRefines == IInv /\ [Next]_vars => [IL!Next]_(IL!vars)
<1> SUFFICES ASSUME IInv, [Next]_vars PROVE [IL!Next]_(IL!vars)
  OBVIOUS
<1>1. ASSUME NEW c \in Clients, Start(c) PROVE IL!Next
  BY <1>1, StartRefines DEF IL!Next
<1>2. ASSUME NEW c \in Clients, AppendAgain(c) PROVE IL!Next
  BY <1>2, AppendAgainRefines DEF IL!Next
<1>3. ASSUME NEW c \in Clients, AppendNew(c) PROVE IL!Next
  BY <1>3, AppendNewRefines DEF IL!Next
<1>4. ASSUME NEW c \in Clients, Drop(c) PROVE IL!Next
  BY <1>4, DropRefines DEF IL!Next
<1>5. ASSUME NEW c \in Clients, Return(c) PROVE IL!Next
  BY <1>5, ReturnRefines DEF IL!Next
<1>6. CASE PlainAppend
  BY <1>6, PlainAppendStutters
<1>7. CASE UNCHANGED vars
  BY <1>7, LogUnchanged DEF vars, IL!vars
<1> QED  BY <1>1, <1>2, <1>3, <1>4, <1>5, <1>6, <1>7 DEF Next

(* The in-memory append_idempotent refines the atomic idempotent log: the  *)
(* call that finds its key replays, the one that does not inserts, a       *)
(* dropped call is given up without effect, a plain append is a stutter.   *)
THEOREM Refinement == Spec => ImplementsIdempotentLog
<1>1. Init => IL!Init
  BY InitRefines
<1>2. IInv /\ [Next]_vars => [IL!Next]_(IL!vars)
  BY NextRefines
<1> QED  BY <1>1, <1>2, Invariance, PTL DEF Spec, ImplementsIdempotentLog, IL!Spec
===============================================================================
