--------------------------- MODULE InMemoryEventLog ---------------------------
(***************************************************************************)
(* The in-memory event log, the backend of the handler's tests.            *)
(* Source: crates/event_log/src/lib.rs, InMemoryEventLog.                  *)
(*                                                                         *)
(* append_idempotent is async by its trait but awaits nothing: once it is  *)
(* polled it runs to its answer.  A call can be dropped before that.  The  *)
(* plain append of AppendOnlyLog writes to the same vector without a key.  *)
(* Positions are those of the code's Vec, from 0; TLA+ sequences start     *)
(* at 1.  A vector is far from 2^64 records, so seq has no width here.     *)
(***************************************************************************)
EXTENDS Naturals, Sequences

CONSTANTS
    Clients,      \* callers, one after the other by `&mut self`
    CommandIds,
    Events

VARIABLES
    records,         \* the vector
    command_index,   \* command id -> seq
    calls            \* per client: no call, a future not yet polled, an answer

vars == <<records, command_index, calls>>

Request == [command_id: CommandIds, event: Events]
Record  == [seq: Nat, event: Events]

NoCall           == [status |-> "idle"]
Pending(request) == [status |-> "pending", request |-> request]
Ok(record, inserted) ==
    [status |-> "answered", result |-> "Ok", record |-> record, inserted |-> inserted]

Init ==
    /\ records = << >>
    /\ command_index = << >>
    /\ calls = [c \in Clients |-> NoCall]

(* self.records[seq as usize]                                              *)
RecordAt(seq) == records[seq + 1]

Indexed(id) == id \in DOMAIN command_index

(* append: the seq is the position in the vector.                          *)
Appended(event) == [seq |-> Len(records), event |-> event]

Append_(event) == records' = Append(records, Appended(event))

(* The future is made; nothing runs before it is polled.                   *)
Start(c) ==
    /\ calls[c] = NoCall
    /\ \E request \in Request : calls' = [calls EXCEPT ![c] = Pending(request)]
    /\ UNCHANGED <<records, command_index>>

(* The command is known: the record of its first time.                     *)
AppendAgain(c) ==
    LET id == calls[c].request.command_id
    IN  /\ calls[c].status = "pending"
        /\ Indexed(id)
        /\ calls' = [calls EXCEPT ![c] = Ok(RecordAt(command_index[id]), FALSE)]
        /\ UNCHANGED <<records, command_index>>

(* The command is new.                                                     *)
AppendNew(c) ==
    LET id    == calls[c].request.command_id
        event == calls[c].request.event
    IN  /\ calls[c].status = "pending"
        /\ ~ Indexed(id)
        /\ Append_(event)
        /\ command_index' = [k \in DOMAIN command_index \cup {id} |->
                                IF k = id THEN Appended(event).seq ELSE command_index[k]]
        /\ calls' = [calls EXCEPT ![c] = Ok(Appended(event), TRUE)]

Drop(c) ==
    /\ calls[c].status = "pending"
    /\ calls' = [calls EXCEPT ![c] = NoCall]
    /\ UNCHANGED <<records, command_index>>

Return(c) ==
    /\ calls[c].status = "answered"
    /\ calls' = [calls EXCEPT ![c] = NoCall]
    /\ UNCHANGED <<records, command_index>>

(* AppendOnlyLog::append.                                                  *)
PlainAppend ==
    /\ \E event \in Events : Append_(event)
    /\ UNCHANGED <<command_index, calls>>

Next ==
    \/ \E c \in Clients : Start(c) \/ AppendAgain(c) \/ AppendNew(c) \/ Drop(c) \/ Return(c)
    \/ PlainAppend

Spec == Init /\ [][Next]_vars

-------------------------------------------------------------------------------
(* Properties.                                                             *)

Calls == {NoCall} \cup {Pending(request) : request \in Request}
             \cup {Ok(record, inserted) : record \in Record, inserted \in BOOLEAN}

TypeOK ==
    /\ records \in Seq(Record)
    /\ DOMAIN command_index \subseteq CommandIds
    /\ calls \in [Clients -> Calls]

(* seq is the position, also when plain appends come in between: the index *)
(* points into the vector (records[seq] does not panic) and no two         *)
(* commands share a record.                                                *)
IndexSound ==
    /\ \A i \in DOMAIN records : records[i].seq = i - 1
    /\ \A id \in DOMAIN command_index : command_index[id] \in 0 .. Len(records) - 1
    /\ \A j, k \in DOMAIN command_index : command_index[j] = command_index[k] => j = k

LogOfRecords == [id \in DOMAIN command_index |-> RecordAt(command_index[id])]

IL == INSTANCE IdempotentLog
        WITH Seqs <- Nat, log <- LogOfRecords, abandoned <- {}

(* What the handler's tests run on is the same abstract log that Postgres  *)
(* implements; nothing that is dropped takes effect here.                  *)
ImplementsIdempotentLog == IL!Spec
===============================================================================
