--------------------------- MODULE PostgresEventLog ---------------------------
(***************************************************************************)
(* pg_append_idempotent, one step per statement it awaits, on a database   *)
(* in READ COMMITTED.  Source: crates/event_log/src/lib.rs and its schema. *)
(*                                                                         *)
(* Clients are concurrent callers: the log is a clonable handle on a pool, *)
(* and several processes may share the database.  The database side is     *)
(* external and modelled as the code relies on it: BIGSERIAL never gives a *)
(* number twice and never takes one back; the primary key of command_log   *)
(* makes an INSERT wait for an open transaction that holds the same key,   *)
(* then fail with 23505 if that one committed; a transaction's rows appear *)
(* all together or not at all.                                             *)
(*                                                                         *)
(* A caller's future may be dropped at any await (its client disconnected, *)
(* or its process died), and any statement may fail.  A transaction given  *)
(* up before COMMIT was sent is rolled back; one whose COMMIT may be under *)
(* way becomes an orphan: it commits or aborts later, unobserved.          *)
(***************************************************************************)
EXTENDS Naturals, FiniteSets

CONSTANTS
    Clients,
    CommandIds,
    Events,
    PoolSize,     \* connections of the pool
    MaxSeq,       \* bound: the last number of the BIGSERIAL
    None          \* no value

ASSUME PostgresEventLogAssumption ==
    /\ PoolSize \in Nat \ {0}
    /\ MaxSeq \in Nat
    /\ None \notin Events

VARIABLES
    event_log,    \* committed rows: seq -> event
    command_log,  \* committed rows: command_id -> event_seq
    next_seq,     \* the BIGSERIAL of event_log
    pc,           \* what each client awaits
    request,      \* the arguments of its call
    seq,          \* the row its transaction inserted into event_log
    answer,       \* what its call returned
    orphans       \* transactions nobody waits for

database == <<event_log, command_log>>
vars == <<event_log, command_log, next_seq, pc, request, seq, answer, orphans>>

Request == [command_id: CommandIds, event: Events]
Record  == [seq: 1 .. MaxSeq, event: Events]
Orphan  == [command_id: CommandIds, event: Events, seq: 1 .. MaxSeq, slot: BOOLEAN]

Ok(record, inserted) ==
    [status |-> "answered", result |-> "Ok", record |-> record, inserted |-> inserted]
Err(error) == [status |-> "answered", result |-> error]

NoRequest == [command_id |-> None, event |-> None]

Init ==
    /\ event_log = << >>
    /\ command_log = << >>
    /\ next_seq = 1
    /\ pc = [c \in Clients |-> "idle"]
    /\ request = [c \in Clients |-> NoRequest]
    /\ seq = [c \in Clients |-> 0]
    /\ answer = [c \in Clients |-> None]
    /\ orphans = {}

-------------------------------------------------------------------------------
(* The pool.                                                               *)

(* Where a call holds a connection from one await to the next.  The second *)
(* lookup comes after the rollback has given the connection back.          *)
KeepsConnectionToLookUp == {"insertEvent", "insertCommand", "commit", "rollback", "relookup"} \* mutant

InTransaction == {"insertEvent", "insertCommand", "commit", "rollback"}

InUse == Cardinality({c \in Clients : pc[c] \in InTransaction})
             + Cardinality({o \in orphans : o.slot})

ConnectionFree == InUse < PoolSize

-------------------------------------------------------------------------------
Goto(c, label) == pc' = [pc EXCEPT ![c] = label]

Finish(c, result) ==
    /\ Goto(c, "done")
    /\ answer' = [answer EXCEPT ![c] = result]
    /\ seq' = [seq EXCEPT ![c] = 0]

RecordOf(id) == [seq |-> command_log[id], event |-> event_log[command_log[id]]]

Known(id) == id \in DOMAIN command_log

ReplayedAsInserted(id) == Ok(RecordOf(id), TRUE)                   \* mutant

(* The answer of a retry.                                                  *)
Replayed(id) == Ok(RecordOf(id), FALSE)

(* Rows that appear when a transaction commits.                            *)
Row(map, key, value) ==
    [k \in DOMAIN map \cup {key} |-> IF k = key THEN value ELSE map[k]]

CommitRows(row, id, event) ==
    /\ event_log' = Row(event_log, row, event)
    /\ command_log' = Row(command_log, id, row)

(* append_idempotent is called.                                            *)
Start(c) ==
    /\ pc[c] = "idle"
    /\ \E r \in Request : request' = [request EXCEPT ![c] = r]
    /\ Goto(c, "lookup")
    /\ UNCHANGED <<database, next_seq, seq, answer, orphans>>

(* lookup_command_event: the fast path of a retry.                         *)
LookUp(c) ==
    LET id == request[c].command_id
    IN  /\ pc[c] = "lookup"
        /\ ConnectionFree
        /\ IF Known(id)
           THEN Finish(c, Replayed(id))
           ELSE Goto(c, "begin") /\ UNCHANGED <<seq, answer>>
        /\ UNCHANGED <<database, next_seq, request, orphans>>

Begin(c) ==
    /\ pc[c] = "begin"
    /\ ConnectionFree
    /\ Goto(c, "insertEvent")
    /\ UNCHANGED <<database, next_seq, request, seq, answer, orphans>>

AfterNextvalStuck == next_seq                                      \* mutant

(* A number taken from the sequence is gone, even if the row is not kept.  *)
AfterNextval == next_seq + 1

InsertsOutsideTx(c) ==                                             \* mutant
    event_log' = Row(event_log, next_seq, request[c].event) /\ UNCHANGED command_log

(* The row is the transaction's own until it commits.                      *)
InsertsInTx(c) == UNCHANGED database

(* append_in_tx.                                                           *)
InsertEvent(c) ==
    /\ pc[c] = "insertEvent"
    /\ next_seq <= MaxSeq
    /\ seq' = [seq EXCEPT ![c] = next_seq]
    /\ next_seq' = AfterNextval
    /\ Goto(c, "insertCommand")
    /\ InsertsInTx(c)
    /\ UNCHANGED <<request, answer, orphans>>

(* The sequence has no number left: nextval fails, and with it the call.   *)
SeqExhausted(c) ==
    /\ pc[c] = "insertEvent"
    /\ next_seq > MaxSeq
    /\ Finish(c, Err("Database"))
    /\ UNCHANGED <<database, next_seq, request, orphans>>

(* Some open transaction has inserted the key.                             *)
KeyHeld(id) ==
    \/ \E d \in Clients : pc[d] = "commit" /\ request[d].command_id = id
    \/ \E o \in orphans : o.command_id = id

NoConflict(id) == IF KeyHeld(id) THEN {} ELSE {"commit"}           \* mutant

NoWait(id) == IF KeyHeld(id) \/ Known(id) THEN {"rollback"} ELSE {"commit"}  \* mutant

(* Where the INSERT of a key leads, nowhere as long as it waits.           *)
AfterInsertOf(id) ==
    IF KeyHeld(id) THEN {} ELSE IF Known(id) THEN {"rollback"} ELSE {"commit"}

(* The INSERT into command_log waits while another transaction holds the   *)
(* key; 23505 leads to the rollback.                                       *)
InsertCommand(c) ==
    /\ pc[c] = "insertCommand"
    /\ \E label \in AfterInsertOf(request[c].command_id) : Goto(c, label)
    /\ UNCHANGED <<database, next_seq, request, seq, answer, orphans>>

Commit(c) ==
    /\ pc[c] = "commit"
    /\ CommitRows(seq[c], request[c].command_id, request[c].event)
    /\ Finish(c, Ok([seq |-> seq[c], event |-> request[c].event], TRUE))
    /\ UNCHANGED <<next_seq, request, orphans>>

Rollback(c) ==
    /\ pc[c] = "rollback"
    /\ Goto(c, "relookup")
    /\ seq' = [seq EXCEPT ![c] = 0]
    /\ UNCHANGED <<database, next_seq, request, answer, orphans>>

(* The command that won is looked up: it must be there.                    *)
LookUpAgain(c) ==
    LET id == request[c].command_id
    IN  /\ pc[c] = "relookup"
        /\ ConnectionFree
        /\ Finish(c, IF Known(id) THEN Replayed(id)
                     ELSE Err("MissingCommandEvent"))
        /\ UNCHANGED <<database, next_seq, request, orphans>>

(* The answer reaches the caller.                                          *)
Return(c) ==
    /\ pc[c] = "done"
    /\ Goto(c, "idle")
    /\ request' = [request EXCEPT ![c] = NoRequest]
    /\ answer' = [answer EXCEPT ![c] = None]
    /\ UNCHANGED <<database, next_seq, seq, orphans>>

Step(c) ==
    LookUp(c) \/ Begin(c) \/ InsertEvent(c) \/ SeqExhausted(c) \/ InsertCommand(c)
        \/ Commit(c) \/ Rollback(c) \/ LookUpAgain(c) \/ Return(c)

-------------------------------------------------------------------------------
(* Failures.                                                               *)

(* What is left of a call that is given up: nothing before its COMMIT may  *)
(* have been sent, else an orphan, which keeps its place in the pool or    *)
(* not (a connection that broke does not).                                 *)
Orphaned(c) ==
    IF pc[c] = "commit"
    THEN \E slot \in BOOLEAN :
            orphans' = orphans \cup {[command_id |-> request[c].command_id,
                                      event |-> request[c].event,
                                      seq |-> seq[c], slot |-> slot]}
    ELSE UNCHANGED orphans

(* The future is dropped at an await.                                      *)
Drop(c) ==
    /\ pc[c] \notin {"idle", "done"}
    /\ Orphaned(c)
    /\ Goto(c, "idle")
    /\ request' = [request EXCEPT ![c] = NoRequest]
    /\ seq' = [seq EXCEPT ![c] = 0]
    /\ UNCHANGED <<database, next_seq, answer>>

(* A statement fails with anything but 23505 on command_log.               *)
Fail(c) ==
    /\ pc[c] \notin {"idle", "done"}
    /\ Orphaned(c)
    /\ Finish(c, Err("Database"))
    /\ UNCHANGED <<database, next_seq, request>>

OrphanCommits(o) ==
    /\ CommitRows(o.seq, o.command_id, o.event)
    /\ orphans' = orphans \ {o}
    /\ UNCHANGED <<next_seq, pc, request, seq, answer>>

OrphanAborts(o) ==
    /\ orphans' = orphans \ {o}
    /\ UNCHANGED <<database, next_seq, pc, request, seq, answer>>

OrphanEnds == \E o \in orphans : OrphanCommits(o) \/ OrphanAborts(o)

Next ==
    \/ \E c \in Clients : Start(c) \/ Step(c) \/ Drop(c) \/ Fail(c)
    \/ OrphanEnds

Spec == Init /\ [][Next]_vars

(* The runtime polls every call, the server ends every transaction, and    *)
(* sqlx gives connections in the order they were asked for; no call has to *)
(* be made, dropped or failed.                                             *)
Acquire(c) == LookUp(c) \/ Begin(c) \/ LookUpAgain(c)

FairSpec ==
    /\ Spec
    /\ \A c \in Clients : WF_vars(Step(c)) /\ SF_vars(Acquire(c))
    /\ WF_vars(OrphanEnds)

-------------------------------------------------------------------------------
(* Properties.                                                             *)

Labels == {"idle", "lookup", "begin", "insertEvent", "insertCommand", "commit",
           "rollback", "relookup", "done"}

Answers == [status: {"answered"}, result: {"Ok"}, record: Record, inserted: BOOLEAN]
               \cup {Err("MissingCommandEvent"), Err("Database")}

(* Types; a call that runs has its arguments, a call that is done has its  *)
(* answer, and a row a transaction inserted has its number.                *)
TypeOK ==
    /\ DOMAIN event_log \subseteq 1 .. (next_seq - 1)
    /\ event_log \in [DOMAIN event_log -> Events]
    /\ DOMAIN command_log \subseteq CommandIds
    /\ command_log \in [DOMAIN command_log -> 1 .. (next_seq - 1)]
    /\ next_seq \in 1 .. MaxSeq + 1
    /\ pc \in [Clients -> Labels]
    /\ request \in [Clients -> Request \cup {NoRequest}]
    /\ seq \in [Clients -> 0 .. (next_seq - 1)]
    /\ \A o \in orphans : o \in Orphan /\ o.seq < next_seq
    /\ \A c \in Clients :
          /\ pc[c] # "idle" => request[c] \in Request
          /\ pc[c] \in {"insertCommand", "commit"} => seq[c] > 0
          /\ pc[c] = "done" => answer[c] \in Answers
    /\ answer = [c \in Clients |-> answer[c]]

(* The two tables are written by two statements of one transaction: each   *)
(* command has one event of its own, and no event is without a command,    *)
(* whatever attempts failed, were dropped, or lost the race for the key.   *)
OneEventPerCommand ==
    /\ \A i, j \in DOMAIN command_log : command_log[i] = command_log[j] => i = j
    /\ {command_log[id] : id \in DOMAIN command_log} = DOMAIN event_log

(* Whoever is told Ok, the first caller or one that retries, on the fast   *)
(* path or after 23505, is told the record the log holds for its command.  *)
AnswersAreLogged ==
    \A c \in Clients :
        pc[c] = "done" /\ answer[c].result = "Ok" =>
            LET id == request[c].command_id
            IN  /\ Known(id) /\ command_log[id] \in DOMAIN event_log
                /\ answer[c].record = RecordOf(id)

(* The error for a key that exists without its event is never returned:    *)
(* when 23505 is raised, the winner's rows are there to be looked up.      *)
NoMissingCommandEvent ==
    \A c \in Clients : pc[c] = "done" => answer[c].result # "MissingCommandEvent"

(* Every call ends: callers that wait for each other's keys and for the    *)
(* last connection of the pool never wait for one another in a circle.     *)
EveryCallEnds == \A c \in Clients : (pc[c] # "idle") ~> (pc[c] = "idle")

-------------------------------------------------------------------------------
(* Refinement.                                                             *)

CallOf(c) ==
    CASE pc[c] = "idle" -> [status |-> "idle"]
      [] pc[c] = "done" -> answer[c]
      [] OTHER          -> [status |-> "pending", request |-> request[c]]

LogOfRecords == [id \in DOMAIN command_log |-> RecordOf(id)]

Calls == [c \in Clients |-> CallOf(c)]

RequestOf(o) == [command_id |-> o.command_id, event |-> o.event]

Abandoned == {RequestOf(o) : o \in orphans}

IL == INSTANCE IdempotentLog WITH
          Seqs <- 1 .. MaxSeq,
          log <- LogOfRecords,
          calls <- Calls,
          abandoned <- Abandoned

(* Calls are atomic and take effect once: every step of a call but one is  *)
(* invisible, and that one is its commit or the read that finds the key.   *)
ImplementsIdempotentLog == IL!Spec
===============================================================================
