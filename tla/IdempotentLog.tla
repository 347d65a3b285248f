----------------------------- MODULE IdempotentLog -----------------------------
(***************************************************************************)
(* What the IdempotentEventLog trait promises its callers, as an atomic    *)
(* object: each call takes effect at one instant between its start and its *)
(* answer.  A call that is given up (its future dropped, or an error after *)
(* its statements left for the server) may still take effect later, once,  *)
(* or never.  This is the abstract specification PostgresEventLog          *)
(* implements.                                                             *)
(***************************************************************************)
EXTENDS Naturals

CONSTANTS
    Clients,      \* concurrent callers
    CommandIds,   \* idempotency keys
    Events,       \* what is appended
    Seqs          \* the sequence numbers a record may get

VARIABLES
    log,          \* command id -> the record it was given
    calls,        \* per client: no call, a pending call or an answered one
    abandoned     \* requests given up that may still take effect

vars == <<log, calls, abandoned>>

Record  == [seq: Seqs, event: Events]
Request == [command_id: CommandIds, event: Events]

NoCall           == [status |-> "idle"]
Pending(request) == [status |-> "pending", request |-> request]
Ok(record, inserted) ==
    [status |-> "answered", result |-> "Ok", record |-> record, inserted |-> inserted]
Err == [status |-> "answered", result |-> "Database"]

Init ==
    /\ log = << >>
    /\ calls = [c \in Clients |-> NoCall]
    /\ abandoned = {}

Logged(id) == id \in DOMAIN log

(* The request's first and only effect.                                    *)
Log(request, record) ==
    /\ ~ Logged(request.command_id)
    /\ record.event = request.event
    /\ \A id \in DOMAIN log : log[id].seq # record.seq
    /\ log' = [id \in DOMAIN log \cup {request.command_id} |->
                  IF id = request.command_id THEN record ELSE log[id]]

Start(c) ==
    /\ calls[c] = NoCall
    /\ \E request \in Request : calls' = [calls EXCEPT ![c] = Pending(request)]
    /\ UNCHANGED <<log, abandoned>>

(* The command is new: its event is logged.                                *)
Insert(c) ==
    /\ calls[c].status = "pending"
    /\ \E record \in Record :
          /\ Log(calls[c].request, record)
          /\ calls' = [calls EXCEPT ![c] = Ok(record, TRUE)]
    /\ UNCHANGED abandoned

(* The command was logged before: the answer is the record of then.        *)
Replay(c) ==
    /\ calls[c].status = "pending"
    /\ Logged(calls[c].request.command_id)
    /\ calls' = [calls EXCEPT ![c] = Ok(log[calls[c].request.command_id], FALSE)]
    /\ UNCHANGED <<log, abandoned>>

(* The call fails or its caller goes away.                                 *)
GiveUp(c) ==
    /\ calls[c].status = "pending"
    /\ \E rest \in {NoCall, Err} : calls' = [calls EXCEPT ![c] = rest]
    /\ abandoned' \in {abandoned, abandoned \cup {calls[c].request}}
    /\ UNCHANGED log

Return(c) ==
    /\ calls[c].status = "answered"
    /\ calls' = [calls EXCEPT ![c] = NoCall]
    /\ UNCHANGED <<log, abandoned>>

(* An abandoned request takes effect after all, or is forgotten.           *)
LateInsert(request) ==
    /\ \E record \in Record : Log(request, record)
    /\ abandoned' \in {abandoned, abandoned \ {request}}
    /\ UNCHANGED calls

Forget(request) ==
    /\ abandoned' = abandoned \ {request}
    /\ UNCHANGED <<log, calls>>

Next ==
    \/ \E c \in Clients : Start(c) \/ Insert(c) \/ Replay(c) \/ GiveUp(c) \/ Return(c)
    \/ \E request \in abandoned : LateInsert(request) \/ Forget(request)

Spec == Init /\ [][Next]_vars
===============================================================================
