----------------------------- MODULE EventStreams -----------------------------
(***************************************************************************)
(* How logged events reach the clients.  Source: crates/api/src, lib.rs,   *)
(* grpc/service.rs and graphql/{mutation,query,subscription}.rs.           *)
(*                                                                         *)
(* A request logs its events one by one under the handler's mutex and      *)
(* sends their records on a broadcast channel after it was released: the   *)
(* guard is a temporary of the statement that awaits handle().  A gRPC     *)
(* stream subscribes to the channel, then reads the history, then tails    *)
(* the channel behind a cursor.  A GraphQL client reads the history with   *)
(* the events query, then subscribes; the subscription only filters.       *)
(*                                                                         *)
(* An event is its seq; how many trades an order makes is left open.       *)
(* tokio's channel is external: it keeps the last Capacity records, and a  *)
(* receiver whose next record was overwritten goes on with the oldest one. *)
(* The sender lives as long as the server, so Closed is left out.          *)
(***************************************************************************)
EXTENDS Naturals, Sequences, FiniteSets, SequencesExt, Ascending

CONSTANTS
    Requests,        \* concurrent requests
    CommandIds,
    Streams,         \* readers that may call gRPC StreamEvents
    Subscriptions,   \* readers that may use the GraphQL query and subscription
    FromSeqs,        \* where a stream may be asked to start
    Capacity,        \* of the channel
    MaxRequests,     \* bound: requests made
    MaxEvents,       \* bound: sequence numbers given
    MaxFaults,       \* bound: requests dropped or failed, replays failed
    MaxResumes,      \* bound: streams opened again
    MaxBigint        \* i64::MAX: what Postgres can compare a seq with

ASSUME EventStreamsAssumption ==
    /\ Capacity \in Nat \ {0}
    /\ MaxRequests \in Nat /\ MaxEvents \in Nat /\ MaxFaults \in Nat /\ MaxResumes \in Nat
    /\ MaxBigint \in Nat /\ MaxEvents <= MaxBigint
    /\ FromSeqs \subseteq Nat

Readers == Streams \cup Subscriptions

VARIABLES
    log,          \* event_log in the order of COMMIT
    command_log,  \* command id -> seq of its first event, 0 if it has none
    late,         \* events whose request was given up during their COMMIT
    abandoned,    \* history: the numbers of requests that were given up
    request,      \* per request: stage, command id, the records it holds
    sent,         \* all records sent on the channel; it keeps the last ones
    reader,       \* per reader: what it is, stage, from_seq, cursor, its receiver;
                  \* history: what it asked to replay, how much a query returned
    got,          \* what each reader's client was given
    lost,         \* history: what was overwritten before a reader got to it
    budget        \* what is left of the bounds

vars == <<log, command_log, late, abandoned, request, sent, reader, got, lost, budget>>

NoRequest == [stage |-> "none", command_id |-> "none", records |-> << >>]
NoReader  == [kind |-> "none", stage |-> "off", from_seq |-> 0, cursor |-> 0,
              start |-> 0, next |-> 0, asked |-> 0, queried |-> 0]

Init ==
    /\ log = << >>
    /\ command_log = [k \in CommandIds |-> 0]
    /\ late = {}
    /\ abandoned = {}
    /\ request = [r \in Requests |-> NoRequest]
    /\ sent = << >>
    /\ reader = [s \in Readers |-> NoReader]
    /\ got = [s \in Readers |-> << >>]
    /\ lost = [s \in Readers |-> {}]
    /\ budget = [requests |-> MaxRequests, events |-> MaxEvents, faults |-> MaxFaults,
                 resumes |-> MaxResumes]

Logged == Range(log)

Spend(what) == budget[what] > 0 /\ budget' = [budget EXCEPT ![what] = @ - 1]

LengthAsSeq == Len(log) + 1                                         \* mutant

(* The next number of the BIGSERIAL.                                       *)
NextSeq == MaxEvents - budget.events + 1

-------------------------------------------------------------------------------
(* Requests: place_order and cancel_order of either API.                   *)

HoldsLock(r) == request[r].stage = "handling"

(* The mutex is taken and handle() starts.                                 *)
Lock(r, k) ==
    /\ request[r].stage = "none"
    /\ \A q \in Requests : ~ HoldsLock(q)
    /\ Spend("requests")
    /\ request' = [request EXCEPT ![r] =
                      [stage |-> "handling", command_id |-> k, records |-> << >>]]
    /\ UNCHANGED <<log, command_log, late, abandoned, sent, reader, got, lost>>

IsFirst(r) == request[r].records = << >>

KeyOf(r) == request[r].command_id

KeyIsOpen(k) == \E entry \in late : entry.command_id = k

(* A command's first event may be logged if its key is new.  A trade's key *)
(* always is here: a command id that looks like one is CommandHandler's.   *)
MayLog(r) == IsFirst(r) => command_log[KeyOf(r)] = 0 /\ ~ KeyIsOpen(KeyOf(r))

LogEvent(r) ==
    /\ HoldsLock(r)
    /\ MayLog(r)
    /\ Spend("events")
    /\ log' = Append(log, NextSeq)
    /\ command_log' = IF IsFirst(r) THEN [command_log EXCEPT ![KeyOf(r)] = NextSeq]
                      ELSE command_log
    /\ request' = [request EXCEPT ![r].records = Append(@, NextSeq)]
    /\ UNCHANGED <<late, abandoned, sent, reader, got, lost>>

(* The retry of a logged command holds the record of then.                 *)
Retry(r) ==
    /\ HoldsLock(r)
    /\ IsFirst(r)
    /\ command_log[KeyOf(r)] # 0
    /\ request' = [request EXCEPT ![r] =
                      [@ EXCEPT !.stage = "sending", !.records = <<command_log[KeyOf(r)]>>]]
    /\ UNCHANGED <<log, command_log, late, abandoned, sent, reader, got, lost, budget>>

FirstRecordOnly(r) == <<request[r].records[1]>>                     \* mutant

ItsRecords(r) == request[r].records

(* handle() has returned Ok: the mutex is free, nothing was sent yet.      *)
Handled(r) ==
    /\ HoldsLock(r)
    /\ ~ IsFirst(r)
    /\ request' = [request EXCEPT ![r].stage = "sending", ![r].records = ItsRecords(r)]
    /\ UNCHANGED <<log, command_log, late, abandoned, sent, reader, got, lost, budget>>

SendsUncommitted(r) ==                                              \* mutant
    [request[r] EXCEPT !.stage = "sending", !.records = Append(@, NextSeq)]

Forgotten(r) == NoRequest

(* handle() failed, the engine refused, or the request's future was        *)
(* dropped: `?` leaves before anything is sent.  The event it was          *)
(* committing, if any, may be logged late.                                 *)
GiveUp(r) ==
    /\ HoldsLock(r)
    /\ request' = [request EXCEPT ![r] = Forgotten(r)]
    /\ \/ /\ Spend("faults")
          /\ abandoned' = abandoned \cup Range(request[r].records)
          /\ UNCHANGED late
       \/ /\ MayLog(r)
          /\ budget.events > 0 /\ budget.faults > 0
          /\ budget' = [budget EXCEPT !.events = @ - 1, !.faults = @ - 1]
          /\ late' = late \cup {[seq |-> NextSeq, first |-> IsFirst(r),
                                 command_id |-> KeyOf(r)]}
          /\ abandoned' = abandoned \cup Range(request[r].records) \cup {NextSeq}
    /\ UNCHANGED <<log, command_log, sent, reader, got, lost>>

LateEvent(entry) ==
    /\ late' = late \ {entry}
    /\ \/ UNCHANGED <<log, command_log>>
       \/ /\ log' = Append(log, entry.seq)
          /\ command_log' = IF entry.first
                            THEN [command_log EXCEPT ![entry.command_id] = entry.seq]
                            ELSE command_log
    /\ UNCHANGED <<abandoned, request, sent, reader, got, lost, budget>>

(* event_tx.send, one record after the other; the last one ends the        *)
(* request.  No await lies between them: a request is not dropped here.    *)
Send(r) ==
    /\ request[r].stage = "sending"
    /\ sent' = Append(sent, Head(request[r].records))
    /\ request' = [request EXCEPT ![r] =
                      IF Len(request[r].records) = 1 THEN NoRequest
                      ELSE [request[r] EXCEPT !.records = Tail(@)]]
    /\ UNCHANGED <<log, command_log, late, abandoned, reader, got, lost, budget>>

-------------------------------------------------------------------------------
(* Readers.                                                                *)

(* ORDER BY seq.                                                           *)
Rows(seqs) == Ascending(seqs)

ReadFromCast(from) ==                                               \* mutant
    [refused |-> FALSE, rows |-> Rows({n \in Logged : n >= from \/ from > MaxBigint})]

(* read_from: the rows from a seq on, in order; a seq that is no i64 is    *)
(* refused, SequenceOverflow.                                              *)
ReadFrom(from) ==
    [refused |-> from > MaxBigint, rows |-> Rows({n \in Logged : n >= from})]

(* The cursor after the replay.                                            *)
KeepsFrom(from, history) == from                                    \* mutant

PastNext(from, history) ==                                          \* mutant
    IF history = << >> THEN from ELSE Last(history) + 2

CursorAfter(from, history) == IF history = << >> THEN from ELSE Last(history) + 1

(* event_tx.subscribe(): the receiver starts with the next record sent.    *)
Subscribed(kind, stage, from) ==
    [kind |-> kind, stage |-> stage, from_seq |-> from, cursor |-> from,
     start |-> Len(sent) + 1, next |-> Len(sent) + 1, asked |-> from, queried |-> 0]

IsStream(s) == reader[s].kind = "stream"

(* stream_events subscribes before it reads.                               *)
StreamEvents(s, from) ==
    /\ reader[s].stage = "off"
    /\ reader' = [reader EXCEPT ![s] = Subscribed("stream", "replay", from)]
    /\ UNCHANGED <<log, command_log, late, abandoned, request, sent, got, lost, budget>>

(* A client whose stream has broken opens it again behind the last event   *)
(* it was given.                                                           *)
Resume(s) ==
    LET from == CursorAfter(reader[s].from_seq, got[s])
    IN  /\ IsStream(s)
        /\ reader[s].stage \in {"live", "ended"}
        /\ Spend("resumes")
        /\ reader' = [reader EXCEPT ![s] = [Subscribed("stream", "replay", from)
                                               EXCEPT !.from_seq = reader[s].from_seq,
                                                      !.asked = reader[s].asked]]
        /\ UNCHANGED <<log, command_log, late, abandoned, request, sent, got, lost>>

(* The replay, and the cursor behind its last record.                      *)
Replay(s) ==
    LET history == ReadFrom(reader[s].cursor)
    IN  /\ reader[s].stage = "replay"
        /\ ~ history.refused
        /\ reader' = [reader EXCEPT ![s].stage = "live",
                                    ![s].cursor = CursorAfter(@, history.rows)]
        /\ got' = [got EXCEPT ![s] = @ \o history.rows]
        /\ UNCHANGED <<log, command_log, late, abandoned, request, sent, lost, budget>>

(* read_from returns an error: `?` ends the stream.                        *)
ReplayFails(s) ==
    /\ reader[s].stage = "replay"
    /\ \/ ReadFrom(reader[s].cursor).refused /\ UNCHANGED budget
       \/ Spend("faults")
    /\ reader' = [reader EXCEPT ![s].stage = "ended"]
    /\ UNCHANGED <<log, command_log, late, abandoned, request, sent, got, lost>>

(* The events query of a GraphQL client: its fromSeq is an i64, and a      *)
(* negative one a u64 beyond MaxBigint.                                    *)
QueryEvents(s, from) ==
    LET history == ReadFrom(from)
    IN  /\ reader[s].stage = "off"
        /\ IF history.refused
           THEN UNCHANGED <<got, reader>>
           ELSE /\ got' = [got EXCEPT ![s] = history.rows]
                /\ reader' = [reader EXCEPT ![s] = [@ EXCEPT !.stage = "queried", !.asked = from,
                                                             !.queried = Len(history.rows)]]
        /\ UNCHANGED <<log, command_log, late, abandoned, request, sent, lost, budget>>

(* Its subscription, from the last seen sequence or wherever the client    *)
(* likes: nothing is refused here.                                         *)
EventStream(s, from) ==
    /\ reader[s].stage = "queried"
    /\ reader' = [reader EXCEPT ![s] = [Subscribed("subscription", "live", from)
                                           EXCEPT !.asked = reader[s].asked,
                                                  !.queried = reader[s].queried]]
    /\ UNCHANGED <<log, command_log, late, abandoned, request, sent, got, lost, budget>>

Oldest == IF Len(sent) > Capacity THEN Len(sent) - Capacity + 1 ELSE 1

HasNext(s) == reader[s].stage = "live" /\ reader[s].next <= Len(sent)

CursorOfAStream(s, seq) == seq + 1                                  \* mutant

(* A stream gives on what is not below its cursor and moves the cursor; a  *)
(* subscription's cursor stays where it is.                                *)
CursorBehind(s, seq) == IF IsStream(s) THEN seq + 1 ELSE reader[s].cursor

Receive(s) ==
    LET seq == sent[reader[s].next]
    IN  /\ HasNext(s)
        /\ reader[s].next >= Oldest
        /\ IF seq >= reader[s].cursor
           THEN /\ got' = [got EXCEPT ![s] = Append(@, seq)]
                /\ reader' = [reader EXCEPT ![s].next = @ + 1,
                                            ![s].cursor = CursorBehind(s, seq)]
           ELSE /\ reader' = [reader EXCEPT ![s].next = @ + 1]
                /\ UNCHANGED got
        /\ UNCHANGED <<log, command_log, late, abandoned, request, sent, lost, budget>>

(* RecvError::Lagged: the overwritten records are skipped.                 *)
Lagged(s) ==
    /\ HasNext(s)
    /\ reader[s].next < Oldest
    /\ lost' = [lost EXCEPT ![s] = @ \cup {sent[i] : i \in reader[s].next .. Oldest - 1}]
    /\ reader' = [reader EXCEPT ![s].next = Oldest]
    /\ UNCHANGED <<log, command_log, late, abandoned, request, sent, got, budget>>

Next ==
    \/ \E r \in Requests :
          \/ \E k \in CommandIds : Lock(r, k)
          \/ LogEvent(r) \/ Retry(r) \/ Handled(r) \/ GiveUp(r) \/ Send(r)
    \/ \E entry \in late : LateEvent(entry)
    \/ \E s \in Streams :
          \/ \E from \in FromSeqs : StreamEvents(s, from)
          \/ Resume(s) \/ Replay(s) \/ ReplayFails(s)
    \/ \E s \in Subscriptions :
          \/ \E from \in FromSeqs : QueryEvents(s, from)
          \/ \E from \in FromSeqs \cup {CursorAfter(0, got[s])} : EventStream(s, from)
    \/ \E s \in Readers : Receive(s) \/ Lagged(s)

Spec == Init /\ [][Next]_vars

-------------------------------------------------------------------------------
(* Properties.                                                             *)

Seqs == 1 .. MaxEvents

(* Types; the records of a request that sends are there to be sent, and a  *)
(* receiver stands where it started or later.                              *)
TypeOK ==
    /\ log \in Seq(Seqs) /\ IsInjective(log)
    /\ command_log \in [CommandIds -> Seqs \cup {0}]
    /\ late \subseteq [seq: Seqs, first: BOOLEAN, command_id: CommandIds]
    /\ abandoned \subseteq Seqs
    /\ sent \in Seq(Seqs)
    /\ \A r \in Requests :
          /\ request[r].stage \in {"none", "handling", "sending"}
          /\ request[r].records \in Seq(Seqs)
          /\ request[r].stage = "sending" => request[r].records # << >>
    /\ \A s \in Readers :
          /\ reader[s].stage \in {"off", "queried", "replay", "live", "ended"}
          /\ reader[s].start <= reader[s].next /\ reader[s].next <= Len(sent) + 1
          /\ got[s] \in Seq(Seqs) /\ lost[s] \subseteq Seqs

(* A client is given nothing that is not in the log for good: no record of *)
(* a request that failed before its COMMIT gets out.                       *)
DeliveredIsLogged == \A s \in Readers : Range(got[s]) \subseteq Logged

(* A gRPC stream gives each event once, in the order of seq, through the   *)
(* change from replay to live, repeated records of retries, lags, and the  *)
(* breaks after which its client resumes it.                               *)
StreamsInOrder ==
    \A s \in Streams : IsStream(s) =>
        \A i, j \in DOMAIN got[s] : i < j => got[s][i] < got[s][j]

(* Nobody is given anything from before the start asked for: neither by a  *)
(* stream, however often it is resumed, nor by the events query, nor by    *)
(* the subscription behind it, whose start is another argument.  A start   *)
(* no seq can reach ends a stream and a query with the error, they do not  *)
(* answer it; only a subscription takes one and stays silent.              *)
StartsAreKept ==
    \A s \in Readers :
        /\ \A i \in DOMAIN got[s] :
              got[s][i] >= IF i <= reader[s].queried THEN reader[s].asked
                                                    ELSE reader[s].from_seq
        /\ reader[s].stage \in {"queried", "live"} => reader[s].asked <= MaxBigint

Received(s) == reader[s].start .. reader[s].next - 1

Echoed(s, given) ==
    /\ SubSeq(got[s], reader[s].queried + 1, Len(got[s])) = At(sent, given)
    /\ \A i \in Received(s) \ given : sent[i] < reader[s].from_seq \/ sent[i] \in lost[s]

(* A GraphQL subscription gives out the records as often and in the order  *)
(* they were sent since it was opened, a retry's again and a lower seq     *)
(* behind a higher one: all but those below its start and the overwritten. *)
SubscriptionsEcho ==
    \A s \in Subscriptions : reader[s].kind = "subscription" =>
        \E given \in SUBSET Received(s) : Echoed(s, given)

ComesLate(n) ==
    \E i, j \in DOMAIN log : i < j /\ log[j] = n /\ log[i] > n

Overtaken(n) ==
    \E i, j \in DOMAIN sent : /\ i < j /\ sent[j] = n /\ sent[i] > n
                              /\ \A h \in 1 .. (j - 1) : sent[h] # n

ToCome(s, n) == \E i \in DOMAIN sent : i >= reader[s].next /\ sent[i] = n

SentBefore(s, n) == \E i \in DOMAIN sent : i < reader[s].start /\ sent[i] = n

Missing(s) ==
    IF reader[s].stage = "live"
    THEN {n \in Logged \ Range(got[s]) : n >= reader[s].from_seq}
    ELSE {}

Held(n) == \E r \in Requests : n \in Range(request[r].records)

(* Nobody was told of n, and why.                                          *)
Untold(n) == n \notin Range(sent) /\ (Held(n) \/ n \in abandoned)

(* What a reader misses, it misses for one of these reasons and no other:  *)
(* nobody was told, as the event's request has still to send it or was     *)
(* given up; it was overwritten in the channel, was committed after a      *)
(* later number, is still to be received, or else was sent after a later   *)
(* number (a gRPC stream: its cursor had passed) or before the client      *)
(* subscribed (GraphQL).  In particular a gRPC stream misses nothing       *)
(* between replay and live when broadcasts are in order.                   *)
GapsHaveCauses ==
    \A s \in Readers : \A n \in Missing(s) :
        \/ Untold(n)
        \/ n \in lost[s]
        \/ ComesLate(n)
        \/ ToCome(s, n)
        \/ IF IsStream(s) THEN Overtaken(n) ELSE SentBefore(s, n)

(* An event nobody was told of is held by a request that is still to send  *)
(* it, or belongs to one that was given up while it was handled: a request *)
(* that was answered has told everyone, whatever befell the others.        *)
UnsentHasOwner == \A n \in Logged \ Range(sent) : Held(n) \/ n \in abandoned

-------------------------------------------------------------------------------
(* What the README says of the streams and the code does not do.           *)

Quiet == late = {} /\ \A r \in Requests : request[r].stage = "none"

CaughtUp(s) == reader[s].stage = "live" /\ reader[s].next > Len(sent)

(* "no missed events": a reader that has received all there is has been    *)
(* given everything the log holds from its start on.                       *)
NoMissedEvents == \A s \in Readers : Quiet /\ CaughtUp(s) => Missing(s) = {}
===============================================================================
