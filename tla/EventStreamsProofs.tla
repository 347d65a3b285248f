--------------------------- MODULE EventStreamsProofs ---------------------------
(***************************************************************************)
(* What the readers of the event log are given, for every number of        *)
(* requests, readers and events and every capacity of the channel.         *)
(*                                                                         *)
(* The invariant says where every logged event stands with every reader:   *)
(* a stream was given all there is below its cursor but what came late,    *)
(* was overtaken or overwritten, and has still to come to what it misses   *)
(* from its cursor on, unless that was overwritten.                        *)
(***************************************************************************)
EXTENDS EventStreams, AscendingProofs

-------------------------------------------------------------------------------
(* The inductive invariant.                                                *)

RequestRecords == [stage: {"none", "handling", "sending"},
                   command_id: CommandIds \cup {"none"}, records: Seq(Seqs)]

ReaderRecords == [kind: {"none", "stream", "subscription"},
                  stage: {"off", "queried", "replay", "live", "ended"},
                  from_seq: Nat, cursor: Nat, start: Nat, next: Nat, asked: Nat, queried: Nat]

LateEntries == [seq: Seqs, first: BOOLEAN, command_id: CommandIds]

Budgets == [requests: Nat, events: 0 .. MaxEvents, faults: 0 .. MaxFaults, resumes: Nat]

Shapes ==
    /\ log \in Seq(Seqs)
    /\ command_log \in [CommandIds -> Seqs \cup {0}]
    /\ late \in SUBSET LateEntries
    /\ abandoned \in SUBSET Seqs
    /\ request \in [Requests -> RequestRecords]
    /\ sent \in Seq(Seqs)
    /\ reader \in [Readers -> ReaderRecords]
    /\ got \in [Readers -> Seq(Seqs)]
    /\ lost \in [Readers -> SUBSET Seqs]
    /\ budget \in Budgets

(* A request has records when it sends and none before it starts.          *)
RequestsStand ==
    \A r \in Requests :
        /\ HoldsLock(r) => request[r].command_id \in CommandIds
        /\ request[r].stage = "none" => request[r].records = << >>
        /\ request[r].stage = "sending" => request[r].records # << >>

(* Each number was given once: it is in the log once, or may still come.   *)
NumbersAreNew ==
    /\ \A i, j \in DOMAIN log : log[i] = log[j] => i = j
    /\ \A n \in Logged : n < NextSeq
    /\ \A entry \in late : entry.seq < NextSeq /\ entry.seq \notin Logged
    /\ \A entry, other \in late : entry.seq = other.seq => entry = other

RecordsAreLogged ==
    /\ \A k \in CommandIds : command_log[k] # 0 => command_log[k] \in Logged
    /\ \A r \in Requests : Range(request[r].records) \subseteq Logged
    /\ Range(sent) \subseteq Logged

(* What may come late was given up.                                        *)
LateIsAbandoned == \A entry \in late : entry.seq \in abandoned

(* Where a reader stands.  A stream's cursor is always the one a resume    *)
(* would ask for.                                                          *)
Stands(s) ==
    /\ reader[s].stage = "off" => reader[s].kind = "none" /\ got[s] = << >>
    /\ reader[s].stage = "queried" => reader[s].kind = "none" /\ reader[s].queried = Len(got[s])
    /\ ~ IsStream(s) /\ reader[s].stage # "off" => reader[s].asked <= MaxBigint
    /\ reader[s].queried <= Len(got[s])
    /\ reader[s].stage \in {"replay", "ended"} => IsStream(s)
    /\ reader[s].stage = "live" => reader[s].kind # "none"
    /\ reader[s].stage \in {"replay", "live"} => reader[s].start >= 1
    /\ reader[s].kind = "subscription" =>
          reader[s].stage = "live" /\ reader[s].cursor = reader[s].from_seq
    /\ reader[s].start <= reader[s].next /\ reader[s].next <= Len(sent) + 1
    /\ IsStream(s) =>
          /\ reader[s].cursor = CursorAfter(reader[s].from_seq, got[s])
          /\ reader[s].stage = "live" => reader[s].from_seq <= MaxBigint
          /\ reader[s].asked = reader[s].from_seq /\ reader[s].queried = 0

Climbs(seqs) == \A i, j \in DOMAIN seqs : i < j => seqs[i] < seqs[j]

StreamClimbs(s) ==
    IsStream(s) =>
        /\ Climbs(got[s])
        /\ \A i \in DOMAIN got[s] : got[s][i] >= reader[s].from_seq

(* A query gave nothing from before what it asked, nor its subscription.   *)
QueryStarts(s) ==
    ~ IsStream(s) =>
        \A i \in DOMAIN got[s] :
            got[s][i] >= IF i <= reader[s].queried THEN reader[s].asked ELSE reader[s].from_seq

(* The channel had a later number before it had n, if it had n at all.     *)
PassedOver(n) ==
    \E i \in DOMAIN sent : sent[i] > n /\ \A h \in 1 .. i : sent[h] # n

(* What a stream misses below its cursor has a cause that stays one.       *)
BehindCursor(s) ==
    IsStream(s) =>
        \A n \in Logged \ Range(got[s]) :
            reader[s].from_seq <= n /\ n < reader[s].cursor =>
                n \in lost[s] \/ ComesLate(n) \/ PassedOver(n)

(* What it misses from its cursor on it has not received.                  *)
FromCursorOn(s) ==
    IsStream(s) /\ reader[s].stage = "live" =>
        \A n \in Logged \ Range(got[s]) :
            n >= reader[s].cursor =>
                n \in lost[s] \/ \A i \in DOMAIN sent : i < reader[s].next => sent[i] # n

(* A subscription was given what it received.                              *)
SubscriptionGives(s) ==
    reader[s].kind = "subscription" =>
        \A i \in DOMAIN sent :
            /\ reader[s].start <= i /\ i < reader[s].next
            /\ sent[i] >= reader[s].from_seq
            => sent[i] \in Range(got[s]) \cup lost[s]

(* And gave out what it received, as often and in the order received.      *)
Echoes(s) ==
    reader[s].kind = "subscription" =>
        \E given \in SUBSET Received(s) : Echoed(s, given)

ReaderInv(s) ==
    /\ Stands(s)
    /\ Range(got[s]) \subseteq Logged
    /\ StreamClimbs(s)
    /\ QueryStarts(s)
    /\ BehindCursor(s)
    /\ FromCursorOn(s)
    /\ SubscriptionGives(s)
    /\ Echoes(s)

IInv ==
    /\ Shapes
    /\ RequestsStand
    /\ NumbersAreNew
    /\ RecordsAreLogged
    /\ LateIsAbandoned
    /\ UnsentHasOwner
    /\ \A s \in Readers : ReaderInv(s)

-------------------------------------------------------------------------------
(* Sequences of numbers, and the cursor behind them.                       *)

LEMMA RangeOfAppend ==
    ASSUME NEW S, NEW s \in Seq(S), NEW e \in S
    PROVE  Range(Append(s, e)) = Range(s) \cup {e}
<1>1. /\ DOMAIN s = 1 .. Len(s) /\ Len(s) \in Nat
      /\ DOMAIN Append(s, e) = 1 .. Len(s) + 1
      /\ \A i \in 1 .. Len(s) : Append(s, e)[i] = s[i]
      /\ Append(s, e)[Len(s) + 1] = e
  OBVIOUS
<1>2. 1 .. Len(s) + 1 = 1 .. Len(s) \cup {Len(s) + 1}
  BY <1>1
<1> QED  BY <1>1, <1>2 DEF Range

LEMMA RangeOfTail ==
    ASSUME NEW S, NEW s \in Seq(S), s # << >>
    PROVE  /\ Head(s) \in S /\ Head(s) \in Range(s)
           /\ Tail(s) \in Seq(S)
           /\ Len(s) = 1 => Range(s) = {Head(s)}
           /\ Len(s) # 1 => Tail(s) # << >> /\ Range(s) = Range(Tail(s)) \cup {Head(s)}
<1> DEFINE t == Tail(s)
<1>1. /\ Head(s) = s[1] /\ Head(s) \in S /\ t \in Seq(S) /\ Len(t) = Len(s) - 1
      /\ \A i \in 1 .. Len(t) : t[i] = s[i + 1]
  BY HeadTailProperties
<1>2. Len(s) \in Nat \ {0} /\ DOMAIN s = 1 .. Len(s)
  BY EmptySeq, LenProperties
<1>3. DOMAIN t = 1 .. Len(s) - 1
  BY <1>1, LenProperties
<1> HIDE DEF t
<1>4. Len(s) # 1 => t # << >>
  BY <1>1, <1>2
<1>5. Len(s) = 1 => Range(s) = {Head(s)}
  BY <1>1, <1>2 DEF Range
<1>6. Head(s) \in Range(s)
  BY <1>1, <1>2 DEF Range
<1>7. Range(s) = Range(t) \cup {Head(s)}
  <2>1. ASSUME NEW i \in DOMAIN s
        PROVE  s[i] = Head(s) \/ s[i] \in Range(t)
    <3>1. CASE i = 1
      BY <1>1, <3>1
    <3>2. CASE i # 1
      <4>1. i - 1 \in DOMAIN t /\ s[i] = t[i - 1]
        BY <1>1, <1>2, <1>3, <3>2
      <4> QED  BY <4>1 DEF Range
    <3> QED  BY <3>1, <3>2
  <2>2. \A i \in DOMAIN t : i + 1 \in DOMAIN s /\ t[i] = s[i + 1]
    BY <1>1, <1>2, <1>3
  <2> QED  BY <1>6, <2>1, <2>2 DEF Range
<1> QED  BY <1>1, <1>4, <1>5, <1>6, <1>7 DEF t

LEMMA CursorIsBehind ==
    ASSUME NEW from \in Nat, NEW g \in Seq(Seqs), Climbs(g),
           \A i \in DOMAIN g : g[i] >= from
    PROVE  /\ CursorAfter(from, g) \in Nat
           /\ from <= CursorAfter(from, g)
           /\ \A i \in DOMAIN g : g[i] < CursorAfter(from, g)
           /\ CursorAfter(from, g) # from => CursorAfter(from, g) - 1 \in Range(g)
<1>1. CASE g = << >>
  BY <1>1 DEF CursorAfter
<1>2. CASE g # << >>
  <2>1. Len(g) \in DOMAIN g /\ Len(g) \in Nat /\ DOMAIN g = 1 .. Len(g)
    BY <1>2
  <2>2. \A i \in DOMAIN g : g[i] \in Seqs
    OBVIOUS
  <2>3. CursorAfter(from, g) = g[Len(g)] + 1
    BY <1>2 DEF CursorAfter, Last
  <2>4. ASSUME NEW i \in DOMAIN g
        PROVE  g[i] <= g[Len(g)]
    <3>1. i = Len(g) \/ i < Len(g)
      BY <2>1
    <3>2. g[i] \in Nat /\ g[Len(g)] \in Nat
      BY <2>1, <2>2, EventStreamsAssumption DEF Seqs
    <3> QED  BY <2>1, <3>1, <3>2 DEF Climbs
  <2>5. \A i \in DOMAIN g : g[i] \in Nat
    BY <2>2, EventStreamsAssumption DEF Seqs
  <2> QED  BY <2>1, <2>3, <2>4, <2>5 DEF Range
<1> QED  BY <1>1, <1>2

LEMMA CursorBehindAppend ==
    ASSUME NEW from \in Nat, NEW g \in Seq(Seqs), NEW n \in Seqs
    PROVE  CursorAfter(from, Append(g, n)) = n + 1
BY DEF CursorAfter, Last

LEMMA CursorBehindConcat ==
    ASSUME NEW from \in Nat, NEW g \in Seq(Seqs), NEW rows \in Seq(Seqs)
    PROVE  CursorAfter(CursorAfter(from, g), rows) = CursorAfter(from, g \o rows)
<1>1. CASE rows = << >>
  <2>1. g \o rows = g
    BY <1>1, ConcatEmptySeq
  <2> QED  BY <1>1, <2>1 DEF CursorAfter
<1>2. CASE rows # << >>
  <2>1. Len(rows) \in Nat \ {0} /\ Len(g) \in Nat
    BY <1>2, EmptySeq
  <2>2. /\ Len(g \o rows) = Len(g) + Len(rows)
        /\ (g \o rows)[Len(g) + Len(rows)] = rows[Len(rows)]
    BY <2>1, ConcatProperties
  <2>3. g \o rows # << >>
    BY <2>1, <2>2
  <2> QED  BY <1>2, <2>2, <2>3 DEF CursorAfter, Last
<1> QED  BY <1>1, <1>2

(* The rows of a read: the logged numbers from its start on, in order.     *)
LEMMA RowsOfRead ==
    ASSUME log \in Seq(Seqs), NEW from \in Nat
    PROVE  LET rows == ReadFrom(from).rows
           IN  /\ rows \in Seq(Seqs)
               /\ Climbs(rows)
               /\ Range(rows) = {n \in Logged : n >= from}
<1> DEFINE S == {n \in Logged : n >= from}
           rows == ReadFrom(from).rows
<1>1. rows = Ascending(S)
  BY DEF ReadFrom, Rows
<1>2. S \in SUBSET Seqs
  BY RangeOfSeq DEF Logged
<1>3. Seqs \in SUBSET Nat /\ IsFiniteSet(Seqs)
  BY FS_Interval, EventStreamsAssumption DEF Seqs
<1>4. S \in SUBSET Nat /\ IsFiniteSet(S)
  BY <1>2, <1>3, FS_Subset
<1> HIDE DEF rows, S
<1>5. /\ rows \in Seq(S) /\ DOMAIN rows = 1 .. Cardinality(S)
      /\ \A i, j \in 1 .. Cardinality(S) : i < j <=> rows[i] < rows[j]
      /\ \A n \in S : \E i \in 1 .. Cardinality(S) : rows[i] = n
  BY <1>1, <1>4, AscendingLists
<1>6. rows \in Seq(Seqs)
  BY <1>2, <1>5, SeqMonotonic
<1>7. Climbs(rows)
  BY <1>5 DEF Climbs
<1>8. Range(rows) = S
  <2>1. rows \in [1 .. Cardinality(S) -> S]
    BY <1>1, <1>4, AscendingLists
  <2> QED  BY <1>5, <2>1 DEF Range
<1> QED  BY <1>6, <1>7, <1>8 DEF rows, S

-------------------------------------------------------------------------------
(* What a reader's part of the invariant needs when others move.           *)

LEMMA UntouchedReader ==
    ASSUME NEW t, ReaderInv(t), reader'[t] = reader[t], got'[t] = got[t], lost'[t] = lost[t],
           log' = log, sent' = sent
    PROVE  ReaderInv(t)'
BY DEF ReaderInv, Stands, StreamClimbs, BehindCursor, FromCursorOn, SubscriptionGives, Logged,
       IsStream, ComesLate, PassedOver, Climbs, QueryStarts, Echoes, Echoed, Received

LEMMA LogGrows ==
    ASSUME Shapes, RecordsAreLogged, NEW t \in Readers, ReaderInv(t),
           NEW n \in Seqs, n \notin Logged, log' = Append(log, n),
           UNCHANGED <<sent, reader, got, lost>>
    PROVE  ReaderInv(t)'
<1>1. /\ log \in Seq(Seqs) /\ sent \in Seq(Seqs) /\ got[t] \in Seq(Seqs)
      /\ reader[t] \in ReaderRecords
  BY DEF Shapes
<1>2. Logged' = Logged \cup {n}
  BY <1>1, RangeOfAppend DEF Logged
<1>3. /\ Stands(t)' /\ StreamClimbs(t)' /\ SubscriptionGives(t)'
      /\ QueryStarts(t)' /\ Echoes(t)'
  BY DEF ReaderInv, Stands, StreamClimbs, SubscriptionGives, IsStream, QueryStarts, Echoes,
         Echoed, Received
<1>4. Range(got[t])' \subseteq Logged'
  BY <1>2 DEF ReaderInv
<1>5. \A m : ComesLate(m) => ComesLate(m)'
  <2>1. \A i \in DOMAIN log : i \in DOMAIN log' /\ log'[i] = log[i]
    BY <1>1
  <2> QED  BY <2>1 DEF ComesLate
<1>6. BehindCursor(t)'
  <2> SUFFICES ASSUME IsStream(t), NEW m \in Logged' \ Range(got[t]),
                      reader[t].from_seq <= m, m < reader[t].cursor
               PROVE  m \in lost[t] \/ ComesLate(m)' \/ PassedOver(m)
    BY DEF BehindCursor, IsStream, PassedOver
  <2>1. CASE m \in Logged
    BY <1>5, <2>1 DEF ReaderInv, BehindCursor
  <2>2. CASE m = n
    <3> DEFINE last == reader[t].cursor - 1
    <3>1. /\ reader[t].cursor = CursorAfter(reader[t].from_seq, got[t])
          /\ Climbs(got[t]) /\ \A i \in DOMAIN got[t] : got[t][i] >= reader[t].from_seq
      BY DEF ReaderInv, Stands, StreamClimbs
    <3>2. reader[t].cursor # reader[t].from_seq /\ reader[t].from_seq \in Nat /\ m \in Nat
      BY <1>1, <2>2, EventStreamsAssumption DEF ReaderRecords, Seqs
    <3>3. last \in Range(got[t])
      BY <1>1, <3>1, <3>2, CursorIsBehind
    <3>4. last \in Logged /\ last # n /\ last \in Nat /\ m <= last
      <4>1. last \in Logged
        BY <3>3 DEF ReaderInv
      <4>2. reader[t].cursor \in Nat
        BY <1>1 DEF ReaderRecords
      <4>3. last # n
        BY <4>1
      <4> QED  BY <2>2, <3>2, <4>1, <4>2, <4>3
    <3>5. PICK i \in DOMAIN log : log[i] = last
      BY <3>4 DEF Logged, Range
    <3>6. /\ i \in DOMAIN log' /\ Len(log) + 1 \in DOMAIN log' /\ i < Len(log) + 1
          /\ log'[i] = last /\ log'[Len(log) + 1] = n
      BY <1>1, <3>5
    <3>7. last > m
      BY <2>2, <3>2, <3>4
    <3> QED  BY <2>2, <3>6, <3>7 DEF ComesLate
  <2> QED  BY <1>2, <2>1, <2>2
<1>7. FromCursorOn(t)'
  <2>1. \A i \in DOMAIN sent : sent[i] # n
    BY DEF RecordsAreLogged, Range
  <2> QED  BY <1>2, <2>1 DEF ReaderInv, FromCursorOn, IsStream
<1> QED  BY <1>3, <1>4, <1>6, <1>7 DEF ReaderInv

LEMMA ChannelGrows ==
    ASSUME Shapes, NEW t \in Readers, ReaderInv(t), NEW n \in Seqs, sent' = Append(sent, n),
           UNCHANGED <<log, reader, got, lost>>
    PROVE  ReaderInv(t)'
<1>1. sent \in Seq(Seqs) /\ reader[t] \in ReaderRecords
  BY DEF Shapes
<1>2. /\ Len(sent) \in Nat /\ DOMAIN sent = 1 .. Len(sent)
      /\ DOMAIN sent' = 1 .. Len(sent) + 1 /\ Len(sent') = Len(sent) + 1
      /\ \A i \in DOMAIN sent : i \in DOMAIN sent' /\ sent'[i] = sent[i]
  BY <1>1
<1>3. reader[t].next \in Nat /\ reader[t].next <= Len(sent) + 1
  BY <1>1 DEF ReaderInv, Stands, ReaderRecords
<1>4. Stands(t)'
  BY <1>2, <1>3 DEF ReaderInv, Stands, IsStream
<1>5. Range(got[t])' \subseteq Logged' /\ StreamClimbs(t)' /\ QueryStarts(t)'
  BY DEF ReaderInv, StreamClimbs, IsStream, Logged, QueryStarts
<1>6. \A m : PassedOver(m) => PassedOver(m)'
  <2>1. \A i \in DOMAIN sent : 1 .. i \subseteq DOMAIN sent
    BY <1>2
  <2> QED  BY <1>2, <2>1 DEF PassedOver
<1>7. BehindCursor(t)'
  BY <1>6 DEF ReaderInv, BehindCursor, IsStream, Logged, ComesLate
<1>8. \A i \in DOMAIN sent' : i < reader[t].next => i \in DOMAIN sent
  BY <1>2, <1>3
<1>9. FromCursorOn(t)' /\ SubscriptionGives(t)'
  BY <1>2, <1>8 DEF ReaderInv, FromCursorOn, SubscriptionGives, IsStream, Logged
<1>10. Echoes(t)'
  <2> SUFFICES ASSUME reader[t].kind = "subscription"
               PROVE  \E given \in SUBSET Received(t) : Echoed(t, given)'
    BY DEF Echoes, Received
  <2>1. PICK given \in SUBSET Received(t) : Echoed(t, given)
    BY DEF ReaderInv, Echoes
  <2>2. Received(t) \in SUBSET DOMAIN sent
    <3>1. reader[t].start >= 1 /\ reader[t].start \in Nat
      BY <1>1 DEF ReaderInv, Stands, ReaderRecords
    <3> QED  BY <1>2, <1>3, <3>1 DEF Received
  <2>3. At(sent', given) = At(sent, given)
    BY <1>1, <2>2, AtLonger
  <2>4. Echoed(t, given)'
    BY <1>2, <2>1, <2>2, <2>3 DEF Echoed, Received
  <2> QED  BY <2>4
<1> QED  BY <1>4, <1>5, <1>7, <1>9, <1>10 DEF ReaderInv

-------------------------------------------------------------------------------
(* The steps of a request.                                                 *)

LEMMA InitIInv == Init => IInv
<1> SUFFICES ASSUME Init PROVE IInv
  OBVIOUS
<1> USE EventStreamsAssumption DEF Init
<1>1. Shapes
  BY DEF Shapes, NoRequest, NoReader, RequestRecords, ReaderRecords, LateEntries, Budgets, Seqs
<1>2. RequestsStand
  BY DEF RequestsStand, NoRequest, HoldsLock
<1>3. Range(<< >>) = {}
  BY DEF Range
<1>4. NumbersAreNew
  BY <1>3 DEF NumbersAreNew, Logged
<1>5. RecordsAreLogged
  BY <1>3 DEF RecordsAreLogged, Logged, NoRequest
<1>6. LateIsAbandoned /\ UnsentHasOwner
  BY <1>3 DEF LateIsAbandoned, UnsentHasOwner, Logged
<1>7. ASSUME NEW s \in Readers
      PROVE  ReaderInv(s)
  BY <1>3 DEF ReaderInv, Stands, StreamClimbs, BehindCursor, FromCursorOn, SubscriptionGives,
              IsStream, NoReader, Logged, QueryStarts, Echoes
<1> QED  BY <1>1, <1>2, <1>4, <1>5, <1>6, <1>7 DEF IInv

LEMMA Budget ==
    ASSUME budget \in Budgets, NEW what \in {"requests", "events", "faults", "resumes"},
           Spend(what)
    PROVE  /\ budget' \in Budgets
           /\ what # "events" => budget'.events = budget.events
           /\ what = "events" => budget'.events = budget.events - 1 /\ budget.events > 0
<1>1. CASE what = "requests"
  BY <1>1 DEF Spend, Budgets
<1>2. CASE what = "events"
  BY <1>2, EventStreamsAssumption DEF Spend, Budgets
<1>3. CASE what = "faults"
  BY <1>3, EventStreamsAssumption DEF Spend, Budgets
<1>4. CASE what = "resumes"
  BY <1>4 DEF Spend, Budgets
<1> QED  BY <1>1, <1>2, <1>3, <1>4

LEMMA RecordsChange ==
    ASSUME NEW q \in RequestRecords, NEW records \in Seq(Seqs)
    PROVE  LET v == [q EXCEPT !.records = records]
               w == [q EXCEPT !.stage = "sending", !.records = records]
           IN  /\ v \in RequestRecords /\ v.records = records
               /\ v.stage = q.stage /\ v.command_id = q.command_id
               /\ w \in RequestRecords /\ w.records = records /\ w.stage = "sending"
BY DEF RequestRecords

(* One request takes a new value.                                          *)
LEMMA OneRequest ==
    ASSUME Shapes, NEW r \in Requests, NEW v \in RequestRecords,
           request' = [request EXCEPT ![r] = v]
    PROVE  /\ request' \in [Requests -> RequestRecords]
           /\ request'[r] = v
           /\ \A q \in Requests \ {r} : request'[q] = request[q]
BY DEF Shapes

(* Only the request and the late events change: the readers do not see it. *)
LEMMA ReadersSeeNothing ==
    ASSUME IInv, UNCHANGED <<log, sent, reader, got, lost>>
    PROVE  \A s \in Readers : ReaderInv(s)'
BY UntouchedReader DEF IInv

LEMMA LockKeeps ==
    ASSUME IInv, NEW r \in Requests, NEW k \in CommandIds, Lock(r, k)
    PROVE  IInv'
<1> USE DEF Lock, IInv
<1>1. request[r].records = << >> /\ Range(<< >>) = {}
  BY DEF RequestsStand, Range
<1>4. budget'.events = budget.events /\ budget' \in Budgets
  BY Budget DEF Shapes
<1>2. Shapes'
  <2>1. [stage |-> "handling", command_id |-> k, records |-> << >>] \in RequestRecords
    BY DEF RequestRecords
  <2> QED  BY <1>4, <2>1, OneRequest DEF Shapes
<1>3. RequestsStand'
  BY DEF RequestsStand, HoldsLock, Shapes
<1>5. NumbersAreNew' /\ LateIsAbandoned'
  BY <1>4 DEF NumbersAreNew, LateIsAbandoned, Logged, NextSeq
<1>6. \A q \in Requests : request'[q].records = request[q].records
  BY <1>1 DEF Shapes
<1>7. RecordsAreLogged' /\ UnsentHasOwner'
  BY <1>4, <1>6 DEF RecordsAreLogged, UnsentHasOwner, Held, Logged
<1> QED  BY <1>2, <1>3, <1>5, <1>7, ReadersSeeNothing

LEMMA LogEventKeeps ==
    ASSUME IInv, NEW r \in Requests, LogEvent(r)
    PROVE  IInv'
<1> USE DEF IInv
<1> DEFINE n == NextSeq
<1>1. /\ budget \in Budgets /\ Spend("events")
      /\ log' = Append(log, n) /\ log \in Seq(Seqs)
      /\ request' = [request EXCEPT ![r].records = Append(@, n)]
      /\ request \in [Requests -> RequestRecords]
      /\ command_log \in [CommandIds -> Seqs \cup {0}]
      /\ UNCHANGED <<late, abandoned, sent, reader, got, lost>>
      /\ HoldsLock(r)
  BY DEF LogEvent, Shapes
<1>2. n \in Seqs /\ n \in Nat /\ n' = n + 1 /\ budget' \in Budgets
  <2>1. /\ budget' \in Budgets
        /\ budget'.events = budget.events - 1 /\ budget.events > 0
    BY <1>1, Budget
  <2>2. budget.events \in 0 .. MaxEvents
    BY <1>1 DEF Budgets
  <2> QED  BY <2>1, <2>2, EventStreamsAssumption DEF NextSeq, Seqs
<1>3. n \notin Logged /\ \A entry \in late : entry.seq # n
  BY <1>2 DEF NumbersAreNew
<1>4. \/ command_log' = [command_log EXCEPT ![KeyOf(r)] = n] /\ KeyOf(r) \in CommandIds
      \/ command_log' = command_log
  BY <1>1 DEF LogEvent, RequestsStand, KeyOf
<1> HIDE DEF n
<1>5. Logged' = Logged \cup {n}
  BY <1>1, <1>2, RangeOfAppend DEF Logged
<1>6. request[r] \in RequestRecords /\ request[r].records \in Seq(Seqs)
  BY <1>1 DEF RequestRecords
<1>7. /\ request'[r].records = Append(request[r].records, n)
      /\ request'[r].stage = request[r].stage
      /\ request'[r].command_id = request[r].command_id
      /\ \A q \in Requests \ {r} : request'[q] = request[q]
      /\ request' \in [Requests -> RequestRecords]
  <2> DEFINE v == [request[r] EXCEPT !.records = Append(@, n)]
  <2>1. Append(request[r].records, n) \in Seq(Seqs)
    BY <1>2, <1>6
  <2>2. /\ v \in RequestRecords /\ v.records = Append(request[r].records, n)
        /\ v.stage = request[r].stage /\ v.command_id = request[r].command_id
    BY <1>6, <2>1, RecordsChange
  <2>3. request' = [request EXCEPT ![r] = v]
    BY <1>1
  <2> HIDE DEF v
  <2> QED  BY <2>2, <2>3, OneRequest
<1>8. /\ Range(request'[r].records) = Range(request[r].records) \cup {n}
      /\ request'[r].records # << >>
  BY <1>2, <1>6, <1>7, RangeOfAppend
<1>9. Shapes'
  <2>1. log' \in Seq(Seqs)
    BY <1>1, <1>2
  <2>2. command_log' \in [CommandIds -> Seqs \cup {0}]
    BY <1>1, <1>2, <1>4
  <2> QED  BY <1>1, <1>2, <1>7, <2>1, <2>2 DEF Shapes
<1>10. RequestsStand'
  BY <1>1, <1>7, <1>8 DEF RequestsStand, HoldsLock
<1>11. NumbersAreNew'
  <2>1. \A i, j \in DOMAIN log' : log'[i] = log'[j] => i = j
    <3>1. \A i \in DOMAIN log' : (i \in DOMAIN log /\ log'[i] = log[i] /\ log[i] \in Logged)
                                \/ (i = Len(log) + 1 /\ log'[i] = n)
      BY <1>1 DEF Logged, Range
    <3> QED  BY <1>3, <3>1 DEF NumbersAreNew
  <2>2. \A m \in Logged' : m < NextSeq'
    <3>1. \A m \in Logged : m \in Nat
      BY <1>1, RangeOfSeq, EventStreamsAssumption DEF Logged, Seqs
    <3> QED  BY <1>2, <1>5, <3>1 DEF NumbersAreNew, n
  <2>3. \A entry \in late' : entry.seq < NextSeq' /\ entry.seq \notin Logged'
    <3>1. \A entry \in late : entry.seq \in Nat
      BY EventStreamsAssumption DEF Shapes, LateEntries, Seqs
    <3> QED  BY <1>1, <1>2, <1>3, <1>5, <3>1 DEF NumbersAreNew, n
  <2> QED  BY <1>1, <2>1, <2>2, <2>3 DEF NumbersAreNew
<1>12. RecordsAreLogged'
  <2>1. \A k \in CommandIds : command_log'[k] # 0 => command_log'[k] \in Logged'
    BY <1>1, <1>4, <1>5 DEF RecordsAreLogged
  <2>2. \A q \in Requests : Range(request'[q].records) \subseteq Logged'
    BY <1>5, <1>7, <1>8 DEF RecordsAreLogged
  <2> QED  BY <1>1, <1>5, <2>1, <2>2 DEF RecordsAreLogged
<1>13. LateIsAbandoned'
  BY <1>1, <1>2 DEF LateIsAbandoned
<1>14. UnsentHasOwner'
  BY <1>1, <1>5, <1>7, <1>8 DEF UnsentHasOwner, Held
<1>15. \A s \in Readers : ReaderInv(s)'
  BY <1>1, <1>2, <1>3, LogGrows
<1> QED  BY <1>9, <1>10, <1>11, <1>12, <1>13, <1>14, <1>15

LEMMA RetryKeeps ==
    ASSUME IInv, NEW r \in Requests, Retry(r)
    PROVE  IInv'
<1> USE DEF IInv
<1> DEFINE n == command_log[KeyOf(r)]
<1>1. /\ request \in [Requests -> RequestRecords]
      /\ request[r].records = << >> /\ KeyOf(r) \in CommandIds /\ n # 0 /\ n \in Seqs
      /\ request' = [request EXCEPT ![r] = [@ EXCEPT !.stage = "sending", !.records = <<n>>]]
      /\ UNCHANGED <<log, command_log, late, abandoned, sent, reader, got, lost, budget>>
  BY DEF Retry, Shapes, RequestsStand, IsFirst, KeyOf
<1>2. n \in Logged
  BY <1>1 DEF RecordsAreLogged
<1> HIDE DEF n
<1>4. /\ request'[r].records = <<n>> /\ request'[r].stage = "sending"
      /\ \A q \in Requests \ {r} : request'[q] = request[q]
      /\ request' \in [Requests -> RequestRecords]
  <2> DEFINE v == [request[r] EXCEPT !.stage = "sending", !.records = <<n>>]
  <2>1. v \in RequestRecords /\ v.records = <<n>> /\ v.stage = "sending"
    <3>1. request[r] \in RequestRecords /\ <<n>> \in Seq(Seqs)
      BY <1>1
    <3> QED  BY <3>1, RecordsChange
  <2>2. request' = [request EXCEPT ![r] = v]
    BY <1>1
  <2> HIDE DEF v
  <2> QED  BY <2>1, <2>2, OneRequest
<1>5. Range(<<n>>) = {n} /\ <<n>> # << >> /\ Range(<< >>) = {}
  BY DEF Range
<1>6. Shapes' /\ NumbersAreNew' /\ LateIsAbandoned'
  BY <1>1, <1>4 DEF Shapes, NumbersAreNew, LateIsAbandoned, Logged, NextSeq
<1>7. RequestsStand'
  BY <1>4, <1>5 DEF RequestsStand, HoldsLock
<1>8. RecordsAreLogged'
  BY <1>1, <1>2, <1>4, <1>5 DEF RecordsAreLogged, Logged
<1>9. UnsentHasOwner'
  BY <1>1, <1>4, <1>5 DEF UnsentHasOwner, Held, Logged
<1> QED  BY <1>1, <1>6, <1>7, <1>8, <1>9, ReadersSeeNothing

LEMMA HandledKeeps ==
    ASSUME IInv, NEW r \in Requests, Handled(r)
    PROVE  IInv'
<1> USE DEF IInv
<1>1. /\ request \in [Requests -> RequestRecords]
      /\ request[r].records # << >>
      /\ request' = [request EXCEPT ![r].stage = "sending", ![r].records = request[r].records]
      /\ UNCHANGED <<log, command_log, late, abandoned, sent, reader, got, lost, budget>>
  BY DEF Handled, Shapes, IsFirst, ItsRecords
<1>2. request' \in [Requests -> RequestRecords]
  BY <1>1 DEF RequestRecords
<1>3. /\ \A q \in Requests : request'[q].records = request[q].records
      /\ request'[r].stage = "sending"
      /\ \A q \in Requests \ {r} : request'[q] = request[q]
  BY <1>1 DEF RequestRecords
<1>4. Shapes' /\ NumbersAreNew' /\ LateIsAbandoned'
  BY <1>1, <1>2 DEF Shapes, NumbersAreNew, LateIsAbandoned, Logged, NextSeq
<1>5. RequestsStand'
  BY <1>1, <1>3 DEF RequestsStand, HoldsLock
<1>6. RecordsAreLogged' /\ UnsentHasOwner'
  BY <1>1, <1>3 DEF RecordsAreLogged, UnsentHasOwner, Held, Logged
<1> QED  BY <1>1, <1>4, <1>5, <1>6, ReadersSeeNothing

LEMMA GiveUpKeeps ==
    ASSUME IInv, NEW r \in Requests, GiveUp(r)
    PROVE  IInv'
<1> USE DEF IInv
<1> DEFINE records == Range(request[r].records)
<1>9. records \subseteq Seqs
  <2>1. request[r].records \in Seq(Seqs)
    BY DEF Shapes, RequestRecords
  <2> QED  BY <2>1, RangeOfSeq
<1> HIDE DEF records
<1>1. /\ request' = [request EXCEPT ![r] = NoRequest]
      /\ UNCHANGED <<log, command_log, sent, reader, got, lost>>
      /\ HoldsLock(r) /\ budget \in Budgets
  BY DEF GiveUp, Forgotten, Shapes
<1>2. NoRequest \in RequestRecords /\ NoRequest.records = << >> /\ NoRequest.stage = "none"
  BY DEF NoRequest, RequestRecords
<1>3. /\ request' \in [Requests -> RequestRecords]
      /\ request'[r] = NoRequest
      /\ \A q \in Requests \ {r} : request'[q] = request[q]
  BY <1>1, <1>2, OneRequest
<1>4. RequestsStand'
  BY <1>2, <1>3 DEF RequestsStand, HoldsLock
<1>5. Range(<< >>) = {}
  BY DEF Range
<1>6. RecordsAreLogged'
  BY <1>1, <1>2, <1>3, <1>5 DEF RecordsAreLogged, Logged
<1>7. Shapes' /\ NumbersAreNew' /\ LateIsAbandoned'
  <2>1. CASE Spend("faults") /\ abandoned' = abandoned \cup records /\ UNCHANGED late
    <3>1. budget' \in Budgets /\ budget'.events = budget.events
      BY <1>1, <2>1, Budget
    <3> QED  BY <1>1, <1>3, <1>9, <2>1, <3>1
             DEF Shapes, NumbersAreNew, LateIsAbandoned, Logged, NextSeq
  <2>2. CASE /\ MayLog(r)
             /\ budget.events > 0 /\ budget.faults > 0
             /\ budget' = [budget EXCEPT !.events = @ - 1, !.faults = @ - 1]
             /\ late' = late \cup {[seq |-> NextSeq, first |-> IsFirst(r),
                                    command_id |-> KeyOf(r)]}
             /\ abandoned' = abandoned \cup records \cup {NextSeq}
    <3> DEFINE n     == NextSeq
               first == IsFirst(r)
               entry == [seq |-> n, first |-> first, command_id |-> KeyOf(r)]
    <3>1. budget' \in Budgets /\ budget'.events = budget.events - 1
      <4>1. /\ budget.events \in 1 .. MaxEvents /\ budget.faults \in 1 .. MaxFaults
            /\ budget.requests \in Nat /\ budget.resumes \in Nat
        BY <1>1, <2>2, EventStreamsAssumption DEF Budgets
      <4>2. /\ budget'.events = budget.events - 1 /\ budget'.faults = budget.faults - 1
            /\ budget' = [requests |-> budget.requests, events |-> budget.events - 1,
                          faults |-> budget.faults - 1, resumes |-> budget.resumes]
        BY <1>1, <2>2 DEF Budgets
      <4>3. budget.events - 1 \in 0 .. MaxEvents /\ budget.faults - 1 \in 0 .. MaxFaults
        BY <4>1, EventStreamsAssumption
      <4>4. budget' \in Budgets
        BY <4>1, <4>2, <4>3 DEF Budgets
      <4> QED  BY <4>2, <4>4
    <3>2. budget.events \in 1 .. MaxEvents
      BY <1>1, <2>2, EventStreamsAssumption DEF Budgets
    <3>3. n \in Seqs /\ n \in Nat /\ n' = n + 1
      BY <3>1, <3>2, EventStreamsAssumption DEF NextSeq, Seqs
    <3>4. entry \in LateEntries /\ entry.seq = n
      <4>1. KeyOf(r) \in CommandIds /\ first \in BOOLEAN
        BY <1>1 DEF RequestsStand, KeyOf, IsFirst
      <4> HIDE DEF n, first
      <4> QED  BY <3>3, <4>1 DEF LateEntries
    <3>5. late' = late \cup {entry}
      BY <2>2
    <3> HIDE DEF entry
    <3>6. Shapes'
      <4>1. abandoned' \in SUBSET Seqs
        BY <1>9, <2>2, <3>3 DEF Shapes, n
      <4> QED  BY <1>1, <1>3, <3>1, <3>4, <3>5, <4>1 DEF Shapes
    <3>7. /\ Logged' = Logged /\ \A m \in Logged : m < n /\ m \in Nat
          /\ \A e \in late : e.seq < n /\ e.seq \notin Logged /\ e.seq \in Nat
      <4>1. \A m \in Logged : m \in Nat
        BY RangeOfSeq, EventStreamsAssumption DEF Shapes, Logged, Seqs
      <4>2. \A e \in late : e.seq \in Nat
        BY EventStreamsAssumption DEF Shapes, LateEntries, Seqs
      <4> QED  BY <1>1, <4>1, <4>2 DEF NumbersAreNew, Logged
    <3> HIDE DEF n
    <3>8. \A m \in Logged' : m < n'
      BY <3>3, <3>7
    <3>9. \A e \in late' : e.seq < n' /\ e.seq \notin Logged'
      BY <3>3, <3>4, <3>5, <3>7
    <3>10. \A e, f \in late' : e.seq = f.seq => e = f
      BY <3>3, <3>4, <3>5, <3>7 DEF NumbersAreNew
    <3>11. NumbersAreNew'
      BY <1>1, <3>8, <3>9, <3>10 DEF NumbersAreNew, n
    <3>12. LateIsAbandoned'
      BY <2>2, <3>4, <3>5 DEF LateIsAbandoned, n
    <3> QED  BY <3>6, <3>11, <3>12
  <2> QED  BY <2>1, <2>2 DEF GiveUp, records
<1>8. UnsentHasOwner'
  <2>1. abandoned \cup records \subseteq abandoned'
    BY DEF GiveUp, records
  <2>2. ASSUME NEW n, Held(n) PROVE Held(n)' \/ n \in records
    BY <1>3, <2>2 DEF Held, records
  <2> QED  BY <1>1, <2>1, <2>2 DEF UnsentHasOwner, Logged
<1> QED  BY <1>1, <1>4, <1>6, <1>7, <1>8, ReadersSeeNothing

LEMMA LateEventKeeps ==
    ASSUME IInv, NEW entry \in late, LateEvent(entry)
    PROVE  IInv'
<1> USE DEF IInv
<1>1. /\ late' = late \ {entry} /\ late' \in SUBSET LateEntries
      /\ entry \in LateEntries /\ entry.seq \in Seqs /\ entry.command_id \in CommandIds
      /\ UNCHANGED <<abandoned, request, sent, reader, got, lost, budget>>
      /\ log \in Seq(Seqs) /\ command_log \in [CommandIds -> Seqs \cup {0}]
  BY DEF LateEvent, Shapes, LateEntries
<1>2. RequestsStand' /\ LateIsAbandoned' /\ entry.seq \in abandoned
  BY <1>1 DEF RequestsStand, HoldsLock, LateIsAbandoned
<1>3. CASE UNCHANGED <<log, command_log>>
  <2>1. Shapes' /\ NumbersAreNew' /\ RecordsAreLogged' /\ UnsentHasOwner'
    BY <1>1, <1>3 DEF Shapes, NumbersAreNew, RecordsAreLogged, UnsentHasOwner, Held, Logged, NextSeq
  <2> QED  BY <1>1, <1>2, <1>3, <2>1, ReadersSeeNothing
<1>4. CASE /\ log' = Append(log, entry.seq)
           /\ command_log' = IF entry.first
                             THEN [command_log EXCEPT ![entry.command_id] = entry.seq]
                             ELSE command_log
  <2>1. entry.seq \notin Logged /\ entry.seq < NextSeq
    BY DEF NumbersAreNew
  <2>2. Logged' = Logged \cup {entry.seq}
    BY <1>1, <1>4, RangeOfAppend DEF Logged
  <2>3. Shapes'
    <3>1. log' \in Seq(Seqs)
      BY <1>1, <1>4
    <3>2. command_log' \in [CommandIds -> Seqs \cup {0}]
      BY <1>1, <1>4
    <3> QED  BY <1>1, <3>1, <3>2 DEF Shapes
  <2>4. NumbersAreNew'
    <3>1. \A i \in DOMAIN log' : (i \in DOMAIN log /\ log'[i] = log[i] /\ log[i] \in Logged)
                                \/ (i = Len(log) + 1 /\ log'[i] = entry.seq)
      BY <1>1, <1>4 DEF Logged, Range
    <3>2. \A i, j \in DOMAIN log' : log'[i] = log'[j] => i = j
      BY <2>1, <3>1 DEF NumbersAreNew
    <3>3. NextSeq' = NextSeq
      BY <1>1 DEF NextSeq
    <3>4. \A e \in late' : e.seq # entry.seq
      BY <1>1 DEF NumbersAreNew
    <3> QED  BY <1>1, <2>1, <2>2, <3>2, <3>3, <3>4 DEF NumbersAreNew
  <2>5. RecordsAreLogged'
    BY <1>1, <1>4, <2>2 DEF RecordsAreLogged
  <2>6. \A s \in Readers : ReaderInv(s)'
    BY <1>1, <1>4, <2>1, LogGrows
  <2>7. UnsentHasOwner'
    BY <1>1, <1>2, <2>2 DEF UnsentHasOwner, Held
  <2> QED  BY <1>2, <2>3, <2>4, <2>5, <2>6, <2>7
<1> QED  BY <1>3, <1>4 DEF LateEvent

LEMMA SendKeeps ==
    ASSUME IInv, NEW r \in Requests, Send(r)
    PROVE  IInv'
<1> USE DEF IInv
<1> DEFINE records == request[r].records
           n       == Head(records)
           rest    == IF Len(records) = 1 THEN NoRequest
                      ELSE [request[r] EXCEPT !.records = Tail(@)]
<1>1. /\ request[r].stage = "sending" /\ request[r] \in RequestRecords
      /\ records \in Seq(Seqs) /\ records # << >> /\ sent \in Seq(Seqs)
  <2>1. request[r] \in RequestRecords /\ sent \in Seq(Seqs)
    BY DEF Shapes
  <2>2. records \in Seq(Seqs)
    BY <2>1 DEF RequestRecords
  <2>3. request[r].stage = "sending" /\ records # << >>
    BY DEF Send, RequestsStand
  <2> QED  BY <2>1, <2>2, <2>3
<1>2. /\ sent' = Append(sent, n) /\ request' = [request EXCEPT ![r] = rest]
      /\ UNCHANGED <<log, command_log, late, abandoned, reader, got, lost, budget>>
  BY DEF Send
<1>3. n \in Seqs /\ n \in Range(records) /\ n \in Logged
  <2>1. n \in Seqs /\ n \in Range(records)
    <3> HIDE DEF records
    <3> QED  BY <1>1, RangeOfTail
  <2> QED  BY <2>1 DEF RecordsAreLogged
<1>4. /\ rest \in RequestRecords /\ rest.stage \in {"none", "sending"}
      /\ rest.stage = "none" => rest.records = << >>
      /\ rest.stage = "sending" => rest.records # << >>
      /\ Range(rest.records) \subseteq Range(records)
      /\ Range(records) \subseteq Range(rest.records) \cup {n}
  <2>1. CASE Len(records) = 1
    <3>1. rest = NoRequest
      BY <2>1
    <3>2. Range(records) = {n}
      <4> HIDE DEF records
      <4> QED  BY <1>1, <2>1, RangeOfTail
    <3>3. NoRequest \in RequestRecords /\ NoRequest.stage = "none" /\ NoRequest.records = << >>
      BY DEF NoRequest, RequestRecords
    <3>4. Range(<< >>) = {}
      BY DEF Range
    <3> HIDE DEF rest
    <3> QED  BY <1>3, <3>1, <3>2, <3>3, <3>4
  <2>2. CASE Len(records) # 1
    <3> DEFINE others == Tail(records)
    <3>1. rest = [request[r] EXCEPT !.records = others]
      BY <2>2
    <3>2. /\ others \in Seq(Seqs) /\ others # << >>
          /\ Range(records) = Range(others) \cup {n}
      <4> HIDE DEF records
      <4> QED  BY <1>1, <2>2, RangeOfTail
    <3> HIDE DEF others
    <3>3. rest.records = others /\ rest.stage = "sending" /\ rest \in RequestRecords
      <4> HIDE DEF rest
      <4> QED  BY <1>1, <3>1, <3>2, RecordsChange
    <3> HIDE DEF rest, records
    <3> QED  BY <3>2, <3>3
  <2> QED  BY <2>1, <2>2
<1> HIDE DEF rest, n, records
<1>5. /\ request' \in [Requests -> RequestRecords]
      /\ request'[r] = rest
      /\ \A q \in Requests \ {r} : request'[q] = request[q]
  BY <1>2, <1>4, OneRequest
<1>6. sent' \in Seq(Seqs) /\ Range(sent') = Range(sent) \cup {n}
  BY <1>1, <1>2, <1>3, AppendProperties, RangeOfAppend
<1>7. Shapes' /\ NumbersAreNew' /\ LateIsAbandoned'
  BY <1>2, <1>5, <1>6 DEF Shapes, NumbersAreNew, LateIsAbandoned, Logged, NextSeq
<1>8. RequestsStand'
  BY <1>4, <1>5 DEF RequestsStand, HoldsLock
<1>9. RecordsAreLogged'
  <2>1. Range(records) \subseteq Logged
    BY DEF RecordsAreLogged, records
  <2> QED  BY <1>2, <1>3, <1>4, <1>5, <1>6, <2>1 DEF RecordsAreLogged, Logged
<1>10. UnsentHasOwner'
  <2> SUFFICES ASSUME NEW m \in Logged, m \notin Range(sent), m # n, m \notin abandoned
               PROVE  \E q \in Requests : m \in Range(request'[q].records)
    BY <1>2, <1>6 DEF UnsentHasOwner, Held, Logged
  <2>1. PICK q \in Requests : m \in Range(request[q].records)
    BY DEF UnsentHasOwner, Held
  <2>2. m \in Range(request'[q].records)
    BY <1>4, <1>5, <2>1 DEF records
  <2> QED  BY <2>2
<1>11. \A s \in Readers : ReaderInv(s)'
  BY <1>2, <1>3, ChannelGrows
<1> QED  BY <1>7, <1>8, <1>9, <1>10, <1>11

-------------------------------------------------------------------------------
(* The steps of a reader.                                                  *)

(* One reader moves: the requests, the log and the channel stay, and so do *)
(* the other readers.                                                      *)
LEMMA OneReader ==
    ASSUME IInv, NEW s \in Readers, NEW v \in ReaderRecords,
           reader' = [reader EXCEPT ![s] = v], got' \in [Readers -> Seq(Seqs)],
           lost' \in [Readers -> SUBSET Seqs], budget' \in Budgets,
           budget'.events = budget.events,
           \A t \in Readers \ {s} : got'[t] = got[t] /\ lost'[t] = lost[t],
           UNCHANGED <<log, command_log, late, abandoned, request, sent>>,
           reader'[s] = v => ReaderInv(s)'
    PROVE  IInv'
<1> USE DEF IInv
<1>1. reader' \in [Readers -> ReaderRecords]
  BY DEF Shapes
<1>2. reader'[s] = v /\ \A t \in Readers \ {s} : reader'[t] = reader[t]
  BY DEF Shapes
<1>3. \A t \in Readers : ReaderInv(t)'
  <2>1. \A t \in Readers \ {s} : ReaderInv(t)'
    BY <1>2, UntouchedReader
  <2> QED  BY <1>2, <2>1
<1>4. Shapes' /\ RequestsStand' /\ NumbersAreNew' /\ RecordsAreLogged'
  BY <1>1 DEF Shapes, RequestsStand, HoldsLock, NumbersAreNew, NextSeq, RecordsAreLogged, Logged
<1>5. LateIsAbandoned' /\ UnsentHasOwner'
  BY DEF LateIsAbandoned, UnsentHasOwner, Held, Logged
<1> QED  BY <1>3, <1>4, <1>5

LEMMA SubscribedTypes ==
    ASSUME Shapes, NEW kind \in {"stream", "subscription"}, NEW stage \in {"replay", "live"},
           NEW from \in Nat
    PROVE  LET v == Subscribed(kind, stage, from)
           IN  /\ v \in ReaderRecords /\ v.kind = kind /\ v.stage = stage
               /\ v.from_seq = from /\ v.cursor = from
               /\ v.start = Len(sent) + 1 /\ v.next = Len(sent) + 1 /\ Len(sent) \in Nat
               /\ v.asked = from /\ v.queried = 0
<1>1. Len(sent) \in Nat
  BY DEF Shapes
<1> QED  BY <1>1 DEF Subscribed, ReaderRecords

LEMMA StreamEventsKeeps ==
    ASSUME IInv, NEW s \in Streams, NEW from \in FromSeqs, StreamEvents(s, from)
    PROVE  IInv'
<1> USE DEF IInv
<1> DEFINE v == Subscribed("stream", "replay", from)
<1>1. /\ reader[s].stage = "off" /\ reader' = [reader EXCEPT ![s] = v]
      /\ UNCHANGED <<log, command_log, late, abandoned, request, sent, got, lost, budget>>
  BY DEF StreamEvents
<1>2. s \in Readers /\ from \in Nat
  BY EventStreamsAssumption DEF Readers
<1>3. /\ v \in ReaderRecords /\ v.kind = "stream" /\ v.stage = "replay"
      /\ v.from_seq = from /\ v.cursor = from /\ v.asked = from /\ v.queried = 0
      /\ v.start = Len(sent) + 1 /\ v.next = Len(sent) + 1 /\ Len(sent) \in Nat
  BY <1>2, SubscribedTypes
<1> HIDE DEF v
<1>4. got[s] = << >> /\ ReaderInv(s)
  BY <1>1, <1>2 DEF ReaderInv, Stands
<1>5. ASSUME reader'[s] = v
      PROVE  ReaderInv(s)'
  <2>1. IsStream(s)'
    BY <1>3, <1>5 DEF IsStream
  <2>2. Stands(s)'
    BY <1>1, <1>3, <1>4, <1>5 DEF Stands, IsStream, CursorAfter
  <2>3. Range(got[s])' \subseteq Logged'
    BY <1>1, <1>4 DEF ReaderInv, Logged
  <2>4. StreamClimbs(s)'
    BY <1>1, <1>4 DEF StreamClimbs, Climbs
  <2>5. \A n \in Logged' : n \in Nat
    BY <1>1, RangeOfSeq, EventStreamsAssumption DEF Shapes, Logged, Seqs
  <2>6. BehindCursor(s)'
    BY <1>2, <1>3, <1>5, <2>5 DEF BehindCursor
  <2>7. FromCursorOn(s)' /\ SubscriptionGives(s)' /\ QueryStarts(s)' /\ Echoes(s)'
    BY <1>3, <1>5 DEF FromCursorOn, SubscriptionGives, QueryStarts, IsStream, Echoes
  <2> QED  BY <2>2, <2>3, <2>4, <2>6, <2>7 DEF ReaderInv
<1> QED  BY <1>1, <1>2, <1>3, <1>5, OneReader DEF Shapes

LEMMA ResumeKeeps ==
    ASSUME IInv, NEW s \in Streams, Resume(s)
    PROVE  IInv'
<1> USE DEF IInv
<1> DEFINE from == CursorAfter(reader[s].from_seq, got[s])
           sub  == Subscribed("stream", "replay", from)
           v    == [sub EXCEPT !.from_seq = reader[s].from_seq, !.asked = reader[s].asked]
<1>1. /\ IsStream(s) /\ reader' = [reader EXCEPT ![s] = v] /\ Spend("resumes")
      /\ UNCHANGED <<log, command_log, late, abandoned, request, sent, got, lost>>
  BY DEF Resume
<1>2. /\ s \in Readers /\ reader[s] \in ReaderRecords /\ got[s] \in Seq(Seqs) /\ ReaderInv(s)
      /\ budget \in Budgets
  BY DEF Readers, Shapes
<1>3. /\ from = reader[s].cursor /\ from \in Nat /\ reader[s].from_seq \in Nat
      /\ reader[s].asked \in Nat /\ reader[s].asked = reader[s].from_seq
  BY <1>1, <1>2 DEF ReaderInv, Stands, ReaderRecords
<1> HIDE DEF from
<1>4. /\ sub \in ReaderRecords /\ sub.kind = "stream" /\ sub.stage = "replay"
      /\ sub.cursor = from /\ sub.queried = 0
      /\ sub.start = Len(sent) + 1 /\ sub.next = Len(sent) + 1 /\ Len(sent) \in Nat
  BY <1>3, SubscribedTypes
<1> HIDE DEF sub
<1>5. /\ v \in ReaderRecords /\ v.kind = "stream" /\ v.stage = "replay"
      /\ v.from_seq = reader[s].from_seq /\ v.cursor = from
      /\ v.start = Len(sent) + 1 /\ v.next = Len(sent) + 1
      /\ v.asked = v.from_seq /\ v.queried = 0
  BY <1>3, <1>4 DEF ReaderRecords
<1> HIDE DEF v
<1>6. budget' \in Budgets /\ budget'.events = budget.events
  BY <1>1, <1>2, Budget
<1>7. ASSUME reader'[s] = v
      PROVE  ReaderInv(s)'
  <2>1. Stands(s)'
    BY <1>1, <1>2, <1>4, <1>5, <1>7 DEF Stands, IsStream, from
  <2>2. Range(got[s])' \subseteq Logged' /\ StreamClimbs(s)'
    BY <1>1, <1>2, <1>5, <1>7 DEF ReaderInv, Logged, StreamClimbs, IsStream
  <2>3. BehindCursor(s)'
    BY <1>1, <1>2, <1>3, <1>5, <1>7
       DEF ReaderInv, BehindCursor, Logged, ComesLate, PassedOver
  <2>4. FromCursorOn(s)' /\ SubscriptionGives(s)' /\ QueryStarts(s)' /\ Echoes(s)'
    BY <1>5, <1>7 DEF FromCursorOn, SubscriptionGives, QueryStarts, IsStream, Echoes
  <2> QED  BY <2>1, <2>2, <2>3, <2>4 DEF ReaderInv
<1> QED  BY <1>1, <1>2, <1>5, <1>6, <1>7, OneReader DEF Shapes

LEMMA ConcatClimbs ==
    ASSUME NEW g \in Seq(Seqs), NEW rows \in Seq(Seqs), Climbs(g), Climbs(rows),
           NEW bound \in Nat,
           \A i \in DOMAIN g : g[i] < bound, \A i \in DOMAIN rows : rows[i] >= bound
    PROVE  Climbs(g \o rows)
<1>1. /\ Len(g) \in Nat /\ Len(rows) \in Nat
      /\ DOMAIN g = 1 .. Len(g) /\ DOMAIN rows = 1 .. Len(rows)
      /\ DOMAIN (g \o rows) = 1 .. Len(g) + Len(rows)
      /\ \A i \in 1 .. Len(g) + Len(rows) :
            (g \o rows)[i] = IF i <= Len(g) THEN g[i] ELSE rows[i - Len(g)]
  BY LenProperties, ConcatProperties
<1>2. /\ \A i \in DOMAIN g : g[i] \in Nat
      /\ \A i \in DOMAIN rows : rows[i] \in Nat
  BY EventStreamsAssumption DEF Seqs
<1> SUFFICES ASSUME NEW i \in 1 .. Len(g) + Len(rows), NEW j \in 1 .. Len(g) + Len(rows), i < j
             PROVE  (g \o rows)[i] < (g \o rows)[j]
  BY <1>1 DEF Climbs
<1>3. CASE j <= Len(g)
  BY <1>1, <1>3 DEF Climbs
<1>4. CASE i > Len(g)
  <2>1. i - Len(g) \in DOMAIN rows /\ j - Len(g) \in DOMAIN rows /\ i - Len(g) < j - Len(g)
    BY <1>1, <1>4
  <2>2. (g \o rows)[i] = rows[i - Len(g)] /\ (g \o rows)[j] = rows[j - Len(g)]
    BY <1>1, <1>4
  <2> QED  BY <2>1, <2>2 DEF Climbs
<1>5. CASE i <= Len(g) /\ j > Len(g)
  <2>1. i \in DOMAIN g /\ j - Len(g) \in DOMAIN rows
    BY <1>1, <1>5
  <2>2. (g \o rows)[i] = g[i] /\ (g \o rows)[j] = rows[j - Len(g)]
    BY <1>1, <1>5
  <2> QED  BY <1>2, <2>1, <2>2
<1> QED  BY <1>1, <1>3, <1>4, <1>5

LEMMA ReplayKeeps ==
    ASSUME IInv, NEW s \in Streams, Replay(s)
    PROVE  IInv'
<1> USE DEF IInv
<1> DEFINE from == reader[s].cursor
           rows == ReadFrom(from).rows
           v    == [reader[s] EXCEPT !.stage = "live", !.cursor = CursorAfter(from, rows)]
           g    == got[s] \o rows
<1>1. /\ reader[s].stage = "replay" /\ ~ (from > MaxBigint)
      /\ reader' = [reader EXCEPT ![s] = v]
      /\ got' = [got EXCEPT ![s] = g]
      /\ UNCHANGED <<log, command_log, late, abandoned, request, sent, lost, budget>>
  BY DEF Replay, ReadFrom
<1>2. /\ s \in Readers /\ reader[s] \in ReaderRecords /\ got[s] \in Seq(Seqs) /\ ReaderInv(s)
      /\ log \in Seq(Seqs)
  BY DEF Readers, Shapes
<1>3. /\ from \in Nat /\ reader[s].from_seq \in Nat /\ reader[s].next \in Nat
      /\ reader[s].start \in Nat /\ MaxBigint \in Nat
  BY <1>2, EventStreamsAssumption DEF ReaderRecords
<1>4. /\ rows \in Seq(Seqs) /\ Climbs(rows) /\ Range(rows) = {n \in Logged : n >= from}
  BY <1>2, <1>3, RowsOfRead
<1>5. \A i \in DOMAIN rows : rows[i] >= from
  BY <1>4 DEF Range
<1>6. /\ IsStream(s) /\ from = CursorAfter(reader[s].from_seq, got[s])
      /\ Climbs(got[s]) /\ \A i \in DOMAIN got[s] : got[s][i] >= reader[s].from_seq
      /\ Range(got[s]) \subseteq Logged
  BY <1>1, <1>2 DEF ReaderInv, Stands, StreamClimbs
<1> HIDE DEF from, rows
<1>7. reader[s].from_seq <= from /\ \A i \in DOMAIN got[s] : got[s][i] < from
  BY <1>2, <1>3, <1>6, CursorIsBehind
<1>8. /\ CursorAfter(from, rows) \in Nat /\ from <= CursorAfter(from, rows)
  BY <1>3, <1>4, <1>5, CursorIsBehind
<1>9. CursorAfter(from, rows) = CursorAfter(reader[s].from_seq, g)
  BY <1>2, <1>3, <1>4, <1>6, CursorBehindConcat
<1>10. /\ v \in ReaderRecords /\ v.kind = "stream" /\ v.stage = "live"
       /\ v.from_seq = reader[s].from_seq /\ v.cursor = CursorAfter(from, rows)
       /\ v.start = reader[s].start /\ v.next = reader[s].next
       /\ v.asked = reader[s].asked /\ v.queried = reader[s].queried
  BY <1>2, <1>6, <1>8 DEF ReaderRecords, IsStream
<1>11. g \in Seq(Seqs) /\ Range(g) = Range(got[s]) \cup {n \in Logged : n >= from}
  BY <1>2, <1>4, ConcatProperties, RangeConcatenation
<1>12. Climbs(g) /\ \A i \in DOMAIN g : g[i] >= reader[s].from_seq
  <2>1. Climbs(g)
    BY <1>2, <1>3, <1>4, <1>5, <1>6, <1>7, ConcatClimbs
  <2>2. ASSUME NEW n \in Range(g)
        PROVE  n >= reader[s].from_seq
    <3>1. CASE n \in Range(got[s])
      BY <1>6, <3>1 DEF Range
    <3>2. CASE n \in Logged /\ n >= from
      <4>1. n \in Nat
        BY <1>2, <3>2, RangeOfSeq, EventStreamsAssumption DEF Logged, Seqs
      <4> QED  BY <1>3, <1>7, <3>2, <4>1
    <3> QED  BY <1>11, <2>2, <3>1, <3>2
  <2> QED  BY <2>1, <2>2 DEF Range
<1> HIDE DEF v, g
<1>13. got' \in [Readers -> Seq(Seqs)] /\ got'[s] = g /\ \A t \in Readers \ {s} : got'[t] = got[t]
  BY <1>1, <1>2, <1>11 DEF Shapes
<1>14. ASSUME reader'[s] = v
       PROVE  ReaderInv(s)'
  <2>1. Stands(s)'
    <3>1. reader[s].start <= reader[s].next /\ reader[s].next <= Len(sent) + 1
      BY <1>2 DEF ReaderInv, Stands
    <3>2. reader[s].start >= 1
      BY <1>1, <1>2 DEF ReaderInv, Stands
    <3>3. reader[s].from_seq <= MaxBigint
      BY <1>1, <1>3, <1>7
    <3>4. reader[s].asked = reader[s].from_seq /\ reader[s].queried = 0 /\ Len(g) \in Nat
      BY <1>2, <1>6, <1>11 DEF ReaderInv, Stands
    <3> QED  BY <1>1, <1>9, <1>10, <1>13, <1>14, <3>1, <3>2, <3>3, <3>4 DEF Stands, IsStream
  <2>2. Range(got[s])' \subseteq Logged'
    BY <1>1, <1>6, <1>11, <1>13 DEF Logged
  <2>3. StreamClimbs(s)'
    BY <1>10, <1>12, <1>13, <1>14 DEF StreamClimbs, Climbs
  <2>4. \A n \in Logged \ Range(g) : n \in Nat /\ n < from
    <3>1. \A n \in Logged : n \in Nat
      BY <1>2, RangeOfSeq, EventStreamsAssumption DEF Logged, Seqs
    <3> QED  BY <1>3, <1>11, <3>1
  <2>5. BehindCursor(s)'
    BY <1>1, <1>2, <1>6, <1>10, <1>11, <1>13, <1>14, <2>4
       DEF ReaderInv, BehindCursor, Logged, ComesLate, PassedOver, IsStream, from
  <2>6. FromCursorOn(s)'
    BY <1>1, <1>3, <1>8, <1>10, <1>13, <1>14, <2>4 DEF FromCursorOn, Logged
  <2>7. SubscriptionGives(s)' /\ QueryStarts(s)' /\ Echoes(s)'
    BY <1>10, <1>14 DEF SubscriptionGives, QueryStarts, IsStream, Echoes
  <2> QED  BY <2>1, <2>2, <2>3, <2>5, <2>6, <2>7 DEF ReaderInv
<1> QED  BY <1>1, <1>2, <1>10, <1>13, <1>14, OneReader DEF Shapes

LEMMA ReplayFailsKeeps ==
    ASSUME IInv, NEW s \in Streams, ReplayFails(s)
    PROVE  IInv'
<1> USE DEF IInv
<1> DEFINE v == [reader[s] EXCEPT !.stage = "ended"]
<1>1. /\ reader[s].stage = "replay" /\ reader' = [reader EXCEPT ![s] = v]
      /\ UNCHANGED budget \/ Spend("faults")
      /\ UNCHANGED <<log, command_log, late, abandoned, request, sent, got, lost>>
  BY DEF ReplayFails
<1>2. /\ s \in Readers /\ reader[s] \in ReaderRecords /\ ReaderInv(s) /\ budget \in Budgets
  BY DEF Readers, Shapes
<1>3. IsStream(s)
  BY <1>1, <1>2 DEF ReaderInv, Stands
<1>4. /\ v \in ReaderRecords /\ v.kind = "stream" /\ v.stage = "ended"
      /\ v.from_seq = reader[s].from_seq /\ v.cursor = reader[s].cursor
      /\ v.start = reader[s].start /\ v.next = reader[s].next
      /\ v.asked = reader[s].asked /\ v.queried = reader[s].queried
  BY <1>2, <1>3 DEF ReaderRecords, IsStream
<1> HIDE DEF v
<1>5. budget' \in Budgets /\ budget'.events = budget.events
  BY <1>1, <1>2, Budget
<1>6. ASSUME reader'[s] = v
      PROVE  ReaderInv(s)'
  <2>1. Stands(s)'
    BY <1>1, <1>2, <1>3, <1>4, <1>6 DEF ReaderInv, Stands, IsStream
  <2>2. Range(got[s])' \subseteq Logged' /\ StreamClimbs(s)'
    BY <1>1, <1>2, <1>3, <1>4, <1>6 DEF ReaderInv, Logged, StreamClimbs
  <2>3. BehindCursor(s)'
    BY <1>1, <1>2, <1>3, <1>4, <1>6
       DEF ReaderInv, BehindCursor, Logged, ComesLate, PassedOver
  <2>4. FromCursorOn(s)' /\ SubscriptionGives(s)' /\ QueryStarts(s)' /\ Echoes(s)'
    BY <1>4, <1>6 DEF FromCursorOn, SubscriptionGives, QueryStarts, IsStream, Echoes
  <2> QED  BY <2>1, <2>2, <2>3, <2>4 DEF ReaderInv
<1> QED  BY <1>1, <1>2, <1>4, <1>5, <1>6, OneReader DEF Shapes

LEMMA QueryEventsKeeps ==
    ASSUME IInv, NEW s \in Subscriptions, NEW from \in FromSeqs, QueryEvents(s, from)
    PROVE  IInv'
<1> USE DEF IInv
<1> DEFINE rows == ReadFrom(from).rows
           v    == [reader[s] EXCEPT !.stage = "queried", !.asked = from, !.queried = Len(rows)]
<1>1. /\ reader[s].stage = "off"
      /\ UNCHANGED <<log, command_log, late, abandoned, request, sent, lost, budget>>
  BY DEF QueryEvents
<1>2. /\ s \in Readers /\ reader[s] \in ReaderRecords /\ ReaderInv(s) /\ log \in Seq(Seqs)
      /\ from \in Nat /\ \A t \in Readers : ReaderInv(t)
  BY EventStreamsAssumption DEF Readers, Shapes
<1>3. CASE UNCHANGED <<got, reader>>
  <2>1. IInv'
    <3>1. \A t \in Readers : ReaderInv(t)'
      BY <1>1, <1>2, <1>3, UntouchedReader
    <3>2. UNCHANGED vars
      BY <1>1, <1>3 DEF vars
    <3> QED  BY <3>1, <3>2 DEF vars, Shapes, RequestsStand, HoldsLock, NumbersAreNew, NextSeq,
             RecordsAreLogged, Logged, LateIsAbandoned, UnsentHasOwner, Held
  <2> QED  BY <2>1
<1>4. CASE /\ got' = [got EXCEPT ![s] = rows] /\ reader' = [reader EXCEPT ![s] = v]
           /\ ~ (from > MaxBigint)
  <2>1. /\ rows \in Seq(Seqs) /\ Range(rows) = {n \in Logged : n >= from}
        /\ Len(rows) \in Nat /\ DOMAIN rows = 1 .. Len(rows)
    BY <1>2, RowsOfRead
  <2>2. reader[s].kind = "none"
    BY <1>1, <1>2 DEF ReaderInv, Stands
  <2>3. /\ v \in ReaderRecords /\ v.kind = "none" /\ v.stage = "queried"
        /\ v.start = reader[s].start /\ v.next = reader[s].next
        /\ v.asked = from /\ v.queried = Len(rows)
    BY <1>2, <2>1, <2>2 DEF ReaderRecords
  <2> HIDE DEF v, rows
  <2>4. got' \in [Readers -> Seq(Seqs)] /\ got'[s] = rows /\ \A t \in Readers \ {s} : got'[t] = got[t]
    BY <1>2, <1>4, <2>1 DEF Shapes
  <2>5. ASSUME reader'[s] = v
        PROVE  ReaderInv(s)'
    <3>1. from <= MaxBigint
      BY <1>2, <1>4, EventStreamsAssumption
    <3>2. QueryStarts(s)'
      BY <2>1, <2>3, <2>4, <2>5 DEF QueryStarts, Range
    <3>3. Stands(s)'
      BY <1>1, <1>2, <2>1, <2>3, <2>4, <2>5, <3>1 DEF ReaderInv, Stands, IsStream
    <3> QED  BY <1>1, <1>2, <2>1, <2>3, <2>4, <2>5, <3>2, <3>3
             DEF ReaderInv, IsStream, StreamClimbs, BehindCursor, FromCursorOn,
                 SubscriptionGives, Logged, Echoes
  <2> QED  BY <1>1, <1>2, <1>4, <2>3, <2>4, <2>5, OneReader DEF Shapes
<1> QED  BY <1>3, <1>4 DEF QueryEvents, ReadFrom

LEMMA EventStreamKeeps ==
    ASSUME IInv, NEW s \in Subscriptions, NEW from \in Nat, EventStream(s, from)
    PROVE  IInv'
<1> USE DEF IInv
<1> DEFINE sub == Subscribed("subscription", "live", from)
           v   == [sub EXCEPT !.asked = reader[s].asked, !.queried = reader[s].queried]
<1>1. /\ reader[s].stage = "queried" /\ reader' = [reader EXCEPT ![s] = v]
      /\ UNCHANGED <<log, command_log, late, abandoned, request, sent, got, lost, budget>>
  BY DEF EventStream
<1>2. /\ s \in Readers /\ ReaderInv(s) /\ reader[s] \in ReaderRecords
      /\ got[s] \in Seq(Seqs) /\ Len(got[s]) \in Nat
  BY DEF Readers, Shapes
<1>3. /\ v \in ReaderRecords /\ v.kind = "subscription" /\ v.stage = "live"
      /\ v.from_seq = from /\ v.cursor = from
      /\ v.start = Len(sent) + 1 /\ v.next = Len(sent) + 1 /\ Len(sent) \in Nat
      /\ v.asked = reader[s].asked /\ v.queried = reader[s].queried
  <2>1. /\ sub \in ReaderRecords /\ sub.kind = "subscription" /\ sub.stage = "live"
        /\ sub.from_seq = from /\ sub.cursor = from
        /\ sub.start = Len(sent) + 1 /\ sub.next = Len(sent) + 1 /\ Len(sent) \in Nat
    BY SubscribedTypes
  <2> HIDE DEF sub
  <2> QED  BY <1>2, <2>1 DEF ReaderRecords
<1> HIDE DEF v
<1>5. /\ ~ IsStream(s) /\ reader[s].queried = Len(got[s]) /\ reader[s].asked <= MaxBigint
  BY <1>1, <1>2 DEF ReaderInv, Stands, IsStream
<1>4. ASSUME reader'[s] = v
      PROVE  ReaderInv(s)'
  <2>1. Stands(s)'
    BY <1>1, <1>2, <1>3, <1>4, <1>5 DEF Stands, IsStream
  <2>2. Range(got[s])' \subseteq Logged'
    BY <1>1, <1>2 DEF ReaderInv, Logged
  <2>3. StreamClimbs(s)' /\ BehindCursor(s)' /\ FromCursorOn(s)'
    BY <1>3, <1>4 DEF StreamClimbs, BehindCursor, FromCursorOn, IsStream
  <2>4. DOMAIN sent = 1 .. Len(sent)
    BY LenProperties DEF Shapes
  <2>5. SubscriptionGives(s)'
    BY <1>1, <1>3, <1>4, <2>4 DEF SubscriptionGives
  <2>6. QueryStarts(s)'
    <3>1. \A i \in DOMAIN got[s] : i <= Len(got[s])
      BY <1>2
    <3> QED  BY <1>1, <1>2, <1>3, <1>4, <1>5, <3>1 DEF ReaderInv, QueryStarts
  <2>7. Echoes(s)'
    <3>1. Received(s)' = {}
      BY <1>3, <1>4 DEF Received
    <3>2. SubSeq(got[s], Len(got[s]) + 1, Len(got[s])) = << >>
      BY <1>2
    <3>3. Echoed(s, {})'
      BY <1>1, <1>3, <1>4, <1>5, <3>1, <3>2, AtNothing DEF Echoed
    <3> QED  BY <3>1, <3>3 DEF Echoes
  <2> QED  BY <2>1, <2>2, <2>3, <2>5, <2>6, <2>7 DEF ReaderInv
<1> QED  BY <1>1, <1>2, <1>3, <1>4, OneReader DEF Shapes

LEMMA BackOfAppend ==
    ASSUME NEW S, NEW g \in Seq(S), NEW e \in S, NEW q \in Nat, q <= Len(g)
    PROVE  SubSeq(Append(g, e), q + 1, Len(g) + 1) = Append(SubSeq(g, q + 1, Len(g)), e)
<1> DEFINE N    == Len(g)
           back == SubSeq(g, q + 1, N)
           more == SubSeq(Append(g, e), q + 1, N + 1)
<1>1. /\ N \in Nat /\ Append(g, e) \in Seq(S) /\ Len(Append(g, e)) = N + 1
      /\ \A i \in 1 .. N : Append(g, e)[i] = g[i]
      /\ Append(g, e)[N + 1] = e
  BY AppendProperties
<1>2. /\ back \in Seq(S) /\ Len(back) = N - q
      /\ \A i \in 1 .. N - q : back[i] = g[q + i]
  BY <1>1
<1>3. /\ more \in Seq(S) /\ Len(more) = N - q + 1
      /\ \A i \in 1 .. N - q + 1 : more[i] = Append(g, e)[q + i]
  BY <1>1
<1> HIDE DEF N, back, more
<1>4. /\ Append(back, e) \in Seq(S) /\ Len(Append(back, e)) = N - q + 1
      /\ \A i \in 1 .. N - q : Append(back, e)[i] = back[i]
      /\ Append(back, e)[N - q + 1] = e
  BY <1>2, AppendProperties
<1>5. ASSUME NEW i \in 1 .. N - q + 1
      PROVE  more[i] = Append(back, e)[i]
  <2>1. CASE i = N - q + 1
    <3>1. q + i = N + 1
      BY <1>1, <2>1
    <3> QED  BY <1>1, <1>3, <1>4, <2>1, <3>1
  <2>2. CASE i # N - q + 1
    <3>1. i \in 1 .. N - q /\ q + i \in 1 .. N
      BY <1>1, <2>2 DEF N
    <3> QED  BY <1>1, <1>2, <1>3, <1>4, <3>1
  <2> QED  BY <2>1, <2>2
<1>6. more = Append(back, e)
  BY <1>3, <1>4, <1>5, SeqEqual
<1> QED  BY <1>6 DEF N, back, more

LEMMA ReceiveKeeps ==
    ASSUME IInv, NEW s \in Readers, Receive(s)
    PROVE  IInv'
<1> USE DEF IInv
<1> DEFINE at  == reader[s].next
           seq == sent[at]
           cur == reader[s].cursor
<1>1. /\ reader[s].stage = "live" /\ at <= Len(sent)
      /\ UNCHANGED <<log, command_log, late, abandoned, request, sent, lost, budget>>
  BY DEF Receive, HasNext
<1>2. /\ reader[s] \in ReaderRecords /\ got[s] \in Seq(Seqs) /\ ReaderInv(s)
      /\ sent \in Seq(Seqs) /\ Len(sent) \in Nat /\ DOMAIN sent = 1 .. Len(sent)
  BY LenProperties DEF Shapes
<1>3. /\ at \in Nat /\ cur \in Nat /\ reader[s].from_seq \in Nat /\ reader[s].start \in Nat
      /\ reader[s].start <= at /\ 1 <= reader[s].start
      /\ reader[s].kind \in {"stream", "subscription"}
      /\ reader[s].queried \in Nat /\ reader[s].queried <= Len(got[s])
      /\ ~ IsStream(s) => reader[s].asked <= MaxBigint
      /\ IsStream(s) => reader[s].asked = reader[s].from_seq /\ reader[s].queried = 0
  BY <1>1, <1>2 DEF ReaderRecords, ReaderInv, Stands
<1>4. at \in DOMAIN sent
  BY <1>1, <1>2, <1>3
<1>5. seq \in Seqs /\ seq \in Nat /\ seq \in Logged
  <2>1. seq \in Seqs
    BY <1>2, <1>4
  <2>2. seq \in Range(sent)
    BY <1>4 DEF Range
  <2> QED  BY <2>1, <2>2, EventStreamsAssumption DEF RecordsAreLogged, Seqs
<1>6. \A n \in Logged : n \in Nat
  BY RangeOfSeq, EventStreamsAssumption DEF Shapes, Logged, Seqs
<1>7. /\ reader[s].from_seq <= cur
      /\ IsStream(s) => \A i \in DOMAIN got[s] : got[s][i] < cur
  <2>1. CASE IsStream(s)
    <3>1. /\ cur = CursorAfter(reader[s].from_seq, got[s])
          /\ Climbs(got[s]) /\ \A i \in DOMAIN got[s] : got[s][i] >= reader[s].from_seq
      BY <1>2, <2>1 DEF ReaderInv, Stands, StreamClimbs
    <3> QED  BY <1>2, <1>3, <3>1, CursorIsBehind
  <2>2. CASE ~ IsStream(s)
    <3>1. cur = reader[s].from_seq
      BY <1>2, <1>3, <2>2 DEF ReaderInv, Stands, IsStream
    <3> QED  BY <1>3, <2>2, <3>1
  <2> QED  BY <2>1, <2>2
<1>10. Received(s) = reader[s].start .. at - 1
  BY DEF Received
<1>11. /\ Received(s) \subseteq 1 .. at - 1
       /\ reader[s].start .. (at + 1) - 1 = Received(s) \cup {at}
  <2> HIDE DEF at
  <2> QED  BY <1>3, <1>10
<1> HIDE DEF at, seq, cur
<1>8. CASE seq >= cur
  <2> DEFINE g == Append(got[s], seq)
             v == [reader[s] EXCEPT !.next = at + 1, !.cursor = CursorBehind(s, seq)]
  <2>1. got' = [got EXCEPT ![s] = g] /\ reader' = [reader EXCEPT ![s] = v]
    BY <1>8 DEF Receive, at, seq, cur
  <2>2. /\ g \in Seq(Seqs) /\ Range(g) = Range(got[s]) \cup {seq}
        /\ DOMAIN g = 1 .. Len(got[s]) + 1 /\ DOMAIN got[s] = 1 .. Len(got[s])
        /\ Len(got[s]) \in Nat
        /\ \A i \in 1 .. Len(got[s]) : g[i] = got[s][i]
        /\ g[Len(got[s]) + 1] = seq
    BY <1>2, <1>5, RangeOfAppend, AppendProperties, LenProperties
  <2>3. /\ v \in ReaderRecords /\ v.kind = reader[s].kind /\ v.stage = "live"
        /\ v.from_seq = reader[s].from_seq /\ v.start = reader[s].start /\ v.next = at + 1
        /\ v.cursor = IF IsStream(s) THEN seq + 1 ELSE cur
        /\ v.asked = reader[s].asked /\ v.queried = reader[s].queried
    <3> DEFINE c    == CursorBehind(s, seq)
               next == at + 1
    <3>1. c = IF IsStream(s) THEN seq + 1 ELSE cur
      BY DEF CursorBehind, cur
    <3>2. c \in Nat /\ next \in Nat
      BY <1>3, <1>5, <3>1
    <3>3. v = [reader[s] EXCEPT !.next = next, !.cursor = c]
      OBVIOUS
    <3> HIDE DEF c, next, v
    <3>4. /\ v \in ReaderRecords /\ v.kind = reader[s].kind /\ v.stage = reader[s].stage
          /\ v.from_seq = reader[s].from_seq /\ v.start = reader[s].start /\ v.next = next
          /\ v.cursor = c /\ v.asked = reader[s].asked /\ v.queried = reader[s].queried
      BY <1>2, <3>2, <3>3 DEF ReaderRecords
    <3> QED  BY <1>1, <3>1, <3>4 DEF next
  <2>4. CursorAfter(reader[s].from_seq, g) = seq + 1
    BY <1>2, <1>3, <1>5, CursorBehindAppend
  <2> HIDE DEF v, g
  <2>5. /\ got' \in [Readers -> Seq(Seqs)] /\ got'[s] = g
        /\ \A t \in Readers \ {s} : got'[t] = got[t]
    BY <2>1, <2>2 DEF Shapes
  <2>6. ASSUME reader'[s] = v
        PROVE  ReaderInv(s)'
    <3>1. IsStream(s)' <=> IsStream(s)
      BY <2>3, <2>6 DEF IsStream
    <3>2. Stands(s)'
      <4>1. IsStream(s) => reader[s].from_seq <= MaxBigint
        BY <1>1, <1>2 DEF ReaderInv, Stands
      <4>2. reader[s].kind = "subscription" => cur = reader[s].from_seq /\ ~ IsStream(s)
        BY <1>2 DEF ReaderInv, Stands, cur, IsStream
      <4>3. Len(g) = Len(got[s]) + 1
        BY <2>2, LenProperties
      <4> QED  BY <1>1, <1>2, <1>3, <2>2, <2>3, <2>4, <2>5, <2>6, <3>1, <4>1, <4>2, <4>3, SMTT(30)
               DEF Stands
    <3>3. Range(got[s])' \subseteq Logged'
      BY <1>1, <1>2, <1>5, <2>2, <2>5 DEF ReaderInv, Logged
    <3>4. StreamClimbs(s)'
      <4> SUFFICES ASSUME IsStream(s)
                   PROVE  Climbs(g) /\ \A i \in DOMAIN g : g[i] >= reader[s].from_seq
        BY <2>3, <2>5, <2>6, <3>1 DEF StreamClimbs, Climbs
      <4>1. \A i \in DOMAIN got[s] : got[s][i] \in Nat
        BY <1>2, EventStreamsAssumption DEF Seqs
      <4>2. Climbs(got[s]) /\ \A i \in DOMAIN got[s] : got[s][i] >= reader[s].from_seq
        BY <1>2 DEF ReaderInv, StreamClimbs
      <4>3. \A i \in DOMAIN got[s] : got[s][i] < seq
        BY <1>3, <1>5, <1>7, <1>8, <4>1
      <4>4. seq >= reader[s].from_seq
        BY <1>3, <1>5, <1>7, <1>8
      <4>5. Climbs(g)
        <5> SUFFICES ASSUME NEW i \in 1 .. Len(got[s]) + 1, NEW j \in 1 .. Len(got[s]) + 1, i < j
                     PROVE  g[i] < g[j]
          BY <2>2 DEF Climbs
        <5>1. i \in DOMAIN got[s] /\ g[i] = got[s][i]
          BY <2>2
        <5>2. CASE j = Len(got[s]) + 1
          BY <2>2, <4>3, <5>1, <5>2
        <5>3. CASE j # Len(got[s]) + 1
          <6>1. j \in DOMAIN got[s] /\ g[j] = got[s][j]
            BY <2>2, <5>3
          <6> QED  BY <4>2, <5>1, <6>1 DEF Climbs
        <5> QED  BY <5>2, <5>3
      <4>6. \A i \in DOMAIN g : g[i] >= reader[s].from_seq
        BY <2>2, <4>2, <4>4
      <4> QED  BY <4>5, <4>6
    <3>5. BehindCursor(s)'
      <4> SUFFICES ASSUME IsStream(s), NEW n \in Logged, n \notin Range(got[s]), n # seq,
                          reader[s].from_seq <= n, n < seq + 1
                   PROVE  n \in lost[s] \/ ComesLate(n) \/ PassedOver(n)
        BY <1>1, <2>2, <2>3, <2>5, <2>6, <3>1
           DEF BehindCursor, Logged, ComesLate, PassedOver
      <4>1. CASE n < cur
        BY <1>2, <4>1 DEF ReaderInv, BehindCursor, cur
      <4>2. CASE n >= cur
        <5>1. n \in lost[s] \/ \A i \in DOMAIN sent : i < at => sent[i] # n
          BY <1>1, <1>2, <4>2 DEF ReaderInv, FromCursorOn, cur, at
        <5>2. CASE \A i \in DOMAIN sent : i < at => sent[i] # n
          <6>1. \A h \in 1 .. at : sent[h] # n
            BY <1>2, <1>3, <1>4, <5>2 DEF seq
          <6>2. seq > n
            <7>1. n \in Nat /\ seq \in Nat
              BY <1>5, <1>6
            <7> QED  BY <7>1
          <6> QED  BY <1>4, <6>1, <6>2 DEF PassedOver, seq
        <5> QED  BY <5>1, <5>2
      <4> QED  BY <1>3, <1>6, <4>1, <4>2
    <3>6. FromCursorOn(s)'
      <4> SUFFICES ASSUME IsStream(s), NEW n \in Logged, n \notin Range(got[s]), n # seq,
                          n >= seq + 1, n \notin lost[s],
                          NEW i \in DOMAIN sent, i < at + 1
                   PROVE  sent[i] # n
        BY <1>1, <2>2, <2>3, <2>5, <2>6, <3>1 DEF FromCursorOn, Logged
      <4>1. n >= cur
        BY <1>3, <1>5, <1>6, <1>8
      <4>2. i < at \/ i = at
        BY <1>2, <1>3
      <4> QED  BY <1>1, <1>2, <4>1, <4>2 DEF ReaderInv, FromCursorOn, cur, at, seq
    <3>7. SubscriptionGives(s)'
      <4> SUFFICES ASSUME reader[s].kind = "subscription", NEW i \in DOMAIN sent,
                          reader[s].start <= i, i < at + 1, sent[i] >= reader[s].from_seq
                   PROVE  sent[i] \in Range(got[s]) \cup {seq} \cup lost[s]
        BY <1>1, <2>2, <2>3, <2>5, <2>6 DEF SubscriptionGives
      <4>1. i < at \/ i = at
        BY <1>2, <1>3
      <4> QED  BY <1>2, <4>1 DEF ReaderInv, SubscriptionGives, at, seq
    <3>8. QueryStarts(s)'
      <4> SUFFICES ASSUME ~ IsStream(s), NEW i \in 1 .. Len(got[s]) + 1
                   PROVE  g[i] >= IF i <= reader[s].queried THEN reader[s].asked
                                                            ELSE reader[s].from_seq
        BY <2>2, <2>3, <2>5, <2>6, <3>1 DEF QueryStarts
      <4>1. CASE i = Len(got[s]) + 1
        <5>1. seq >= reader[s].from_seq
          BY <1>3, <1>5, <1>7, <1>8
        <5>2. ~ (i <= reader[s].queried)
          BY <1>3, <2>2, <4>1
        <5> QED  BY <2>2, <4>1, <5>1, <5>2
      <4>2. CASE i # Len(got[s]) + 1
        <5>1. i \in DOMAIN got[s] /\ g[i] = got[s][i]
          BY <2>2, <4>2
        <5> QED  BY <1>2, <5>1 DEF ReaderInv, QueryStarts
      <4> QED  BY <4>1, <4>2
    <3>9. Echoes(s)'
      <4> SUFFICES ASSUME reader[s].kind = "subscription"
                   PROVE  \E given \in SUBSET Received(s)' : Echoed(s, given)'
        BY <2>3, <2>6 DEF Echoes
      <4>1. PICK given \in SUBSET Received(s) : Echoed(s, given)
        BY <1>2 DEF ReaderInv, Echoes
      <4>2. PICK more : more = given \cup {at}
        OBVIOUS
      <4>3. Received(s)' = Received(s) \cup {at}
        BY <1>11, <2>3, <2>6 DEF Received
      <4>4. At(sent, more) = Append(At(sent, given), seq)
        <5>1. given \in SUBSET (1 .. at - 1)
          BY <1>11, <4>1
        <5> QED  BY <1>2, <1>4, <4>2, <5>1, AtOneMore DEF seq
      <4>5. SubSeq(g, reader[s].queried + 1, Len(g))
               = Append(SubSeq(got[s], reader[s].queried + 1, Len(got[s])), seq)
        <5>1. Len(g) = Len(got[s]) + 1
          BY <2>2, LenProperties
        <5>2. PICK q \in Nat : q = reader[s].queried /\ q <= Len(got[s])
          BY <1>3
        <5>3. PICK h \in Seq(Seqs) : h = got[s]
          BY <1>2
        <5>4. SubSeq(Append(h, seq), q + 1, Len(h) + 1)
                 = Append(SubSeq(h, q + 1, Len(h)), seq)
          BY <1>5, <5>2, <5>3, BackOfAppend
        <5> QED  BY <5>1, <5>2, <5>3, <5>4 DEF g
      <4>6. Echoed(s, more)'
        <5>1. SubSeq(got'[s], reader'[s].queried + 1, Len(got'[s])) = At(sent', more)
          BY <1>1, <2>3, <2>5, <2>6, <4>1, <4>4, <4>5 DEF Echoed
        <5>2. \A i \in Received(s)' \ more :
                 sent[i] < reader[s].from_seq \/ sent[i] \in lost[s]
          BY <4>1, <4>2, <4>3 DEF Echoed
        <5> QED  BY <1>1, <2>3, <2>6, <5>1, <5>2 DEF Echoed
      <4> QED  BY <4>2, <4>3, <4>6
    <3> QED  BY <3>2, <3>3, <3>4, <3>5, <3>6, <3>7, <3>8, <3>9 DEF ReaderInv
  <2> QED  BY <1>1, <2>1, <2>3, <2>5, <2>6, OneReader DEF Shapes
<1>9. CASE ~ (seq >= cur)
  <2> DEFINE v == [reader[s] EXCEPT !.next = at + 1]
  <2>1. UNCHANGED got /\ reader' = [reader EXCEPT ![s] = v]
    BY <1>9 DEF Receive, at, seq, cur
  <2>2. /\ v \in ReaderRecords /\ v.kind = reader[s].kind /\ v.stage = "live"
        /\ v.from_seq = reader[s].from_seq /\ v.start = reader[s].start /\ v.next = at + 1
        /\ v.cursor = cur /\ v.asked = reader[s].asked /\ v.queried = reader[s].queried
    <3> DEFINE next == at + 1
    <3>1. next \in Nat /\ v = [reader[s] EXCEPT !.next = next]
      BY <1>3
    <3> HIDE DEF next, v
    <3>2. /\ v \in ReaderRecords /\ v.kind = reader[s].kind /\ v.stage = reader[s].stage
          /\ v.from_seq = reader[s].from_seq /\ v.start = reader[s].start /\ v.next = next
          /\ v.cursor = reader[s].cursor
          /\ v.asked = reader[s].asked /\ v.queried = reader[s].queried
      BY <1>2, <3>1 DEF ReaderRecords
    <3> QED  BY <1>1, <3>2 DEF next, cur
  <2> HIDE DEF v
  <2>3. ASSUME reader'[s] = v
        PROVE  ReaderInv(s)'
    <3>1. IsStream(s)' <=> IsStream(s)
      BY <2>2, <2>3 DEF IsStream
    <3>2. Stands(s)'
      <4>1. /\ IsStream(s) => reader[s].from_seq <= MaxBigint
            /\ IsStream(s) => cur = CursorAfter(reader[s].from_seq, got[s])
            /\ reader[s].kind = "subscription" => cur = reader[s].from_seq
        BY <1>1, <1>2 DEF ReaderInv, Stands, cur
      <4> QED  BY <1>1, <1>2, <1>3, <2>1, <2>2, <2>3, <3>1, <4>1 DEF Stands
    <3>3. Range(got[s])' \subseteq Logged' /\ StreamClimbs(s)'
      BY <1>1, <1>2, <2>1, <2>2, <2>3, <3>1 DEF ReaderInv, Logged, StreamClimbs
    <3>4. BehindCursor(s)'
      BY <1>1, <1>2, <2>1, <2>2, <2>3, <3>1
         DEF ReaderInv, BehindCursor, Logged, ComesLate, PassedOver, cur
    <3>5. FromCursorOn(s)'
      <4> SUFFICES ASSUME IsStream(s), NEW n \in Logged, n \notin Range(got[s]),
                          n >= cur, n \notin lost[s], NEW i \in DOMAIN sent, i < at + 1
                   PROVE  sent[i] # n
        BY <1>1, <2>1, <2>2, <2>3, <3>1 DEF FromCursorOn, Logged
      <4>1. i < at \/ i = at
        BY <1>2, <1>3
      <4>2. seq # n
        BY <1>3, <1>5, <1>6, <1>9
      <4> QED  BY <1>1, <1>2, <4>1, <4>2 DEF ReaderInv, FromCursorOn, cur, at, seq
    <3>6. SubscriptionGives(s)'
      <4> SUFFICES ASSUME reader[s].kind = "subscription", NEW i \in DOMAIN sent,
                          reader[s].start <= i, i < at + 1, sent[i] >= reader[s].from_seq
                   PROVE  sent[i] \in Range(got[s]) \cup lost[s]
        BY <1>1, <2>1, <2>2, <2>3 DEF SubscriptionGives
      <4>1. i < at \/ i = at
        BY <1>2, <1>3
      <4>2. cur = reader[s].from_seq
        BY <1>2 DEF ReaderInv, Stands, cur
      <4>3. i # at
        BY <1>9, <4>2 DEF seq
      <4> QED  BY <1>2, <4>1, <4>3 DEF ReaderInv, SubscriptionGives, at
    <3>7. QueryStarts(s)'
      BY <1>2, <2>1, <2>2, <2>3, <3>1 DEF ReaderInv, QueryStarts
    <3>8. Echoes(s)'
      <4> SUFFICES ASSUME reader[s].kind = "subscription"
                   PROVE  \E given \in SUBSET Received(s)' : Echoed(s, given)'
        BY <2>2, <2>3 DEF Echoes
      <4>1. PICK given \in SUBSET Received(s) : Echoed(s, given)
        BY <1>2 DEF ReaderInv, Echoes
      <4>2. Received(s)' = Received(s) \cup {at}
        BY <1>11, <2>2, <2>3 DEF Received
      <4>3. cur = reader[s].from_seq
        BY <1>2 DEF ReaderInv, Stands, cur
      <4>4. sent[at] < reader[s].from_seq
        BY <1>3, <1>5, <1>9, <4>3 DEF seq
      <4>5. Echoed(s, given)'
        BY <1>1, <2>1, <2>2, <2>3, <4>1, <4>2, <4>4 DEF Echoed
      <4> QED  BY <4>1, <4>2, <4>5
    <3> QED  BY <3>2, <3>3, <3>4, <3>5, <3>6, <3>7, <3>8 DEF ReaderInv
  <2> QED  BY <1>1, <2>1, <2>2, <2>3, OneReader DEF Shapes
<1> QED  BY <1>8, <1>9

LEMMA LaggedKeeps ==
    ASSUME IInv, NEW s \in Readers, Lagged(s)
    PROVE  IInv'
<1> USE DEF IInv
<1> DEFINE at      == reader[s].next
           missed  == {sent[i] : i \in at .. Oldest - 1}
           v       == [reader[s] EXCEPT !.next = Oldest]
<1>1. /\ reader[s].stage = "live" /\ at <= Len(sent) /\ at < Oldest
      /\ lost' = [lost EXCEPT ![s] = @ \cup missed] /\ reader' = [reader EXCEPT ![s] = v]
      /\ UNCHANGED <<log, command_log, late, abandoned, request, sent, got, budget>>
  BY DEF Lagged, HasNext
<1>2. /\ reader[s] \in ReaderRecords /\ ReaderInv(s)
      /\ sent \in Seq(Seqs) /\ Len(sent) \in Nat /\ DOMAIN sent = 1 .. Len(sent)
  BY LenProperties DEF Shapes
<1>3. /\ at \in Nat /\ reader[s].start \in Nat
      /\ reader[s].start <= at /\ 1 <= reader[s].start
      /\ reader[s].kind \in {"stream", "subscription"}
      /\ reader[s].queried <= Len(got[s])
      /\ ~ IsStream(s) => reader[s].asked <= MaxBigint
      /\ IsStream(s) => reader[s].asked = reader[s].from_seq /\ reader[s].queried = 0
  BY <1>1, <1>2 DEF ReaderRecords, ReaderInv, Stands
<1>4. Oldest \in Nat /\ Oldest <= Len(sent) + 1
  BY <1>2, EventStreamsAssumption DEF Oldest
<1>5. missed \in SUBSET Seqs
  <2>1. \A i \in at .. Oldest - 1 : i \in DOMAIN sent
    BY <1>2, <1>3, <1>4
  <2> QED  BY <1>2, <2>1
<1>6. \A i \in DOMAIN sent : i < Oldest => i < at \/ sent[i] \in missed
  BY <1>2, <1>3, <1>4
<1>7. /\ v \in ReaderRecords /\ v.kind = reader[s].kind /\ v.stage = "live"
      /\ v.from_seq = reader[s].from_seq /\ v.start = reader[s].start /\ v.next = Oldest
      /\ v.cursor = reader[s].cursor
      /\ v.asked = reader[s].asked /\ v.queried = reader[s].queried
  BY <1>1, <1>2, <1>4 DEF ReaderRecords
<1>10. Received(s) = reader[s].start .. at - 1
  BY DEF Received
<1> HIDE DEF v, missed, at
<1>8. /\ lost' \in [Readers -> SUBSET Seqs] /\ lost'[s] = lost[s] \cup missed
      /\ \A t \in Readers \ {s} : lost'[t] = lost[t]
  BY <1>1, <1>5 DEF Shapes
<1>9. ASSUME reader'[s] = v
      PROVE  ReaderInv(s)'
  <2>1. IsStream(s)' <=> IsStream(s)
    BY <1>7, <1>9 DEF IsStream
  <2>2. Stands(s)'
    <3>1. reader[s].start <= Oldest
      BY <1>1, <1>3, <1>4
    <3>2. /\ reader[s].kind = "subscription" => reader[s].cursor = reader[s].from_seq
          /\ IsStream(s) => /\ reader[s].cursor = CursorAfter(reader[s].from_seq, got[s])
                            /\ reader[s].from_seq <= MaxBigint
      BY <1>1, <1>2 DEF ReaderInv, Stands
    <3> QED  BY <1>1, <1>3, <1>4, <1>7, <1>9, <2>1, <3>1, <3>2 DEF Stands
  <2>3. Range(got[s])' \subseteq Logged' /\ StreamClimbs(s)'
    BY <1>1, <1>2, <1>7, <1>9, <2>1 DEF ReaderInv, Logged, StreamClimbs
  <2>4. BehindCursor(s)'
    BY <1>1, <1>2, <1>7, <1>8, <1>9, <2>1
       DEF ReaderInv, BehindCursor, Logged, ComesLate, PassedOver
  <2>5. FromCursorOn(s)'
    <3> SUFFICES ASSUME IsStream(s), NEW n \in Logged, n \notin Range(got[s]),
                        n >= reader[s].cursor, n \notin lost[s] \cup missed,
                        NEW i \in DOMAIN sent, i < Oldest
                 PROVE  sent[i] # n
      BY <1>1, <1>7, <1>8, <1>9, <2>1 DEF FromCursorOn, Logged
    <3>1. CASE i < at
      BY <1>1, <1>2, <3>1 DEF ReaderInv, FromCursorOn, at
    <3> QED  BY <1>6, <3>1
  <2>6. SubscriptionGives(s)'
    <3> SUFFICES ASSUME reader[s].kind = "subscription", NEW i \in DOMAIN sent,
                        reader[s].start <= i, i < Oldest, sent[i] >= reader[s].from_seq
                 PROVE  sent[i] \in Range(got[s]) \cup lost[s] \cup missed
      BY <1>1, <1>7, <1>8, <1>9 DEF SubscriptionGives
    <3>1. CASE i < at
      BY <1>2, <3>1 DEF ReaderInv, SubscriptionGives, at
    <3> QED  BY <1>6, <3>1
  <2>7. QueryStarts(s)'
    BY <1>1, <1>2, <1>7, <1>9, <2>1 DEF ReaderInv, QueryStarts
  <2>8. Echoes(s)'
    <3> SUFFICES ASSUME reader[s].kind = "subscription"
                 PROVE  \E given \in SUBSET Received(s)' : Echoed(s, given)'
      BY <1>7, <1>9 DEF Echoes
    <3>1. PICK given \in SUBSET Received(s) : Echoed(s, given)
      BY <1>2 DEF ReaderInv, Echoes
    <3>2. /\ Received(s) \subseteq Received(s)'
          /\ \A i \in Received(s)' \ Received(s) : sent[i] \in missed
      <4>1. Received(s)' = reader[s].start .. Oldest - 1
        BY <1>7, <1>9 DEF Received
      <4>2. \A i \in reader[s].start .. Oldest - 1 : i \in DOMAIN sent /\ i < Oldest
        BY <1>2, <1>3, <1>4
      <4>3. \A i \in reader[s].start .. Oldest - 1 : i < at => i \in reader[s].start .. at - 1
        BY <1>3, <1>4
      <4>4. \A i \in reader[s].start .. at - 1 : i \in reader[s].start .. Oldest - 1
        BY <1>1, <1>3, <1>4
      <4> QED  BY <1>6, <1>10, <4>1, <4>2, <4>3, <4>4
    <3>3. Echoed(s, given)'
      BY <1>1, <1>7, <1>8, <1>9, <3>1, <3>2 DEF Echoed
    <3> QED  BY <3>1, <3>2, <3>3
  <2> QED  BY <2>2, <2>3, <2>4, <2>5, <2>6, <2>7, <2>8 DEF ReaderInv
<1> QED  BY <1>1, <1>7, <1>8, <1>9, OneReader DEF Shapes

-------------------------------------------------------------------------------
(* Every step, and what follows.                                           *)

LEMMA NextKeepsIInv == IInv /\ [Next]_vars => IInv'
<1> SUFFICES ASSUME IInv, [Next]_vars PROVE IInv'
  OBVIOUS
<1>1. ASSUME NEW r \in Requests, NEW k \in CommandIds, Lock(r, k) PROVE IInv'
  BY <1>1, LockKeeps
<1>2. ASSUME NEW r \in Requests, LogEvent(r) PROVE IInv'
  BY <1>2, LogEventKeeps
<1>3. ASSUME NEW r \in Requests, Retry(r) PROVE IInv'
  BY <1>3, RetryKeeps
<1>4. ASSUME NEW r \in Requests, Handled(r) PROVE IInv'
  BY <1>4, HandledKeeps
<1>5. ASSUME NEW r \in Requests, GiveUp(r) PROVE IInv'
  BY <1>5, GiveUpKeeps
<1>6. ASSUME NEW r \in Requests, Send(r) PROVE IInv'
  BY <1>6, SendKeeps
<1>7. ASSUME NEW entry \in late, LateEvent(entry) PROVE IInv'
  BY <1>7, LateEventKeeps
<1>8. ASSUME NEW s \in Streams, NEW from \in FromSeqs, StreamEvents(s, from) PROVE IInv'
  BY <1>8, StreamEventsKeeps
<1>9. ASSUME NEW s \in Streams, Resume(s) PROVE IInv'
  BY <1>9, ResumeKeeps
<1>10. ASSUME NEW s \in Streams, Replay(s) PROVE IInv'
  BY <1>10, ReplayKeeps
<1>11. ASSUME NEW s \in Streams, ReplayFails(s) PROVE IInv'
  BY <1>11, ReplayFailsKeeps
<1>12. ASSUME NEW s \in Subscriptions, NEW from \in FromSeqs, QueryEvents(s, from) PROVE IInv'
  BY <1>12, QueryEventsKeeps
<1>13. ASSUME NEW s \in Subscriptions, NEW from \in FromSeqs \cup {CursorAfter(0, got[s])},
              EventStream(s, from)
       PROVE  IInv'
  <2>1. CursorAfter(0, got[s]) \in Nat
    <3>1. got[s] \in Seq(Seqs)
      BY DEF IInv, Shapes, Readers
    <3>2. got[s] # << >> => got[s][Len(got[s])] \in Nat
      <4>1. got[s] # << >> => Len(got[s]) \in 1 .. Len(got[s])
        BY <3>1, EmptySeq
      <4> QED  BY <3>1, <4>1, ElementOfSeq, EventStreamsAssumption DEF Seqs
    <3> QED  BY <3>2 DEF CursorAfter, Last
  <2>2. from \in Nat
    BY <2>1, EventStreamsAssumption
  <2> QED  BY <1>13, <2>2, EventStreamKeeps
<1>14. ASSUME NEW s \in Readers, Receive(s) PROVE IInv'
  BY <1>14, ReceiveKeeps
<1>15. ASSUME NEW s \in Readers, Lagged(s) PROVE IInv'
  BY <1>15, LaggedKeeps
<1>16. ASSUME UNCHANGED vars PROVE IInv'
  <2>1. \A s \in Readers : ReaderInv(s)'
    BY <1>16, UntouchedReader DEF IInv, vars
  <2> QED  BY <1>16, <2>1 DEF vars, IInv, Shapes, RequestsStand, HoldsLock, NumbersAreNew, NextSeq,
             RecordsAreLogged, Logged, LateIsAbandoned, UnsentHasOwner, Held
<1> QED  BY <1>1, <1>2, <1>3, <1>4, <1>5, <1>6, <1>7, <1>8, <1>9, <1>10, <1>11, <1>12, <1>13,
            <1>14, <1>15, <1>16 DEF Next

(* The invariant holds in every state of every instance.                   *)
THEOREM Invariance == Spec => []IInv
<1>1. Init => IInv
  BY InitIInv
<1>2. IInv /\ [Next]_vars => IInv'
  BY NextKeepsIInv
<1> QED  BY <1>1, <1>2, PTL DEF Spec

LEMMA IInvTypes == IInv => TypeOK
<1> SUFFICES ASSUME IInv PROVE TypeOK
  OBVIOUS
<1> USE DEF IInv
<1>1. IsInjective(log)
  BY DEF NumbersAreNew, IsInjective
<1>2. \A r \in Requests : request[r] \in RequestRecords
  BY DEF Shapes
<1>3. \A s \in Readers : reader[s] \in ReaderRecords
  BY DEF Shapes
<1> QED  BY <1>1, <1>2, <1>3
            DEF TypeOK, Shapes, RequestRecords, ReaderRecords, LateEntries, RequestsStand,
                ReaderInv, Stands

(* Types: a request that sends has what to send, and a receiver stands     *)
(* between its start and the end of the channel.                           *)
THEOREM TypeCorrectness == Spec => []TypeOK
BY Invariance, IInvTypes, PTL

LEMMA IInvDelivered == IInv => DeliveredIsLogged
BY DEF IInv, ReaderInv, DeliveredIsLogged

(* No client is given an event that is not in the log for good: the        *)
(* records of a request that failed before its COMMIT never get out.       *)
THEOREM NothingUncommitted == Spec => []DeliveredIsLogged
BY Invariance, IInvDelivered, PTL

LEMMA IInvOrder == IInv => StreamsInOrder
BY DEF IInv, ReaderInv, StreamClimbs, Climbs, StreamsInOrder, Readers

(* A gRPC stream gives every event at most once and in the order of seq,   *)
(* over replay, tail, lags, retries and its client's resumes.              *)
THEOREM StreamOrder == Spec => []StreamsInOrder
BY Invariance, IInvOrder, PTL

LEMMA IInvStarts == IInv => StartsAreKept
<1> SUFFICES ASSUME IInv, NEW s \in Readers
             PROVE  /\ \A i \in DOMAIN got[s] :
                          got[s][i] >= IF i <= reader[s].queried THEN reader[s].asked
                                                                ELSE reader[s].from_seq
                    /\ reader[s].stage \in {"queried", "live"} => reader[s].asked <= MaxBigint
  BY DEF StartsAreKept
<1>1. ReaderInv(s) /\ got[s] \in Seq(Seqs)
  BY DEF IInv, Shapes
<1>2. CASE IsStream(s)
  <2>1. \A i \in DOMAIN got[s] : got[s][i] >= reader[s].from_seq
    BY <1>1, <1>2 DEF ReaderInv, StreamClimbs
  <2>2. reader[s].asked = reader[s].from_seq
    BY <1>1, <1>2 DEF ReaderInv, Stands
  <2>3. reader[s].stage \in {"queried", "live"} => reader[s].asked <= MaxBigint
    BY <1>1, <1>2, <2>2 DEF ReaderInv, Stands, IsStream
  <2> QED  BY <2>1, <2>2, <2>3
<1>3. CASE ~ IsStream(s)
  BY <1>1, <1>3 DEF ReaderInv, QueryStarts, Stands
<1> QED  BY <1>2, <1>3

(* No stream, query or subscription gives an event from before the start   *)
(* it was asked for, and neither a stream nor a query answers a start that *)
(* no seq can reach.                                                       *)
THEOREM Starts == Spec => []StartsAreKept
BY Invariance, IInvStarts, PTL

LEMMA IInvEchoes == IInv => SubscriptionsEcho
BY DEF IInv, ReaderInv, Echoes, SubscriptionsEcho, Readers

(* A subscription gives the records on as often and in the order they were *)
(* sent since it was opened, but for those below its start and those the   *)
(* channel had overwritten.                                                *)
THEOREM Echo == Spec => []SubscriptionsEcho
BY Invariance, IInvEchoes, PTL

LEMMA IInvUnsent == IInv => UnsentHasOwner
BY DEF IInv

(* Every logged event that was not sent is held by a request that has      *)
(* still to send it or belongs to one that was given up, after any number  *)
(* of failures: no answered request leaves one behind.                     *)
THEOREM Unsent == Spec => []UnsentHasOwner
BY Invariance, IInvUnsent, PTL

(* What a later number overtook was overtaken when it was sent.            *)
LEMMA PassedOverThenSent ==
    ASSUME sent \in Seq(Seqs), NEW n \in Range(sent), PassedOver(n)
    PROVE  Overtaken(n)
<1> DEFINE P == {j \in DOMAIN sent : sent[j] = n}
<1>1. DOMAIN sent = 1 .. Len(sent) /\ Len(sent) \in Nat
  BY LenProperties
<1>2. P \in SUBSET Nat /\ P # {}
  BY <1>1 DEF Range
<1>3. PICK j \in P : \A h \in P : j <= h
  BY <1>2, LeastMember
<1>4. PICK i \in DOMAIN sent : sent[i] > n /\ \A h \in 1 .. i : sent[h] # n
  BY DEF PassedOver
<1>5. j \in DOMAIN sent /\ sent[j] = n
  BY <1>3
<1>6. i < j
  BY <1>1, <1>4, <1>5
<1>7. \A h \in 1 .. (j - 1) : sent[h] # n
  BY <1>1, <1>3, <1>5
<1> QED  BY <1>4, <1>5, <1>6, <1>7 DEF Overtaken

LEMMA IInvGaps == IInv => GapsHaveCauses
<1> SUFFICES ASSUME IInv, NEW s \in Readers, NEW n \in Missing(s),
                    n \in Range(sent), n \notin lost[s], ~ ComesLate(n), ~ ToCome(s, n)
             PROVE  IF IsStream(s) THEN Overtaken(n) ELSE SentBefore(s, n)
  BY DEF GapsHaveCauses, Missing, Untold, IInv, UnsentHasOwner
<1> USE DEF IInv
<1>1. /\ reader[s].stage = "live" /\ n \in Logged \ Range(got[s])
      /\ n >= reader[s].from_seq
  BY DEF Missing
<1>2. /\ reader[s] \in ReaderRecords /\ sent \in Seq(Seqs) /\ ReaderInv(s) /\ log \in Seq(Seqs)
  BY DEF Shapes
<1>3. /\ reader[s].from_seq \in Nat /\ reader[s].cursor \in Nat /\ reader[s].next \in Nat
      /\ reader[s].start \in Nat
  BY <1>2 DEF ReaderRecords
<1>4. n \in Nat
  BY <1>1, <1>2, RangeOfSeq, EventStreamsAssumption DEF Logged, Seqs
<1>5. PICK i \in DOMAIN sent : sent[i] = n
  BY DEF Range
<1>6. DOMAIN sent = 1 .. Len(sent) /\ Len(sent) \in Nat
  BY <1>2, LenProperties
<1>7. i < reader[s].next
  BY <1>3, <1>5, <1>6 DEF ToCome
<1>8. CASE IsStream(s)
  <2>1. n < reader[s].cursor
    BY <1>1, <1>2, <1>3, <1>4, <1>5, <1>7, <1>8 DEF ReaderInv, FromCursorOn
  <2>2. PassedOver(n)
    BY <1>1, <1>2, <1>3, <1>4, <1>8, <2>1 DEF ReaderInv, BehindCursor
  <2> QED  BY <1>2, <1>8, <2>2, PassedOverThenSent
<1>9. CASE ~ IsStream(s)
  <2>1. reader[s].kind = "subscription"
    BY <1>1, <1>2, <1>9 DEF ReaderInv, Stands, IsStream, ReaderRecords
  <2>2. i < reader[s].start
    BY <1>1, <1>2, <1>3, <1>5, <1>6, <1>7, <2>1 DEF ReaderInv, SubscriptionGives
  <2> QED  BY <1>5, <1>9, <2>2 DEF SentBefore
<1> QED  BY <1>8, <1>9

(* A reader misses an event for one of the named causes and no other: in   *)
(* particular a gRPC stream loses nothing between its replay and its tail. *)
THEOREM Gaps == Spec => []GapsHaveCauses
BY Invariance, IInvGaps, PTL
===============================================================================
