-------------------------- MODULE CommandHandlerProofs -------------------------
(***************************************************************************)
(* Proofs about CommandHandler, for every set of command ids, commands,    *)
(* orders and prices, and any number of calls, failures and restarts.      *)
(*                                                                         *)
(* A replay depends on the log, on what was submitted and on what ran.     *)
(* The proofs compare the replays of two states, so they speak of Books,   *)
(* which is told all three.                                                *)
(***************************************************************************)
EXTENDS CommandHandler, MatchingProofs

-------------------------------------------------------------------------------
(* The inductive invariant.                                                *)

IsFirstOf(k, i) == log[i].key = k /\ IsFirstEvent(log[i])

(* No key has two entries, open or not.                                    *)
KeysDistinct == \A i, j \in DOMAIN log : log[i].key = log[j].key => i = j

(* A first event stands under the id of a command that was sent.           *)
FirstEventsSent ==
    \A i \in DOMAIN log :
        IsFirstEvent(log[i]) => log[i].key \in CommandIds /\ submitted[log[i].key] # None

(* What reached the book has its first event committed.                    *)
RunsLogged ==
    \A k \in CommandIds :
        runs[k] # << >> => /\ submitted[k] # None
                           /\ \E i \in DOMAIN log : IsFirstOf(k, i) /\ ~ log[i].open

(* The record of the n-th trade, as it was pushed and is still logged.     *)
Told(k, n, record) ==
    /\ Logged(Key(k, n))
    /\ record = RecordAt(Key(k, n))
    /\ Key(k, n) \in CommandIds \/ record = TradeExecuted(Matched(k)[n])

(* A call that waits for a COMMIT has appended the last entry of the log.  *)
Committing == log # << >> /\ log[Len(log)] = [key |-> TheKey, event |-> TheEvent, open |-> TRUE]

(* A call that is past its first event is persisting what was matched.     *)
Persisting ==
    LET k == active.command_id
    IN  /\ submitted[k].type = "PlaceOrder"
        /\ AcceptedByBook(k)
        /\ active.trades = Matched(k)
        /\ active.remaining = submitted[k].order.quantity - Quantity(Matched(k))
        /\ Len(active.records) = active.part - 1
        /\ \A n \in 1 .. (active.part - 1) : Told(k, n, active.records[n])

ActiveSound ==
    active # None =>
        /\ active \in Calls
        /\ submitted[active.command_id] # None
        /\ active.part \in 0 .. Len(active.trades)
        /\ active.stage = "commit" => Committing
        /\ active.part > 0 => Persisting

(* An order that was placed now is answered with what was matched.         *)
ReplySound ==
    IsOk(reply) /\ reply.result = "OrderPlaced" /\ reply.inserted =>
        LET k == reply.command_id
        IN  /\ k \in CommandIds
            /\ submitted[k] # None /\ submitted[k].type = "PlaceOrder"
            /\ AcceptedByBook(k)
            /\ reply.trades \in Seq(LoggedEvents)
            /\ Len(reply.trades) = Len(Matched(k))
            /\ \A n \in 1 .. Len(reply.trades) : Told(k, n, reply.trades[n])
            /\ reply.remaining_quantity = submitted[k].order.quantity - Quantity(Matched(k))

RunRecords == [boot: 0 .. boot, error: Errors \cup {"None"}]

Types ==
    /\ log \in Seq(Entries)
    /\ submitted \in [CommandIds -> Commands \cup {None}]
    /\ boot \in Nat
    /\ runs \in [CommandIds -> Seq(RunRecords)]

(* What a command matched are trades.                                      *)
MatchedTrades == \A k \in CommandIds : Matched(k) \in Seq(Trade)

LogInv ==
    /\ Types
    /\ KeysDistinct
    /\ FirstEventsSent
    /\ RunsLogged
    /\ AtMostOnceEffect

IInv ==
    /\ LogInv
    /\ SoundBook(book)
    /\ BookIsReplay
    /\ TradesFollowMatching
    /\ MatchedTrades
    /\ ActiveSound
    /\ ReplySound

-------------------------------------------------------------------------------
(* Replays.                                                                *)

After(command, b) ==
    IF command.type = "CancelOrder" THEN BookAfterCancel(command.order_id, b)
    ELSE IF PlaceError(command.order, RestingIds(b)) = "None"
    THEN BookAfterPlace(command.order, b)
    ELSE b

RanBy(run, someBoot, entry) ==
    IsFirstEvent(entry) /\ \E i \in DOMAIN run[entry.key] : run[entry.key][i].boot = someBoot

(* The books of a replay, after each number of entries.                    *)
Books(sent, run, someBoot, entries) ==
    LET after[n \in 0 .. Len(entries)] ==
            IF n = 0 THEN EmptyBook
            ELSE IF RanBy(run, someBoot, entries[n]) THEN After(sent[entries[n].key], after[n - 1])
            ELSE after[n - 1]
    IN  after

(* What a command matched, by the books before its first event.            *)
FirstAt(entries, k) == CHOOSE i \in DOMAIN entries : entries[i].key = k /\ IsFirstEvent(entries[i])

MatchedOf(sent, run, entries, k) ==
    LET before == SubSeq(entries, 1, FirstAt(entries, k) - 1)
    IN  IF (\E n \in DOMAIN run[k] : run[k][n].error = "None") /\ sent[k].type = "PlaceOrder"
        THEN PlaceOutcome(sent[k].order, Books(sent, run, run[k][1].boot, before)[Len(before)]).trades
        ELSE << >>

LEMMA ReplayIsBooks ==
    /\ Replay(boot, log) = Books(submitted, runs, boot, log)[Len(log)]
    /\ Replay(boot, log)' = Books(submitted', runs', boot', log')[Len(log')]
  BY DEF Replay, Books, BookAfter, After, RunBy, RanBy, RanIn

LEMMA MatchedIsMatchedOf ==
    ASSUME NEW k
    PROVE  /\ Matched(k) = MatchedOf(submitted, runs, log, k)
           /\ Matched(k)' = MatchedOf(submitted', runs', log', k)
  BY DEF Matched, MatchedOf, FirstAt, AcceptedByBook, Replay, Books, BookAfter, After, RunBy, RanBy, RanIn

(* The books follow from one another.                                      *)
LEMMA BooksFollow ==
    ASSUME NEW sent, NEW run, NEW someBoot, NEW entries, Len(entries) \in Nat
    PROVE  /\ Books(sent, run, someBoot, entries)[0] = EmptyBook
           /\ \A n \in 1 .. Len(entries) :
                 Books(sent, run, someBoot, entries)[n] =
                     IF RanBy(run, someBoot, entries[n])
                     THEN After(sent[entries[n].key], Books(sent, run, someBoot, entries)[n - 1])
                     ELSE Books(sent, run, someBoot, entries)[n - 1]
<1> DEFINE N == Len(entries)
           Step(n, b) == IF RanBy(run, someBoot, entries[n]) THEN After(sent[entries[n].key], b) ELSE b
           Rule(f) == f = [n \in 0 .. N |-> IF n = 0 THEN EmptyBook ELSE Step(n, f[n - 1])]
           B == Books(sent, run, someBoot, entries)
<1>1. B = CHOOSE f : Rule(f)
  BY DEF Books
<1> HIDE DEF Step, B
<1>2. \E f : Rule(f)
  <2> DEFINE Up(f, m) == /\ DOMAIN f = 0 .. N /\ f[0] = EmptyBook
                         /\ \A n \in 1 .. N : n <= m => f[n] = Step(n, f[n - 1])
             T == {m \in Nat : m <= N => \E f : Up(f, m)}
  <2>1. 0 \in T
    <3> DEFINE z == [n \in 0 .. N |-> EmptyBook]
    <3>1. Up(z, 0)
      OBVIOUS
    <3> HIDE DEF z, Up
    <3> QED  BY <3>1
  <2>2. ASSUME NEW m \in T
        PROVE  m + 1 \in T
    <3>1. m \in Nat /\ m + 1 \in Nat
      OBVIOUS
    <3> SUFFICES ASSUME m + 1 <= N PROVE \E f : Up(f, m + 1)
      BY <3>1
    <3>2. PICK f : Up(f, m)
      <4>1. m <= N
        BY <3>1
      <4> HIDE DEF Up
      <4> QED  BY <4>1
    <3> DEFINE g == [n \in 0 .. N |-> IF n = m + 1 THEN Step(m + 1, f[m]) ELSE f[n]]
    <3>3. DOMAIN g = 0 .. N /\ \A n \in 0 .. N : g[n] = IF n = m + 1 THEN Step(m + 1, f[m]) ELSE f[n]
      OBVIOUS
    <3> HIDE DEF g
    <3>4. g[0] = EmptyBook
      BY <3>1, <3>2, <3>3
    <3>5. ASSUME NEW n \in 1 .. N, n <= m + 1
          PROVE  g[n] = Step(n, g[n - 1])
      <4>1. CASE n = m + 1
        <5>1. n - 1 = m /\ m # m + 1 /\ n \in 0 .. N /\ m \in 0 .. N
          BY <4>1, <3>1
        <5>2. g[n] = Step(m + 1, f[m]) /\ g[n - 1] = f[m]
          BY <4>1, <5>1, <3>3
        <5> QED  BY <4>1, <5>2
      <4>2. CASE n # m + 1
        <5>1. n <= m /\ n - 1 \in 0 .. N /\ n - 1 # m + 1 /\ n \in 0 .. N
          BY <4>2, <3>1, <3>5
        <5>2. f[n] = Step(n, f[n - 1])
          BY <5>1, <3>2
        <5> QED  BY <4>2, <5>1, <5>2, <3>3
      <4> QED  BY <4>1, <4>2
    <3>6. Up(g, m + 1)
      BY <3>3, <3>4, <3>5
    <3> HIDE DEF Up
    <3> QED  BY <3>6
  <2>3. N \in T
    <3> HIDE DEF Up
    <3>1. T \subseteq Nat
      OBVIOUS
    <3> HIDE DEF T
    <3> QED  BY <2>1, <2>2, <3>1, SetInduction
  <2>4. PICK f : Up(f, N)
    <3>1. N <= N
      OBVIOUS
    <3> HIDE DEF Up
    <3> QED  BY <2>3, <3>1
  <2> DEFINE g == [n \in 0 .. N |-> IF n = 0 THEN EmptyBook ELSE Step(n, f[n - 1])]
             h == [n \in 0 .. N |-> f[n]]
  <2>5. ASSUME NEW n \in 0 .. N
        PROVE  h[n] = IF n = 0 THEN EmptyBook ELSE Step(n, h[n - 1])
    <3>1. CASE n = 0
      BY <3>1, <2>4
    <3>2. CASE n # 0
      <4>1. n \in 1 .. N /\ n - 1 \in 0 .. N /\ n <= N
        BY <3>2
      <4>2. f[n] = Step(n, f[n - 1])
        BY <4>1, <2>4
      <4> QED  BY <3>2, <4>1, <4>2
    <3> QED  BY <3>1, <3>2
  <2>6. Rule(h)
    <3>1. h = [n \in 0 .. N |-> h[n]]
      OBVIOUS
    <3> HIDE DEF h
    <3> QED  BY <2>5, <3>1
  <2> HIDE DEF h, Rule
  <2> QED  BY <2>6
<1>3. Rule(B)
  <2> HIDE DEF Rule
  <2> QED  BY <1>1, <1>2
<1>4. B[0] = EmptyBook /\ \A n \in 1 .. N : B[n] = Step(n, B[n - 1])
  BY <1>3
<1> QED  BY <1>4 DEF B, Step

(* An entry that did not run may be taken out: entry i is then at To(p, i) *)
(* and entry j of the new log was at From(p, j).  Nothing is taken out if  *)
(* p is behind the entries.                                                *)
To(p, i)   == IF i < p THEN i ELSE i - 1
From(p, j) == IF j < p THEN j ELSE j + 1

LEMMA ToAndFrom ==
    ASSUME NEW N \in Nat, NEW p \in 1 .. (N + 1)
    PROVE  LET M == IF p <= N THEN N - 1 ELSE N
           IN  /\ M \in Nat
               /\ \A i \in 1 .. N : i # p => To(p, i) \in 1 .. M /\ From(p, To(p, i)) = i
               /\ \A j \in 1 .. M : From(p, j) \in 1 .. N /\ From(p, j) # p /\ To(p, From(p, j)) = j
               /\ To(p, 0) = 0 /\ To(p, N) = M
               /\ \A i \in 1 .. N : i # p => To(p, i) - 1 = To(p, i - 1)
               /\ \A i, j \in 1 .. M : From(p, i) = From(p, j) => i = j
  BY DEF To, From

(* The same of the first m entries ran, and stood for the same commands.   *)
SameRan(p, m, someBoot, sent, run, entries, sent2, run2, entries2) ==
    /\ p <= m => ~ RanBy(run, someBoot, entries[p])
    /\ \A i \in 1 .. m : i # p =>
           /\ To(p, i) \in 1 .. Len(entries2)
           /\ RanBy(run2, someBoot, entries2[To(p, i)]) <=> RanBy(run, someBoot, entries[i])
           /\ RanBy(run, someBoot, entries[i]) =>
                 sent2[entries2[To(p, i)].key] = sent[entries[i].key]

(* Two replays give the same books as far as the same commands ran.        *)
LEMMA SameBooks ==
    ASSUME NEW sent, NEW run, NEW entries, Len(entries) \in Nat,
           NEW sent2, NEW run2, NEW entries2, Len(entries2) \in Nat,
           NEW someBoot, NEW p \in Nat \ {0}, NEW m \in 0 .. Len(entries),
           SameRan(p, m, someBoot, sent, run, entries, sent2, run2, entries2)
    PROVE  \A i \in 0 .. m :
               Books(sent2, run2, someBoot, entries2)[To(p, i)] = Books(sent, run, someBoot, entries)[i]
<1> DEFINE B  == Books(sent, run, someBoot, entries)
           B2 == Books(sent2, run2, someBoot, entries2)
           N  == Len(entries)
           T  == {i \in Nat : i <= m => B2[To(p, i)] = B[i]}
<1>1. /\ B[0] = EmptyBook
      /\ \A n \in 1 .. N :
            B[n] = IF RanBy(run, someBoot, entries[n])
                   THEN After(sent[entries[n].key], B[n - 1]) ELSE B[n - 1]
  BY BooksFollow
<1>2. /\ B2[0] = EmptyBook
      /\ \A n \in 1 .. Len(entries2) :
            B2[n] = IF RanBy(run2, someBoot, entries2[n])
                    THEN After(sent2[entries2[n].key], B2[n - 1]) ELSE B2[n - 1]
  BY BooksFollow
<1> HIDE DEF B, B2
<1>3. 0 \in T
  <2>1. To(p, 0) = 0
    BY DEF To
  <2> QED  BY <2>1, <1>1, <1>2
<1>4. ASSUME NEW i \in T
      PROVE  i + 1 \in T
  <2>1. i \in Nat /\ i + 1 \in Nat
    OBVIOUS
  <2> SUFFICES ASSUME i + 1 <= m PROVE B2[To(p, i + 1)] = B[i + 1]
    BY <2>1
  <2>2. B2[To(p, i)] = B[i] /\ i + 1 \in 1 .. N /\ i + 1 \in 1 .. m /\ (i + 1) - 1 = i
    BY <2>1
  <2>3. CASE i + 1 = p
    <3>1. To(p, i + 1) = To(p, i)
      BY <2>1, <2>3 DEF To
    <3>2. B[i + 1] = B[i]
      <4>1. ~ RanBy(run, someBoot, entries[i + 1])
        BY <2>3 DEF SameRan
      <4> QED  BY <2>2, <4>1, <1>1
    <3> QED  BY <2>2, <3>1, <3>2
  <2>4. CASE i + 1 # p
    <3>1. To(p, i + 1) - 1 = To(p, i)
      BY <2>1, <2>4 DEF To
    <3>2. /\ To(p, i + 1) \in 1 .. Len(entries2)
          /\ RanBy(run2, someBoot, entries2[To(p, i + 1)]) <=> RanBy(run, someBoot, entries[i + 1])
          /\ RanBy(run, someBoot, entries[i + 1]) =>
                sent2[entries2[To(p, i + 1)].key] = sent[entries[i + 1].key]
      BY <2>2, <2>4 DEF SameRan
    <3>3. B[i + 1] = IF RanBy(run, someBoot, entries[i + 1])
                     THEN After(sent[entries[i + 1].key], B[i]) ELSE B[i]
      BY <2>2, <1>1
    <3>4. B2[To(p, i + 1)] = IF RanBy(run2, someBoot, entries2[To(p, i + 1)])
                             THEN After(sent2[entries2[To(p, i + 1)].key], B2[To(p, i)])
                             ELSE B2[To(p, i)]
      BY <3>1, <3>2, <1>2
    <3> QED  BY <2>2, <3>2, <3>3, <3>4
  <2> QED  BY <2>3, <2>4
<1>5. T = Nat
  <2>1. T \subseteq Nat
    OBVIOUS
  <2> HIDE DEF T
  <2> QED  BY <1>3, <1>4, <2>1, SetInduction
<1>6. ASSUME NEW i \in 0 .. m
      PROVE  B2[To(p, i)] = B[i]
  <2>1. i \in Nat /\ i <= m
    OBVIOUS
  <2>2. i \in T
    <3> HIDE DEF T
    <3> QED  BY <1>5, <2>1
  <2> QED  BY <2>1, <2>2
<1> QED  BY <1>6 DEF B, B2

(* If nobody ran the book stays empty.                                     *)
LEMMA NobodyRan ==
    ASSUME NEW sent, NEW run, NEW someBoot, NEW entries, Len(entries) \in Nat,
           \A i \in 1 .. Len(entries) : ~ RanBy(run, someBoot, entries[i])
    PROVE  Books(sent, run, someBoot, entries)[Len(entries)] = EmptyBook
<1> DEFINE B == Books(sent, run, someBoot, entries)
           N == Len(entries)
           T == {i \in Nat : i <= N => B[i] = EmptyBook}
<1>1. B[0] = EmptyBook /\ \A n \in 1 .. N : B[n] = B[n - 1]
  BY BooksFollow
<1> HIDE DEF B
<1>2. 0 \in T
  BY <1>1
<1>3. ASSUME NEW i \in T
      PROVE  i + 1 \in T
  <2>1. CASE i + 1 <= N
    <3>1. i + 1 \in 1 .. N /\ (i + 1) - 1 = i /\ B[i] = EmptyBook
      BY <2>1
    <3>2. B[i + 1] = EmptyBook
      BY <3>1, <1>1
    <3> QED  BY <3>2
  <2>2. CASE ~ (i + 1 <= N)
    BY <2>2
  <2> QED  BY <2>1, <2>2
<1>4. T \subseteq Nat
  OBVIOUS
<1>5. N \in T
  <2> HIDE DEF T
  <2> QED  BY <1>2, <1>3, <1>4, SetInduction
<1>6. N <= N
  OBVIOUS
<1> QED  BY <1>5, <1>6 DEF B

-------------------------------------------------------------------------------
(* What every step keeps of the past: the log loses at most an open entry  *)
(* and gets at most one at its end, what was sent stays, and a command     *)
(* that runs now has just committed the last entry.                        *)

Rest(p) == IF p <= Len(log) THEN Len(log) - 1 ELSE Len(log)

EntriesKept(p) ==
    /\ p \in 1 .. (Len(log) + 1)
    /\ p <= Len(log) => log[p].open
    /\ \A j \in 1 .. Rest(p) :
          /\ log'[j].key = log[From(p, j)].key
          /\ log'[j].event = log[From(p, j)].event
          /\ ~ log[From(p, j)].open => ~ log'[j].open

EntryAdded(p) ==
    \/ Len(log') = Rest(p)
    \/ /\ Len(log') = Rest(p) + 1
       /\ \A i \in 1 .. Len(log) : log[i].key # log'[Len(log')].key
       /\ IsFirstEvent(log'[Len(log')]) =>
             log'[Len(log')].key \in CommandIds /\ submitted'[log'[Len(log')].key] # None

SentKept == \A k \in CommandIds : submitted[k] # None => submitted'[k] = submitted[k]

RunNow(p, k) ==
    /\ p = Len(log) + 1
    /\ runs[k] = << >> /\ Len(runs'[k]) = 1
    /\ submitted[k] # None
    /\ Len(log) \in 1 .. Len(log') /\ IsFirstOf(k, Len(log)) /\ ~ log'[Len(log)].open

RunsKept(p) == \A k \in CommandIds : runs'[k] = runs[k] \/ RunNow(p, k)

Past(p) == EntriesKept(p) /\ EntryAdded(p) /\ SentKept /\ RunsKept(p)

(* The same, of the entries of the log that stay.                          *)
LEMMA RestPositions ==
    ASSUME Len(log) \in Nat, NEW p \in 1 .. (Len(log) + 1)
    PROVE  /\ Rest(p) \in Nat
           /\ \A i \in 1 .. Len(log) : i # p => To(p, i) \in 1 .. Rest(p) /\ From(p, To(p, i)) = i
           /\ \A j \in 1 .. Rest(p) : From(p, j) \in 1 .. Len(log) /\ From(p, j) # p
           /\ \A i, j \in 1 .. Rest(p) : From(p, i) = From(p, j) => i = j
           /\ To(p, Len(log)) = Rest(p)
<1>1. PICK N, M : N \in Nat /\ N = Len(log) /\ M = Rest(p)
  OBVIOUS
<1>2. N \in Nat /\ p \in 1 .. (N + 1) /\ M = IF p <= N THEN N - 1 ELSE N
  BY <1>1 DEF Rest
<1>3. /\ M \in Nat
      /\ \A i \in 1 .. N : i # p => To(p, i) \in 1 .. M /\ From(p, To(p, i)) = i
      /\ \A j \in 1 .. M : From(p, j) \in 1 .. N /\ From(p, j) # p
      /\ \A i, j \in 1 .. M : From(p, i) = From(p, j) => i = j
      /\ To(p, N) = M
  BY ONLY <1>2 DEF To, From
<1> QED  BY ONLY <1>1, <1>3

(* Where the entries of the two logs stand.                                *)
LEMMA PastPositions ==
    ASSUME Types, Types', NEW p, Past(p)
    PROVE  /\ Len(log) \in Nat /\ Len(log') \in Nat /\ Rest(p) \in Nat
           /\ DOMAIN log = 1 .. Len(log) /\ DOMAIN log' = 1 .. Len(log')
           /\ p \in Nat \ {0}
           /\ Rest(p) <= Len(log')
           /\ \A i \in 1 .. Len(log) : i # p =>
                 /\ To(p, i) \in 1 .. Rest(p)
                 /\ log'[To(p, i)].key = log[i].key
                 /\ log'[To(p, i)].event = log[i].event
                 /\ ~ log[i].open => ~ log'[To(p, i)].open
           /\ \A j \in 1 .. Rest(p) : From(p, j) \in 1 .. Len(log) /\ From(p, j) # p
           /\ \A i, j \in 1 .. Rest(p) : From(p, i) = From(p, j) => i = j
           /\ To(p, Len(log)) = Rest(p)
<1>1. Len(log) \in Nat /\ Len(log') \in Nat /\ DOMAIN log = 1 .. Len(log) /\ DOMAIN log' = 1 .. Len(log')
  BY DEF Types
<1>2. p \in 1 .. (Len(log) + 1)
  BY DEF Past, EntriesKept
<1>3. /\ Rest(p) \in Nat
      /\ \A i \in 1 .. Len(log) : i # p => To(p, i) \in 1 .. Rest(p) /\ From(p, To(p, i)) = i
      /\ \A j \in 1 .. Rest(p) : From(p, j) \in 1 .. Len(log) /\ From(p, j) # p
      /\ \A i, j \in 1 .. Rest(p) : From(p, i) = From(p, j) => i = j
      /\ To(p, Len(log)) = Rest(p)
  BY ONLY <1>1, <1>2, RestPositions
<1>4. Rest(p) <= Len(log')
  BY <1>1, <1>3 DEF Past, EntryAdded
<1>5. ASSUME NEW i \in 1 .. Len(log), i # p
      PROVE  /\ To(p, i) \in 1 .. Rest(p)
             /\ log'[To(p, i)].key = log[i].key
             /\ log'[To(p, i)].event = log[i].event
             /\ ~ log[i].open => ~ log'[To(p, i)].open
  <2>1. To(p, i) \in 1 .. Rest(p) /\ From(p, To(p, i)) = i
    BY <1>3, <1>5
  <2>2. /\ log'[To(p, i)].key = log[From(p, To(p, i))].key
        /\ log'[To(p, i)].event = log[From(p, To(p, i))].event
        /\ ~ log[From(p, To(p, i))].open => ~ log'[To(p, i)].open
    BY <2>1 DEF Past, EntriesKept
  <2> QED  BY <2>1, <2>2
<1>6. p \in Nat \ {0}
  BY <1>1, <1>2
<1> QED  BY <1>1, <1>3, <1>4, <1>5, <1>6

(* An open entry has not run, and no key has a second entry that has.      *)
LEMMA OpenHasNotRun ==
    ASSUME LogInv, NEW i \in DOMAIN log, log[i].open, IsFirstEvent(log[i])
    PROVE  log[i].key \in CommandIds /\ runs[log[i].key] = << >>
<1>1. log[i].key \in CommandIds
  BY DEF LogInv, FirstEventsSent
<1>2. SUFFICES ASSUME runs[log[i].key] # << >> PROVE FALSE
  BY <1>1
<1>3. PICK j \in DOMAIN log : IsFirstOf(log[i].key, j) /\ ~ log[j].open
  BY <1>1, <1>2 DEF LogInv, RunsLogged
<1>4. i = j
  BY <1>3 DEF LogInv, KeysDistinct, IsFirstOf
<1> QED  BY <1>3, <1>4

(* A command that had run has run as before.                               *)
LEMMA RanStays ==
    ASSUME LogInv, NEW p, Past(p), NEW k \in CommandIds, runs[k] # << >>
    PROVE  runs'[k] = runs[k] /\ submitted[k] # None /\ submitted'[k] = submitted[k]
<1>1. submitted[k] # None
  BY DEF LogInv, RunsLogged
<1> QED  BY <1>1 DEF Past, SentKept, RunsKept, RunNow

LEMMA LogInvKept ==
    ASSUME LogInv, Types', NEW p, Past(p)
    PROVE  LogInv'
<1> DEFINE N == Len(log)
           N2 == Len(log')
<1>1. Types
  BY DEF LogInv
<1>2. /\ N \in Nat /\ N2 \in Nat /\ Rest(p) \in Nat
      /\ DOMAIN log = 1 .. N /\ DOMAIN log' = 1 .. N2
      /\ p \in Nat \ {0} /\ Rest(p) <= N2
      /\ \A i \in 1 .. N : i # p =>
            /\ To(p, i) \in 1 .. Rest(p)
            /\ log'[To(p, i)].key = log[i].key
            /\ log'[To(p, i)].event = log[i].event
            /\ ~ log[i].open => ~ log'[To(p, i)].open
      /\ \A j \in 1 .. Rest(p) : From(p, j) \in 1 .. N /\ From(p, j) # p
      /\ \A i, j \in 1 .. Rest(p) : From(p, i) = From(p, j) => i = j
  BY <1>1, PastPositions
<1>3. \A j \in 1 .. Rest(p) :
         log'[j].key = log[From(p, j)].key /\ log'[j].event = log[From(p, j)].event
  BY DEF Past, EntriesKept
<1>4. \A j \in 1 .. N2 : j \in 1 .. Rest(p) \/ (j = N2 /\ N2 = Rest(p) + 1)
  <2>1. N2 = Rest(p) \/ N2 = Rest(p) + 1
    BY DEF Past, EntryAdded
  <2> HIDE DEF N2
  <2> QED  BY <1>2, <2>1
<1>5. N2 = Rest(p) + 1 =>
         /\ \A i \in 1 .. N : log[i].key # log'[N2].key
         /\ IsFirstEvent(log'[N2]) => log'[N2].key \in CommandIds /\ submitted'[log'[N2].key] # None
  BY <1>2 DEF Past, EntryAdded
<1>6. KeysDistinct'
  <2>1. ASSUME NEW i \in 1 .. N2, NEW j \in 1 .. N2, log'[i].key = log'[j].key
        PROVE  i = j
    <3>1. CASE i \in 1 .. Rest(p) /\ j \in 1 .. Rest(p)
      <4>1. log[From(p, i)].key = log[From(p, j)].key
        BY <3>1, <2>1, <1>3
      <4>2. From(p, i) = From(p, j)
        BY <3>1, <4>1, <1>2 DEF LogInv, KeysDistinct
      <4> QED  BY <3>1, <4>2, <1>2
    <3>2. CASE i \in 1 .. Rest(p) /\ j = N2 /\ N2 = Rest(p) + 1
      <4>1. From(p, i) \in 1 .. N /\ log'[i].key = log[From(p, i)].key
        BY <3>2, <1>2, <1>3
      <4> QED  BY <3>2, <4>1, <2>1, <1>5
    <3>3. CASE j \in 1 .. Rest(p) /\ i = N2 /\ N2 = Rest(p) + 1
      <4>1. From(p, j) \in 1 .. N /\ log'[j].key = log[From(p, j)].key
        BY <3>3, <1>2, <1>3
      <4> QED  BY <3>3, <4>1, <2>1, <1>5
    <3> QED  BY <3>1, <3>2, <3>3, <1>4
  <2> QED  BY <2>1, <1>2 DEF KeysDistinct
<1>7. FirstEventsSent'
  <2>1. ASSUME NEW j \in 1 .. N2, IsFirstEvent(log'[j])
        PROVE  log'[j].key \in CommandIds /\ submitted'[log'[j].key] # None
    <3>1. CASE j \in 1 .. Rest(p)
      <4>1. From(p, j) \in DOMAIN log /\ log'[j].key = log[From(p, j)].key
            /\ IsFirstEvent(log[From(p, j)])
        BY <3>1, <2>1, <1>2, <1>3 DEF IsFirstEvent
      <4>2. log'[j].key \in CommandIds /\ submitted[log'[j].key] # None
        BY <4>1 DEF LogInv, FirstEventsSent
      <4>3. submitted'[log'[j].key] = submitted[log'[j].key]
        BY <4>2 DEF Past, SentKept
      <4> QED  BY <4>2, <4>3
    <3>2. CASE j = N2 /\ N2 = Rest(p) + 1
      BY <3>2, <2>1, <1>5
    <3> QED  BY <3>1, <3>2, <1>4
  <2>2. \A j \in DOMAIN log' : IsFirstEvent(log'[j]) =>
           log'[j].key \in CommandIds /\ submitted'[log'[j].key] # None
    BY <2>1, <1>2
  <2> QED  BY <2>2 DEF FirstEventsSent, IsFirstEvent
<1>8. RunsLogged'
  <2>1. ASSUME NEW k \in CommandIds, runs'[k] # << >>
        PROVE  /\ submitted'[k] # None
               /\ \E j \in 1 .. N2 : /\ log'[j].key = k /\ IsFirstEvent(log'[j])
                                     /\ ~ log'[j].open
    <3>1. CASE runs'[k] = runs[k]
      <4>1. submitted'[k] # None
        BY <3>1, <2>1, RanStays
      <4>2. PICK i \in DOMAIN log : IsFirstOf(k, i) /\ ~ log[i].open
        BY <3>1, <2>1 DEF LogInv, RunsLogged
      <4>3. i # p
        BY <4>2, <1>2 DEF Past, EntriesKept
      <4>4. /\ To(p, i) \in 1 .. N2
            /\ log'[To(p, i)].key = k /\ ~ log'[To(p, i)].open
            /\ log'[To(p, i)].event = log[i].event
        BY <4>2, <4>3, <1>2 DEF IsFirstOf
      <4>5. IsFirstEvent(log'[To(p, i)])
        BY <4>2, <4>4 DEF IsFirstOf, IsFirstEvent
      <4> QED  BY <4>1, <4>4, <4>5
    <3>2. CASE RunNow(p, k)
      <4>1. submitted'[k] # None
        BY <3>2 DEF RunNow, Past, SentKept
      <4>2. N \in 1 .. N2 /\ N # p /\ N \in 1 .. N /\ p = N + 1
        <5>1. N \in 1 .. N2 /\ p = N + 1
          BY <3>2 DEF RunNow
        <5> HIDE DEF N, N2
        <5> QED  BY <5>1, <1>2
      <4>3. To(p, N) = N
        BY <4>2 DEF To
      <4>4. log'[N].key = log[N].key /\ log'[N].event = log[N].event
        BY <4>2, <4>3, <1>2
      <4>5. log'[N].key = k /\ IsFirstEvent(log'[N]) /\ ~ log'[N].open
        BY <3>2, <4>4 DEF RunNow, IsFirstOf, IsFirstEvent
      <4> QED  BY <4>1, <4>2, <4>5
    <3> QED  BY <3>1, <3>2 DEF Past, RunsKept
  <2>2. \A k \in CommandIds : runs'[k] # << >> =>
           /\ submitted'[k] # None
           /\ \E j \in DOMAIN log' : (log'[j].key = k /\ IsFirstEvent(log'[j])) /\ ~ log'[j].open
    BY <2>1, <1>2
  <2> QED  BY <2>2 DEF RunsLogged, IsFirstOf, IsFirstEvent
<1>9. AtMostOnceEffect'
  <2>1. ASSUME NEW k \in CommandIds
        PROVE  Len(runs'[k]) <= 1
    <3>1. CASE runs'[k] = runs[k]
      BY <3>1 DEF LogInv, AtMostOnceEffect
    <3>2. CASE RunNow(p, k)
      BY <3>2 DEF RunNow
    <3> QED  BY <3>1, <3>2 DEF Past, RunsKept
  <2> QED  BY <2>1 DEF AtMostOnceEffect
<1> QED  BY <1>6, <1>7, <1>8, <1>9 DEF LogInv

(* The record of a key is its one closed entry's, before and after a step. *)
LEMMA RecordIs ==
    ASSUME KeysDistinct, NEW i \in DOMAIN log, ~ log[i].open
    PROVE  Logged(log[i].key) /\ RecordAt(log[i].key) = log[i].event
<1>1. i \in ClosedAt(log[i].key)
  BY DEF ClosedAt
<1>2. \A j \in ClosedAt(log[i].key) : j = i
  BY DEF ClosedAt, KeysDistinct
<1>3. (CHOOSE j \in ClosedAt(log[i].key) : TRUE) = i
  BY <1>1, <1>2
<1> QED  BY <1>1, <1>3 DEF Logged, RecordAt

LEMMA NextRecordIs ==
    ASSUME KeysDistinct', NEW i \in DOMAIN log', ~ log'[i].open, NEW key, key = log'[i].key
    PROVE  Logged(key)' /\ RecordAt(key)' = log'[i].event
<1> DEFINE C == {j \in DOMAIN log' : log'[j].key = key /\ ~ log'[j].open}
<1>1. i \in C
  OBVIOUS
<1>2. \A j \in C : j = i
  BY DEF KeysDistinct
<1> HIDE DEF C
<1>3. (CHOOSE j \in C : TRUE) = i
  BY <1>1, <1>2
<1>4. Logged(key)' <=> C # {}
  BY DEF Logged, ClosedAt, C
<1>5. RecordAt(key)' = log'[CHOOSE j \in C : TRUE].event
  BY DEF RecordAt, ClosedAt, C
<1> QED  BY <1>1, <1>3, <1>4, <1>5

LEMMA LoggedKept ==
    ASSUME LogInv, Types', NEW p, Past(p), NEW key, Logged(key)
    PROVE  Logged(key)' /\ RecordAt(key)' = RecordAt(key)
<1>1. PICK i \in DOMAIN log : log[i].key = key /\ ~ log[i].open
  BY DEF Logged, ClosedAt
<1>2. Types /\ KeysDistinct /\ KeysDistinct'
  BY LogInvKept DEF LogInv
<1>3. i # p
  BY <1>1, <1>2, PastPositions DEF Past, EntriesKept
<1>4. /\ To(p, i) \in DOMAIN log' /\ log'[To(p, i)].key = key
      /\ log'[To(p, i)].event = log[i].event /\ ~ log'[To(p, i)].open
  <2>1. /\ i \in 1 .. Len(log) /\ To(p, i) \in 1 .. Rest(p) /\ Rest(p) <= Len(log')
        /\ Rest(p) \in Nat /\ Len(log') \in Nat /\ DOMAIN log' = 1 .. Len(log')
    BY <1>2, <1>3, PastPositions
  <2>2. To(p, i) \in DOMAIN log'
    BY <2>1
  <2> QED  BY <2>1, <2>2, <1>1, <1>2, <1>3, PastPositions
<1>5. RecordAt(key) = log[i].event
  BY <1>1, <1>2, RecordIs
<1>6. Logged(key)' /\ RecordAt(key)' = log'[To(p, i)].event
  BY <1>2, <1>4, NextRecordIs
<1> QED  BY <1>4, <1>5, <1>6

IsFront(front, entries, m) ==
    Len(front) \in Nat /\ m <= Len(front) /\ \A i \in 1 .. m : front[i] = entries[i]

(* The books before entry i are those before where it is now: the entry    *)
(* that went had not run, and nobody has run since but the last.           *)
LEMMA BooksKept ==
    ASSUME LogInv, Types', NEW p, Past(p), NEW someBoot, NEW m \in 0 .. Len(log),
           m = Len(log) => \A k \in CommandIds : runs'[k] = runs[k],
           NEW front, IsFront(front, log, m), NEW front2, IsFront(front2, log', To(p, m))
    PROVE  Books(submitted', runs', someBoot, front2)[To(p, m)]
               = Books(submitted, runs, someBoot, front)[m]
<1>1. /\ Len(log) \in Nat /\ DOMAIN log = 1 .. Len(log) /\ p \in Nat \ {0}
      /\ \A i \in 1 .. Len(log) : i # p =>
            log'[To(p, i)].key = log[i].key /\ log'[To(p, i)].event = log[i].event
  BY PastPositions DEF LogInv
<1>2. m \in Nat /\ m <= Len(log) /\ m <= m
  <2>1. Len(log) \in Nat /\ m \in 0 .. Len(log)
    BY <1>1
  <2> QED  BY ONLY <2>1
<1>3. ASSUME p <= m
      PROVE  ~ RanBy(runs, someBoot, front[p])
  <2>1. p \in DOMAIN log /\ log[p].open /\ front[p] = log[p]
    <3>1. p \in 1 .. m /\ p \in 1 .. Len(log) /\ p <= Len(log)
      BY ONLY <1>1, <1>2, <1>3
    <3>2. log[p].open
      BY <3>1 DEF Past, EntriesKept
    <3>3. front[p] = log[p]
      BY <3>1 DEF IsFront
    <3> QED  BY <3>1, <3>2, <3>3, <1>1
  <2>2. SUFFICES ASSUME RanBy(runs, someBoot, log[p]) PROVE FALSE
    BY <2>1
  <2>3. runs[log[p].key] = << >>
    BY <2>1, <2>2, OpenHasNotRun DEF RanBy
  <2> QED  BY <2>2, <2>3 DEF RanBy
<1>4. ASSUME NEW i \in 1 .. m, i # p
      PROVE  /\ To(p, i) \in 1 .. Len(front2)
             /\ RanBy(runs', someBoot, front2[To(p, i)]) <=> RanBy(runs, someBoot, front[i])
             /\ RanBy(runs, someBoot, front[i]) =>
                   submitted'[front2[To(p, i)].key] = submitted[front[i].key]
  <2>1. i \in 1 .. Len(log) /\ i \in DOMAIN log /\ front[i] = log[i]
    <3>1. i \in 1 .. m
      OBVIOUS
    <3>2. i \in 1 .. Len(log)
      BY ONLY <3>1, <1>1, <1>2
    <3>3. front[i] = log[i]
      BY <3>1 DEF IsFront
    <3> QED  BY <3>2, <3>3, <1>1
  <2>2. To(p, i) \in 1 .. To(p, m) /\ To(p, m) \in Nat
    <3>1. p \in Nat \ {0} /\ m \in Nat /\ i \in 1 .. m /\ i # p
      BY <1>1, <1>2, <1>4
    <3> QED  BY ONLY <3>1 DEF To
  <2>3. To(p, i) \in 1 .. Len(front2) /\ front2[To(p, i)] = log'[To(p, i)]
    <3>1. front2[To(p, i)] = log'[To(p, i)]
      BY <2>2 DEF IsFront
    <3>2. Len(front2) \in Nat /\ To(p, m) <= Len(front2)
      BY DEF IsFront
    <3> QED  BY ONLY <2>2, <3>1, <3>2
  <2>4. front2[To(p, i)].key = log[i].key /\ front2[To(p, i)].event = log[i].event
    BY <2>1, <2>3, <1>1, <1>4
  <2>5. IsFirstEvent(front2[To(p, i)]) <=> IsFirstEvent(log[i])
    BY <2>4 DEF IsFirstEvent
  <2>6. ASSUME IsFirstEvent(log[i])
        PROVE  log[i].key \in CommandIds /\ runs'[log[i].key] = runs[log[i].key]
    <3>1. log[i].key \in CommandIds
      BY <2>1, <2>6 DEF LogInv, FirstEventsSent
    <3>2. CASE m = Len(log)
      BY <3>1, <3>2
    <3>3. CASE m # Len(log)
      <4>1. i # Len(log) /\ Len(log) \in DOMAIN log
        <5>1. i \in 1 .. m
          OBVIOUS
        <5>3. Len(log) \in Nat /\ m \in Nat /\ m <= Len(log) /\ m # Len(log)
          BY <1>1, <1>2, <3>3
        <5>2. i # Len(log) /\ Len(log) \in 1 .. Len(log)
          BY ONLY <5>1, <5>3
        <5> QED  BY <5>2, <1>1
      <4>2. CASE RunNow(p, log[i].key)
        <5>1. log[Len(log)].key = log[i].key
          BY <4>2 DEF RunNow, IsFirstOf
        <5>2. KeysDistinct
          BY DEF LogInv
        <5>3. i = Len(log)
          BY ONLY <4>1, <5>1, <5>2, <2>1 DEF KeysDistinct
        <5> QED  BY <4>1, <5>3
      <4>3. CASE runs'[log[i].key] = runs[log[i].key]
        BY <3>1, <4>3
      <4> QED  BY <3>1, <4>2, <4>3 DEF Past, RunsKept
    <3> QED  BY <3>2, <3>3
  <2>7. RanBy(runs', someBoot, front2[To(p, i)]) <=> RanBy(runs, someBoot, front[i])
    BY <2>1, <2>4, <2>5, <2>6 DEF RanBy
  <2>8. ASSUME RanBy(runs, someBoot, front[i])
        PROVE  submitted'[front2[To(p, i)].key] = submitted[front[i].key]
    <3>1. log[i].key \in CommandIds
      BY <2>1, <2>6, <2>8 DEF RanBy
    <3>2. submitted[log[i].key] # None
      BY <2>1, <2>8 DEF RanBy, LogInv, FirstEventsSent
    <3>3. submitted'[log[i].key] = submitted[log[i].key]
      BY <3>1, <3>2 DEF Past, SentKept
    <3> QED  BY <3>3, <2>1, <2>4
  <2> QED  BY <2>3, <2>7, <2>8
<1>5. m \in 0 .. Len(front) /\ m \in 0 .. m /\ Len(front) \in Nat /\ Len(front2) \in Nat
  BY <1>2 DEF IsFront
<1>6. \A i \in 0 .. m :
         Books(submitted', runs', someBoot, front2)[To(p, i)] = Books(submitted, runs, someBoot, front)[i]
  <2>1. SameRan(p, m, someBoot, submitted, runs, front, submitted', runs', front2)
    BY <1>3, <1>4 DEF SameRan
  <2>2. p \in Nat \ {0}
    BY <1>1
  <2> QED  BY ONLY <2>1, <2>2, <1>5, SameBooks
<1> QED  BY <1>5, <1>6

(* What a command that ran has matched never changes.                      *)
LEMMA MatchedKept ==
    ASSUME LogInv, Types', NEW p, Past(p), NEW k \in CommandIds, runs[k] # << >>
    PROVE  Matched(k)' = Matched(k)
<1> DEFINE N == Len(log)
<1>1. PICK i \in DOMAIN log : IsFirstOf(k, i) /\ ~ log[i].open
  BY DEF LogInv, RunsLogged
<1>2. /\ N \in Nat /\ Len(log') \in Nat /\ DOMAIN log = 1 .. N /\ DOMAIN log' = 1 .. Len(log')
      /\ p \in Nat \ {0} /\ Rest(p) <= Len(log') /\ Rest(p) \in Nat
      /\ \A j \in 1 .. N : j # p =>
            /\ To(p, j) \in 1 .. Rest(p)
            /\ log'[To(p, j)].key = log[j].key /\ log'[To(p, j)].event = log[j].event
  BY PastPositions DEF LogInv
<1>3. i # p /\ i \in 1 .. N
  BY <1>1, <1>2 DEF Past, EntriesKept
<1> DEFINE i2 == To(p, i)
<1>4. i2 \in 1 .. Len(log') /\ i2 \in Nat
  BY <1>2, <1>3
<1>5. log'[i2].key = k /\ IsFirstEvent(log'[i2])
  BY <1>1, <1>2, <1>3 DEF IsFirstOf, IsFirstEvent
<1>6. KeysDistinct /\ KeysDistinct' /\ Types
  BY LogInvKept DEF LogInv
<1>7. FirstAt(log, k) = i
  <2>1. \A j \in DOMAIN log : log[j].key = k /\ IsFirstEvent(log[j]) => j = i
    BY <1>1, <1>6 DEF IsFirstOf, KeysDistinct
  <2> QED  BY <2>1, <1>1 DEF FirstAt, IsFirstOf
<1>8. FirstAt(log', k) = i2
  <2>1. \A j \in DOMAIN log' : log'[j].key = k /\ IsFirstEvent(log'[j]) => j = i2
    BY <1>2, <1>4, <1>5, <1>6 DEF KeysDistinct
  <2> HIDE DEF i2
  <2> QED  BY <2>1, <1>2, <1>4, <1>5 DEF FirstAt
<1>9. runs'[k] = runs[k] /\ submitted'[k] = submitted[k]
  BY RanStays
<1> DEFINE front  == SubSeq(log, 1, i - 1)
           front2 == SubSeq(log', 1, i2 - 1)
<1>10. Len(front) = i - 1 /\ \A j \in 1 .. (i - 1) : front[j] = log[j]
  <2>1. \A j \in 1 .. N : log[j] \in Entries
    BY <1>2, <1>6 DEF Types
  <2>2. \A j \in 1 .. (i - 1) : log[j] \in Entries
    BY <2>1, <1>2, <1>3
  <2>3. i - 1 \in Int /\ 1 \in Int /\ i - 1 >= 0
    BY <1>2, <1>3
  <2>4. /\ Len(front) = IF 1 <= i - 1 THEN (i - 1) - 1 + 1 ELSE 0
        /\ \A j \in 1 .. (i - 1) - 1 + 1 : front[j] = log[1 + j - 1]
    BY <2>2, <2>3, SubSeqProperties
  <2> HIDE DEF front
  <2> QED  BY <2>3, <2>4
<1>11. Len(front2) = i2 - 1 /\ \A j \in 1 .. (i2 - 1) : front2[j] = log'[j]
  <2>1. \A j \in 1 .. Len(log') : log'[j] \in Entries
    BY <1>2 DEF Types
  <2> HIDE DEF i2
  <2>2. \A j \in 1 .. (i2 - 1) : log'[j] \in Entries
    BY <2>1, <1>2, <1>4
  <2>3. i2 - 1 \in Int /\ 1 \in Int /\ i2 - 1 >= 0
    BY <1>2, <1>4
  <2>4. /\ Len(front2) = IF 1 <= i2 - 1 THEN (i2 - 1) - 1 + 1 ELSE 0
        /\ \A j \in 1 .. (i2 - 1) - 1 + 1 : front2[j] = log'[1 + j - 1]
    BY <2>2, <2>3, SubSeqProperties
  <2> HIDE DEF front2
  <2> QED  BY <2>3, <2>4
<1>12. To(p, i - 1) = i2 - 1
  BY <1>2, <1>3 DEF To
<1>13. \A b : Books(submitted', runs', b, front2)[Len(front2)] = Books(submitted, runs, b, front)[Len(front)]
  <2> TAKE b
  <2> DEFINE m == i - 1
  <2>1. m \in 0 .. Len(log) /\ m # Len(log) /\ m \in Nat
    BY <1>2, <1>3
  <2>2. IsFront(front, log, m)
    <3> HIDE DEF front
    <3> QED  BY <2>1, <1>10 DEF IsFront
  <2>3. IsFront(front2, log', To(p, m))
    <3>1. i2 - 1 \in Nat /\ i2 - 1 <= i2 - 1
      <4> HIDE DEF i2
      <4> QED  BY <1>4
    <3> HIDE DEF front2, i2
    <3> QED  BY <3>1, <1>11, <1>12 DEF IsFront
  <2> HIDE DEF front, front2, m, i2
  <2>5. Books(submitted', runs', b, front2)[To(p, m)] = Books(submitted, runs, b, front)[m]
    BY <2>1, <2>2, <2>3, BooksKept
  <2>4. Books(submitted', runs', b, front2)[To(p, i - 1)] = Books(submitted, runs, b, front)[i - 1]
    BY <2>5 DEF m
  <2> QED  BY <2>4, <1>10, <1>11, <1>12
<1>14. MatchedOf(submitted', runs', log', k) = MatchedOf(submitted, runs, log, k)
  <2> HIDE DEF i2
  <2>1. MatchedOf(submitted, runs, log, k) =
           IF (\E n \in DOMAIN runs[k] : runs[k][n].error = "None") /\ submitted[k].type = "PlaceOrder"
           THEN PlaceOutcome(submitted[k].order,
                             Books(submitted, runs, runs[k][1].boot, front)[Len(front)]).trades
           ELSE << >>
    BY <1>7 DEF MatchedOf
  <2>2. MatchedOf(submitted', runs', log', k) =
           IF (\E n \in DOMAIN runs'[k] : runs'[k][n].error = "None") /\ submitted'[k].type = "PlaceOrder"
           THEN PlaceOutcome(submitted'[k].order,
                             Books(submitted', runs', runs'[k][1].boot, front2)[Len(front2)]).trades
           ELSE << >>
    BY <1>8 DEF MatchedOf
  <2> HIDE DEF front, front2
  <2> QED  BY <2>1, <2>2, <1>9, <1>13
<1> QED  BY <1>14, MatchedIsMatchedOf

-------------------------------------------------------------------------------
(* What was matched, told and held stays so.                               *)

(* The entry at i is a command's first event; a trade's entry follows the  *)
(* matching of its command.                                                *)
Follows(key, event) ==
    \E k \in CommandIds : \E n \in DOMAIN Matched(k) :
        /\ key = Key(k, n)
        /\ event = TradeExecuted(Matched(k)[n])
        /\ \A m \in 1 .. (n - 1) : Logged(Key(k, m))

(* The command k was placed and its trades, what was left of it and the    *)
(* records of its first trades are these.                                  *)
Held(k, trades, remaining, records) ==
    /\ submitted[k].type = "PlaceOrder"
    /\ AcceptedByBook(k)
    /\ trades = Matched(k)
    /\ remaining = submitted[k].order.quantity - Quantity(Matched(k))
    /\ \A n \in 1 .. Len(records) : Told(k, n, records[n])

(* What was accepted has run, and only what ran matched anything.          *)
LEMMA AcceptedRan ==
    ASSUME NEW k \in CommandIds, AcceptedByBook(k)
    PROVE  runs[k] # << >>
  BY DEF AcceptedByBook

LEMMA MatchedRan ==
    ASSUME NEW k \in CommandIds, Matched(k) # << >>
    PROVE  runs[k] # << >>
<1>1. AcceptedByBook(k)
  BY DEF Matched
<1> QED  BY <1>1, AcceptedRan

LEMMA FollowsKept ==
    ASSUME LogInv, Types', NEW p, Past(p), NEW key, NEW event, Follows(key, event)
    PROVE  Follows(key, event)'
<1>0. PICK k \in CommandIds :
         \E n \in DOMAIN Matched(k) :
            /\ key = Key(k, n) /\ event = TradeExecuted(Matched(k)[n])
            /\ \A m \in 1 .. (n - 1) : Logged(Key(k, m))
  BY DEF Follows
<1>1. PICK n \in DOMAIN Matched(k) :
         /\ key = Key(k, n) /\ event = TradeExecuted(Matched(k)[n])
         /\ \A m \in 1 .. (n - 1) : Logged(Key(k, m))
  BY <1>0
<1>2. Matched(k) # << >>
  OBVIOUS
<1>3. Matched(k)' = Matched(k)
  BY <1>2, MatchedRan, MatchedKept
<1>4. \A m \in 1 .. (n - 1) : Logged(Key(k, m))'
  BY <1>1, LoggedKept
<1>5. /\ n \in DOMAIN Matched(k)' /\ event = TradeExecuted(Matched(k)'[n])
      /\ key = Key(k, n)
  BY <1>1, <1>3
<1> HIDE DEF Matched
<1> QED  BY <1>4, <1>5 DEF Follows, TradeExecuted, Key

LEMMA TradesKept ==
    ASSUME LogInv, Types', NEW p, Past(p), TradesFollowMatching,
           \/ Len(log') = Rest(p)
           \/ IsFirstEvent(log'[Len(log')])
           \/ Follows(log'[Len(log')].key, log'[Len(log')].event)
    PROVE  TradesFollowMatching'
<1>1. /\ Len(log') \in Nat /\ DOMAIN log' = 1 .. Len(log') /\ Rest(p) \in Nat
      /\ DOMAIN log = 1 .. Len(log)
      /\ \A j \in 1 .. Rest(p) : From(p, j) \in 1 .. Len(log)
  BY PastPositions DEF LogInv
<1>2. ASSUME NEW j \in DOMAIN log', ~ IsFirstEvent(log'[j]),
             NEW key, key = log'[j].key, NEW event, event = log'[j].event
      PROVE  Follows(key, event)'
  <2>1. Follows(key, event)
    <3>1. CASE j \in 1 .. Rest(p)
      <4>1. /\ From(p, j) \in DOMAIN log
            /\ key = log[From(p, j)].key /\ event = log[From(p, j)].event
        BY <3>1, <1>1, <1>2 DEF Past, EntriesKept
      <4>2. ~ IsFirstEvent(log[From(p, j)])
        BY <4>1, <1>2 DEF IsFirstEvent
      <4> QED  BY <4>1, <4>2 DEF TradesFollowMatching, Follows
    <3>2. CASE j \notin 1 .. Rest(p)
      <4>1. Len(log') = Rest(p) \/ Len(log') = Rest(p) + 1
        BY DEF Past, EntryAdded
      <4>2. j = Len(log') /\ Len(log') # Rest(p)
        BY <4>1, <3>2, <1>1, <1>2
      <4> QED  BY <4>2, <1>2
    <3> QED  BY <3>1, <3>2
  <2> QED  BY <2>1, FollowsKept
<1>3. ASSUME NEW j \in DOMAIN log', ~ IsFirstEvent(log'[j])
      PROVE  Follows(log[j].key, log[j].event)'
  <2>1. PICK key, event : key = log'[j].key /\ event = log'[j].event
    OBVIOUS
  <2>2. Follows(key, event)'
    BY <1>2, <1>3, <2>1
  <2> QED  BY <2>1, <2>2 DEF Follows
<1> QED  BY <1>3 DEF TradesFollowMatching, Follows, IsFirstEvent

LEMMA ToldKept ==
    ASSUME LogInv, Types', NEW p, Past(p), NEW k \in CommandIds, runs[k] # << >>,
           NEW n, NEW record, Told(k, n, record)
    PROVE  Told(k, n, record)'
<1>1. Matched(k)' = Matched(k)
  BY MatchedKept
<1>2. Logged(Key(k, n))' /\ RecordAt(Key(k, n))' = RecordAt(Key(k, n))
  BY LoggedKept DEF Told
<1>3. Key(k, n)' = Key(k, n)
  BY DEF Key
<1> HIDE DEF Matched, Key
<1> QED  BY <1>1, <1>2, <1>3 DEF Told, TradeExecuted

LEMMA HeldKept ==
    ASSUME LogInv, Types', NEW p, Past(p), NEW k \in CommandIds,
           NEW trades, NEW remaining, NEW records, Held(k, trades, remaining, records)
    PROVE  Held(k, trades, remaining, records)'
<1>1. runs[k] # << >>
  BY AcceptedRan DEF Held
<1>2. Matched(k)' = Matched(k) /\ runs'[k] = runs[k] /\ submitted'[k] = submitted[k]
  BY <1>1, MatchedKept, RanStays
<1>3. AcceptedByBook(k)'
  BY <1>2 DEF Held, AcceptedByBook
<1>4. \A n \in 1 .. Len(records) : Told(k, n, records[n])'
  BY <1>1, ToldKept DEF Held
<1>5. remaining = submitted'[k].order.quantity - Quantity(Matched(k)')
  BY <1>2 DEF Held
<1>6. Quantity(Matched(k))' = Quantity(Matched(k)')
  OBVIOUS
<1> HIDE DEF Matched
<1> QED  BY <1>2, <1>3, <1>4, <1>5, <1>6 DEF Held

LEMMA ReplyKept ==
    ASSUME LogInv, Types', NEW p, Past(p), ReplySound, reply' = reply
    PROVE  ReplySound'
<1> SUFFICES ASSUME IsOk(reply), reply.result = "OrderPlaced", reply.inserted
             PROVE  ReplySound'
  BY DEF ReplySound, IsOk
<1>0. PICK c \in CommandIds : c = reply.command_id
  BY DEF ReplySound
<1>1. PICK trades, remaining, records :
         /\ c = reply.command_id /\ trades = Matched(c)
         /\ remaining = reply.remaining_quantity /\ records = reply.trades
  BY <1>0
<1>2. submitted[c] # None /\ records \in Seq(LoggedEvents) /\ Len(records) = Len(Matched(c))
  BY <1>1 DEF ReplySound
<1>3. Held(c, trades, remaining, records)
  BY <1>1 DEF ReplySound, Held
<1>4. runs[c] # << >>
  BY <1>3, AcceptedRan DEF Held
<1>5. Matched(c)' = Matched(c) /\ submitted'[c] = submitted[c]
  BY <1>4, MatchedKept, RanStays
<1>6. Held(c, trades, remaining, records)'
  BY <1>3, HeldKept
<1> QED  BY <1>1, <1>2, <1>5, <1>6 DEF ReplySound, Held

-------------------------------------------------------------------------------
(* The four ways a step treats the log.                                    *)

(* Nothing is taken out: every entry stays where it is.                    *)
LEMMA NothingGoes ==
    ASSUME Len(log) \in Nat
    PROVE  /\ Rest(Len(log) + 1) = Len(log)
           /\ \A j \in 1 .. Len(log) : From(Len(log) + 1, j) = j
           /\ Len(log) + 1 \in 1 .. (Len(log) + 1) /\ ~ (Len(log) + 1 <= Len(log))
  BY DEF Rest, From

(* It leaves it alone,                                                     *)
LEMMA LogUntouched ==
    ASSUME LogInv, log' = log
    PROVE  EntriesKept(Len(log) + 1) /\ EntryAdded(Len(log) + 1)
<1>1. Len(log) \in Nat
  BY DEF LogInv, Types
<1>2. Rest(Len(log) + 1) = Len(log) /\ \A j \in 1 .. Len(log) : From(Len(log) + 1, j) = j
  BY <1>1, NothingGoes
<1>3. Len(log) + 1 \in 1 .. (Len(log) + 1) /\ ~ (Len(log) + 1 <= Len(log))
  BY <1>1
<1>4. EntriesKept(Len(log) + 1)
  BY <1>2, <1>3 DEF EntriesKept
<1>5. EntryAdded(Len(log) + 1)
  BY <1>2 DEF EntryAdded
<1> QED  BY <1>4, <1>5

(* appends an entry of a new key,                                          *)
LEMMA LogAppended ==
    ASSUME LogInv, NEW entry \in Entries, log' = Append(log, entry),
           \A i \in DOMAIN log : log[i].key # entry.key,
           IsFirstEvent(entry) => entry.key \in CommandIds /\ submitted'[entry.key] # None
    PROVE  /\ log' \in Seq(Entries)
           /\ Len(log') = Len(log) + 1 /\ log'[Len(log')] = entry
           /\ EntriesKept(Len(log) + 1) /\ EntryAdded(Len(log) + 1)
<1>1. log \in Seq(Entries) /\ Len(log) \in Nat /\ DOMAIN log = 1 .. Len(log)
  BY DEF LogInv, Types
<1>2. /\ log' \in Seq(Entries) /\ Len(log') = Len(log) + 1
      /\ \A j \in 1 .. Len(log) : log'[j] = log[j]
      /\ log'[Len(log) + 1] = entry
  BY <1>1, AppendProperties
<1>3. Rest(Len(log) + 1) = Len(log) /\ \A j \in 1 .. Len(log) : From(Len(log) + 1, j) = j
  BY <1>1, NothingGoes
<1>4. Len(log) + 1 \in 1 .. (Len(log) + 1) /\ ~ (Len(log) + 1 <= Len(log))
  BY <1>1
<1>5. EntriesKept(Len(log) + 1)
  BY <1>2, <1>3, <1>4 DEF EntriesKept
<1>6. log'[Len(log')] = entry
  BY <1>2
<1>7. IsFirstEvent(log'[Len(log')]) => IsFirstEvent(entry)
  BY <1>6
<1>8. EntryAdded(Len(log) + 1)
  BY <1>1, <1>2, <1>3, <1>6, <1>7 DEF EntryAdded
<1> QED  BY <1>2, <1>5, <1>6, <1>8

(* commits an open entry,                                                  *)
LEMMA LogClosed ==
    ASSUME LogInv, NEW i \in DOMAIN log, log' = Close(i)
    PROVE  /\ log' \in Seq(Entries) /\ Len(log') = Len(log) /\ DOMAIN log' = DOMAIN log
           /\ log'[i].key = log[i].key /\ log'[i].event = log[i].event /\ ~ log'[i].open
           /\ \A j \in DOMAIN log : j # i => log'[j] = log[j]
           /\ EntriesKept(Len(log) + 1) /\ EntryAdded(Len(log) + 1)
<1>1. log \in Seq(Entries) /\ Len(log) \in Nat /\ DOMAIN log = 1 .. Len(log)
  BY DEF LogInv, Types
<1>2. \A j \in DOMAIN log : log[j] \in Entries
  BY <1>1
<1> DEFINE entry == [log[i] EXCEPT !.open = FALSE]
<1>3. entry \in Entries /\ entry.key = log[i].key /\ entry.event = log[i].event /\ ~ entry.open
  BY <1>2 DEF Entries
<1>4. log' = [log EXCEPT ![i] = entry]
  BY DEF Close
<1> HIDE DEF entry
<1>5. /\ log' \in Seq(Entries) /\ Len(log') = Len(log)
      /\ DOMAIN log' = DOMAIN log /\ log'[i] = entry
      /\ \A j \in DOMAIN log : j # i => log'[j] = log[j]
  <2>1. log' \in Seq(Entries) /\ Len(log') = Len(log) /\ \A j \in 1 .. Len(log) : log'[j] = IF j = i THEN entry ELSE log[j]
    BY <1>1, <1>3, <1>4, ExceptSeq
  <2> QED  BY <2>1, <1>1
<1>6. Rest(Len(log) + 1) = Len(log) /\ \A j \in 1 .. Len(log) : From(Len(log) + 1, j) = j
  BY <1>1, NothingGoes
<1>7. \A j \in 1 .. Len(log) : /\ log'[j].key = log[j].key /\ log'[j].event = log[j].event
                               /\ ~ log[j].open => ~ log'[j].open
  BY <1>1, <1>3, <1>5
<1>8. EntriesKept(Len(log) + 1)
  <2>1. Len(log) + 1 \in 1 .. (Len(log) + 1) /\ ~ (Len(log) + 1 <= Len(log))
    BY <1>1, NothingGoes
  <2> QED  BY <2>1, <1>6, <1>7 DEF EntriesKept
<1>9. EntryAdded(Len(log) + 1)
  BY <1>5, <1>6 DEF EntryAdded
<1> QED  BY <1>3, <1>5, <1>8, <1>9

(* or takes an open entry back.                                            *)
LEMMA LogRemoved ==
    ASSUME LogInv, NEW i \in DOMAIN log, log[i].open, log' = RemoveAt(log, i)
    PROVE  /\ log' \in Seq(Entries) /\ Len(log') = Len(log) - 1
           /\ i \in Nat \ {0}
           /\ \A j \in 1 .. Len(log) - 1 : log'[j] = log[From(i, j)]
           /\ EntriesKept(i) /\ EntryAdded(i) /\ Len(log') = Rest(i)
<1>1. log \in Seq(Entries) /\ Len(log) \in Nat /\ DOMAIN log = 1 .. Len(log)
  BY DEF LogInv, Types
<1>2. /\ log' \in Seq(Entries) /\ Len(log') = Len(log) - 1
      /\ \A j \in 1 .. Len(log) - 1 : log'[j] = log[IF j < i THEN j ELSE j + 1]
  BY <1>1, RemoveAtProperties
<1>3. i \in 1 .. (Len(log) + 1) /\ i <= Len(log) /\ i \in Nat \ {0}
  BY <1>1
<1>4. Rest(i) = Len(log) - 1
  BY <1>3 DEF Rest
<1>5. \A j \in 1 .. Len(log) - 1 : log'[j] = log[From(i, j)]
  BY <1>2 DEF From
<1>6. EntriesKept(i)
  BY <1>3, <1>4, <1>5 DEF EntriesKept
<1>7. EntryAdded(i)
  BY <1>2, <1>4 DEF EntryAdded
<1> QED  BY <1>2, <1>3, <1>4, <1>5, <1>6, <1>7

(* The entries that stay in the log, and an entry that nobody ran, leave   *)
(* the replay as it is.                                                    *)
LEMMA ReplayKept ==
    ASSUME LogInv, Types', NEW p, Past(p), BookIsReplay,
           \A k \in CommandIds : runs'[k] = runs[k], book' = book, boot' = boot
    PROVE  BookIsReplay'
<1>1. /\ Len(log) \in Nat /\ Len(log') \in Nat /\ Rest(p) \in Nat /\ Rest(p) <= Len(log')
      /\ DOMAIN log = 1 .. Len(log) /\ To(p, Len(log)) = Rest(p)
  BY PastPositions DEF LogInv
<1> DEFINE B2 == Books(submitted', runs', boot, log')
<1>2. B2[Rest(p)] = Books(submitted, runs, boot, log)[Len(log)]
  <2>1. Len(log) \in 0 .. Len(log)
    BY <1>1
  <2>2. IsFront(log, log, Len(log)) /\ IsFront(log', log', To(p, Len(log)))
    BY <1>1 DEF IsFront
  <2>3. Books(submitted', runs', boot, log')[To(p, Len(log))]
           = Books(submitted, runs, boot, log)[Len(log)]
    BY <2>1, <2>2, BooksKept
  <2> QED  BY <2>3, <1>1
<1>3. B2[Len(log')] = B2[Rest(p)]
  <2>1. CASE Len(log') = Rest(p)
    BY <2>1
  <2>2. CASE Len(log') # Rest(p)
    <3> DEFINE last == log'[Len(log')]
    <3>1. /\ Len(log') = Rest(p) + 1
          /\ \A i \in DOMAIN log : log[i].key # last.key
          /\ IsFirstEvent(last) => last.key \in CommandIds
      BY <2>2, <1>1 DEF Past, EntryAdded
    <3>2. ~ RanBy(runs', boot, last)
      <4>1. SUFFICES ASSUME RanBy(runs', boot, last) PROVE FALSE
        OBVIOUS
      <4>2. last.key \in CommandIds /\ runs[last.key] # << >>
        BY <3>1, <4>1 DEF RanBy
      <4>3. \E i \in DOMAIN log : log[i].key = last.key
        BY <4>2 DEF LogInv, RunsLogged, IsFirstOf
      <4> QED  BY <4>3, <3>1
    <3>3. Len(log') \in 1 .. Len(log') /\ Len(log') - 1 = Rest(p)
      BY <3>1, <1>1
    <3>4. B2[Len(log')] = IF RanBy(runs', boot, last)
                          THEN After(submitted'[last.key], B2[Len(log') - 1])
                          ELSE B2[Len(log') - 1]
      BY <3>3, <1>1, BooksFollow
    <3> HIDE DEF last, B2
    <3> QED  BY <3>2, <3>3, <3>4
  <2> QED  BY <2>1, <2>2
<1>4. book' = Books(submitted', runs', boot', log')[Len(log')]
  BY <1>2, <1>3, ReplayIsBooks DEF BookIsReplay
<1>5. book' = Replay(boot, log)'
  BY <1>4, ReplayIsBooks
<1> QED  BY <1>5 DEF BookIsReplay

-------------------------------------------------------------------------------
(* The invariant when no command reaches the book.                         *)

LEMMA MatchedTradesKept ==
    ASSUME LogInv, Types', NEW p, Past(p), MatchedTrades, \A k \in CommandIds : runs'[k] = runs[k]
    PROVE  MatchedTrades'
<1>1. ASSUME NEW k \in CommandIds
      PROVE  Matched(k)' \in Seq(Trade)
  <2>1. CASE runs[k] = << >>
    <3>1. ~ AcceptedByBook(k)'
      BY <2>1 DEF AcceptedByBook
    <3>2. Matched(k)' = << >>
      BY <3>1 DEF Matched
    <3> HIDE DEF Matched
    <3> QED  BY <3>2
  <2>2. CASE runs[k] # << >>
    <3>1. Matched(k)' = Matched(k)
      BY <2>2, MatchedKept
    <3> QED  BY <3>1 DEF MatchedTrades
  <2> QED  BY <2>1, <2>2
<1> QED  BY <1>1 DEF MatchedTrades

LEMMA InvKept ==
    ASSUME IInv, Types', NEW p, Past(p), runs' = runs,
           \/ Len(log') = Rest(p)
           \/ IsFirstEvent(log'[Len(log')])
           \/ Follows(log'[Len(log')].key, log'[Len(log')].event)
    PROVE  /\ LogInv' /\ TradesFollowMatching' /\ MatchedTrades'
           /\ book' = book /\ boot' = boot => SoundBook(book') /\ BookIsReplay'
<1>1. LogInv /\ TradesFollowMatching /\ MatchedTrades /\ BookIsReplay /\ SoundBook(book)
  BY DEF IInv
<1>2. \A k \in CommandIds : runs'[k] = runs[k]
  OBVIOUS
<1>3. LogInv'
  BY <1>1, LogInvKept
<1>4. TradesFollowMatching'
  BY <1>1, TradesKept
<1>5. MatchedTrades'
  BY <1>1, <1>2, MatchedTradesKept
<1>6. ASSUME book' = book, boot' = boot
      PROVE  SoundBook(book') /\ BookIsReplay'
  BY <1>1, <1>2, <1>6, ReplayKept
<1> QED  BY <1>3, <1>4, <1>5, <1>6

(* A step that leaves boot and what was sent or ran keeps their types.     *)
LEMMA TypesKept ==
    ASSUME Types, log' \in Seq(Entries), submitted' = submitted, boot' = boot, runs' = runs
    PROVE  Types' /\ SentKept /\ \A p : RunsKept(p)
  BY DEF Types, RunRecords, SentKept, RunsKept

LEMMA CommandKinds ==
    ASSUME NEW command \in Commands
    PROVE  /\ command # None
           /\ \/ command.type = "PlaceOrder" /\ command.order \in Submitted
              \/ command.type = "CancelOrder" /\ command.order_id \in OrderIds
  BY CommandHandlerAssumption DEF PlaceOrder, CancelOrder

(* A call begins.                                                          *)
LEMMA CallSound ==
    ASSUME IInv, NEW k \in CommandIds, NEW command \in Commands, Call(k, command)
    PROVE  IInv'
<1>1. command # None
  BY CommandKinds
<1>2. LogInv /\ Types /\ Len(log) \in Nat
  BY DEF IInv, LogInv, Types
<1>3. Types'
  BY <1>2 DEF Types, Call, RunRecords
<1>4. SentKept /\ \A p : RunsKept(p)
  <2>1. \A c \in CommandIds : submitted[c] # None => submitted'[c] = submitted[c]
    BY <1>2 DEF Types, Call
  <2> QED  BY <2>1 DEF SentKept, RunsKept, Call
<1>5. Past(Len(log) + 1) /\ Len(log') = Rest(Len(log) + 1)
  BY <1>2, <1>4, LogUntouched, NothingGoes DEF Past, Call
<1>6. /\ LogInv' /\ TradesFollowMatching' /\ MatchedTrades'
      /\ SoundBook(book') /\ BookIsReplay'
  BY <1>3, <1>5, InvKept DEF Call
<1>7. ActiveSound'
  <2>1. active' = [command_id |-> k, stage |-> "append", part |-> 0,
                   trades |-> << >>, remaining |-> 0, records |-> << >>]
    BY DEF Call
  <2>2. active' \in Calls /\ active'.part \in 0 .. Len(active'.trades)
    BY <2>1 DEF Calls
  <2>3. submitted'[active'.command_id] # None
    BY <2>1, <1>1, <1>2 DEF Types, Call
  <2> QED  BY <2>1, <2>2, <2>3 DEF ActiveSound
<1>8. ReplySound'
  BY DEF ReplySound, Call, IsOk
<1> QED  BY <1>6, <1>7, <1>8 DEF IInv

-------------------------------------------------------------------------------
(* The loop over the trades.                                               *)

LEMMA GoesOnSound ==
    ASSUME NEW k \in CommandIds, NEW part \in Nat, NEW trades \in Seq(Trade), part <= Len(trades),
           NEW remaining \in Nat, NEW records \in Seq(LoggedEvents), Len(records) = part,
           active # None, active \in Calls, active.command_id = k,
           submitted'[k] # None, Held(k, trades, remaining, records)',
           reply' = reply => ReplySound',
           PersistNext(part, trades, remaining, records)
    PROVE  ActiveSound' /\ ReplySound'
<1>1. CASE GoesOn(part, trades)
  <2>1. /\ active' = [active EXCEPT !.stage = "append", !.part = part + 1, !.trades = trades,
                                    !.remaining = remaining, !.records = records]
        /\ reply' = reply
    BY <1>1 DEF PersistNext
  <2>2. /\ active' = [command_id |-> k, stage |-> "append", part |-> part + 1, trades |-> trades,
                      remaining |-> remaining, records |-> records]
    BY <2>1 DEF Calls
  <2>3. active' \in Calls
    BY <2>2 DEF Calls
  <2>4. active'.part \in 0 .. Len(active'.trades)
    <3>1. part + 1 \in 0 .. Len(trades)
      BY <1>1 DEF GoesOn
    <3> QED  BY <3>1, <2>2
  <2>5. Persisting'
    <3>1. Len(records) = (part + 1) - 1
      OBVIOUS
    <3>2. /\ active'.command_id = k /\ active'.trades = trades /\ active'.remaining = remaining
          /\ active'.records = records /\ active'.part = part + 1
      BY <2>2
    <3> QED  BY <3>1, <3>2 DEF Held, Persisting
  <2> QED  BY <2>1, <2>2, <2>3, <2>4, <2>5 DEF ActiveSound
<1>2. CASE ~ GoesOn(part, trades)
  <2>1. reply' = OrderPlaced(k, records, remaining, TRUE) /\ active' = None
    BY <1>2 DEF PersistNext, Answer
  <2>2. Len(records) = Len(trades)
    BY <1>2 DEF GoesOn
  <2>3. /\ reply'.command_id = k /\ reply'.trades = records
        /\ reply'.remaining_quantity = remaining
    BY <2>1 DEF OrderPlaced
  <2>4. ReplySound'
    BY <2>2, <2>3 DEF ReplySound, Held
  <2> QED  BY <2>1, <2>4 DEF ActiveSound
<1> QED  BY <1>1, <1>2

(* The record of a trade is pushed.                                        *)
LEMMA TradeAnsweredSound ==
    ASSUME IInv, Types', NEW p, Past(p), submitted' = submitted, runs' = runs,
           active # None, active.part > 0,
           NEW k \in CommandIds, k = active.command_id, NEW n, n = active.part,
           NEW record \in LoggedEvents, Told(k, n, record)',
           TradeAnswered(record)
    PROVE  ActiveSound' /\ ReplySound'
<1>1. /\ LogInv /\ active \in Calls /\ submitted[k] # None
      /\ active.part \in 0 .. Len(active.trades) /\ Persisting
  BY DEF IInv, ActiveSound
<1>2. PICK trades \in Seq(Trade), remaining \in Nat, records \in Seq(LoggedEvents) :
         trades = active.trades /\ remaining = active.remaining /\ records = active.records
  BY <1>1 DEF Calls
<1>3. n \in Nat /\ n <= Len(trades) /\ Len(records) = n - 1
  BY <1>1, <1>2 DEF Persisting, Calls
<1>4. Held(k, trades, remaining, records)
  BY <1>1, <1>2 DEF Persisting, Held
<1>5. Held(k, trades, remaining, records)'
  BY <1>1, <1>4, HeldKept
<1> DEFINE told == Append(records, record)
<1>6. /\ told \in Seq(LoggedEvents) /\ Len(told) = n
      /\ \A i \in 1 .. (n - 1) : told[i] = records[i]
      /\ told[n] = record
  BY <1>3, AppendProperties
<1>7. PersistNext(n, trades, remaining, told)
  BY <1>2 DEF TradeAnswered
<1> HIDE DEF told
<1>8. Held(k, trades, remaining, told)'
  <2>1. ASSUME NEW i \in 1 .. n
        PROVE  Told(k, i, told[i])'
    <3>1. CASE i = n
      BY <3>1, <1>6
    <3>2. CASE i # n
      <4>1. i \in 1 .. (n - 1) /\ i \in 1 .. Len(records)
        BY <3>2, <1>3
      <4>2. Told(k, i, records[i])'
        BY <4>1, <1>5 DEF Held
      <4>3. told[i] = records[i]
        BY <4>1, <1>6
      <4> QED  BY <4>2, <4>3
    <3> QED  BY <3>1, <3>2
  <2> QED  BY <2>1, <1>5, <1>6 DEF Held
<1>9. reply' = reply => ReplySound'
  BY <1>1, ReplyKept DEF IInv
<1> QED  BY <1>1, <1>3, <1>6, <1>7, <1>8, <1>9, GoesOnSound

(* The key and the event of the running call.                              *)
LEMMA KeyAndEvent ==
    ASSUME IInv, active # None
    PROVE  /\ active.command_id \in CommandIds
           /\ TheKey \in CommandIds \cup TradeKeys
           /\ TheEvent \in LoggedEvents
           /\ active.part = 0 => /\ TheKey = active.command_id
                                 /\ TheEvent = FirstEvent(active.command_id)
                                 /\ TheEvent.type # "TradeExecuted"
           /\ active.part > 0 => /\ TheKey = <<active.command_id, active.part>>
                                 /\ TheEvent = TradeExecuted(Matched(active.command_id)[active.part])
                                 /\ TheEvent.type = "TradeExecuted"
                                 /\ active.part \in DOMAIN Matched(active.command_id)
                                 /\ Follows(TheKey, TheEvent)
<1> DEFINE k == active.command_id
<1>1. /\ active \in Calls /\ k \in CommandIds /\ submitted[k] # None
      /\ active.part \in Nat /\ active.part <= Len(active.trades)
      /\ submitted[k] \in Commands
  BY DEF IInv, ActiveSound, Calls, LogInv, Types
<1> HIDE DEF k
<1>2. CASE active.part = 0
  <2>1. TheKey = k /\ TheEvent = FirstEvent(k)
    BY <1>2 DEF TheKey, TheEvent, Key, k
  <2>2. \/ submitted[k].type = "PlaceOrder" /\ submitted[k].order \in Submitted
        \/ submitted[k].type = "CancelOrder" /\ submitted[k].order_id \in OrderIds
    BY <1>1, CommandKinds
  <2>3. FirstEvent(k) \in LoggedEvents /\ FirstEvent(k).type # "TradeExecuted"
    <3>1. CASE submitted[k].type = "PlaceOrder" /\ submitted[k].order \in Submitted
      <4>1. FirstEvent(k) = OrderAccepted(submitted[k].order.order_id) /\ submitted[k].order.order_id \in OrderIds
        BY <3>1 DEF FirstEvent, Submitted
      <4> QED  BY <4>1 DEF OrderAccepted, LoggedEvents
    <3>2. CASE submitted[k].type = "CancelOrder" /\ submitted[k].order_id \in OrderIds
      <4>1. FirstEvent(k) = OrderCanceledEvent(submitted[k].order_id)
        BY <3>2 DEF FirstEvent
      <4> QED  BY <4>1, <3>2 DEF OrderCanceledEvent, LoggedEvents
    <3> QED  BY <2>2, <3>1, <3>2
  <2> QED  BY <2>1, <2>3, <1>1, <1>2 DEF k
<1>3. CASE active.part # 0
  <2>1. active.part > 0 /\ active.part \in Nat \ {0}
    BY <1>1, <1>3
  <2>2. Persisting
    BY <2>1 DEF IInv, ActiveSound
  <2>3. active.trades = Matched(k) /\ active.trades \in Seq(Trade) /\ active.part \in DOMAIN active.trades
    BY <1>1, <2>1, <2>2 DEF Persisting, Calls, k
  <2>4. TheKey = <<k, active.part>> /\ TheKey = Key(k, active.part)
        /\ TheEvent = TradeExecuted(active.trades[active.part])
    BY <1>3 DEF TheKey, TheEvent, ItsTrade, Key, k
  <2>5. TheEvent \in LoggedEvents /\ TheEvent.type = "TradeExecuted"
    <3>1. active.trades[active.part] \in Trade
      BY <2>3
    <3> QED  BY <3>1, <2>4 DEF TradeExecuted, LoggedEvents
  <2>6. TheKey \in CommandIds \cup TradeKeys
    BY <1>1, <2>1, <2>4 DEF TradeKeys
  <2>7. \A m \in 1 .. (active.part - 1) : Logged(Key(k, m))
    BY <2>2 DEF Persisting, Told, k
  <2>8. Follows(TheKey, TheEvent)
    <3>1. active.part \in DOMAIN Matched(k) /\ TheEvent = TradeExecuted(Matched(k)[active.part])
      BY <2>3, <2>4
    <3> HIDE DEF Matched
    <3> QED  BY <3>1, <2>4, <2>7, <1>1 DEF Follows
  <2> QED  BY <1>1, <1>3, <2>1, <2>3, <2>4, <2>5, <2>6, <2>8 DEF k
<1> QED  BY <1>1, <1>2, <1>3

(* Before the COMMIT: the entry is appended, or is there.                  *)
LEMMA AppendEventSound ==
    ASSUME IInv, AppendEvent
    PROVE  IInv'
<1>1. /\ LogInv /\ Types /\ Len(log) \in Nat /\ DOMAIN log = 1 .. Len(log)
      /\ active # None /\ active.stage = "append" /\ active \in Calls
      /\ submitted' = submitted /\ boot' = boot
  BY DEF IInv, LogInv, Types, ActiveSound, AppendEvent
<1>2. PICK k \in CommandIds, n \in Nat : k = active.command_id /\ n = active.part
  BY <1>1 DEF Calls
<1>3. CASE ~ Logged(TheKey)
  <2> DEFINE entry == [key |-> TheKey, event |-> TheEvent, open |-> TRUE]
  <2>1. /\ log' = Append(log, entry)
        /\ active' = [active EXCEPT !.stage = "commit"]
        /\ book' = book /\ reply' = reply /\ runs' = runs
    BY <1>3 DEF AppendEvent
  <2>2. entry \in Entries /\ entry.key = TheKey /\ entry.event = TheEvent
    BY <1>1, KeyAndEvent DEF Entries
  <2>3. \A i \in DOMAIN log : log[i].key # TheKey
    BY <1>3 DEF AppendEvent, OpenAt, Logged, ClosedAt
  <2>4. IsFirstEvent(entry) => TheKey = k /\ submitted'[k] # None
    <3>1. entry.event.type # "TradeExecuted" => active.part = 0
      BY <1>1, <1>2, <2>2, KeyAndEvent
    <3> QED  BY <3>1, <1>1, <1>2, KeyAndEvent DEF IsFirstEvent, IInv, ActiveSound
  <2> HIDE DEF entry
  <2>5. /\ log' \in Seq(Entries) /\ Len(log') = Len(log) + 1 /\ log'[Len(log')] = entry
        /\ EntriesKept(Len(log) + 1) /\ EntryAdded(Len(log) + 1)
    BY <1>1, <2>1, <2>2, <2>3, <2>4, LogAppended
  <2>6. Types' /\ Past(Len(log) + 1)
    BY <1>1, <2>1, <2>5, TypesKept DEF Past
  <2>7. IsFirstEvent(log'[Len(log')]) \/ Follows(log'[Len(log')].key, log'[Len(log')].event)
    <3>1. CASE n = 0
      BY <3>1, <1>1, <1>2, <2>2, <2>5, KeyAndEvent DEF IsFirstEvent
    <3>2. CASE n # 0
      <4>1. Follows(TheKey, TheEvent)
        BY <3>2, <1>1, <1>2, KeyAndEvent
      <4> QED  BY <4>1, <2>2, <2>5
    <3> QED  BY <3>1, <3>2
  <2>8. /\ LogInv' /\ TradesFollowMatching' /\ MatchedTrades'
        /\ SoundBook(book') /\ BookIsReplay'
    BY <1>1, <2>1, <2>6, <2>7, InvKept
  <2>9. ReplySound'
    BY <1>1, <2>1, <2>6, ReplyKept DEF IInv
  <2>10. ActiveSound'
    <3>1. /\ active' \in Calls /\ active'.command_id = k /\ active'.part = n
          /\ active'.trades = active.trades /\ active'.remaining = active.remaining
          /\ active'.records = active.records /\ active'.stage = "commit"
      BY <1>1, <1>2, <2>1 DEF Calls
    <3>2. active'.part \in 0 .. Len(active'.trades) /\ submitted'[active'.command_id] # None
      BY <3>1, <1>1, <1>2 DEF IInv, ActiveSound
    <3>3. TheKey' = TheKey /\ TheEvent' = TheEvent
      BY <3>1, <1>1, <1>2 DEF TheKey, TheEvent, Key, FirstEvent, ItsTrade
    <3>4. Committing'
      <4>1. log' # << >>
        BY <2>5, <1>1
      <4> QED  BY <4>1, <3>3, <2>5 DEF Committing, entry
    <3>5. ASSUME n > 0
          PROVE  Persisting'
      <4>1. PICK trades, remaining, records :
               trades = active.trades /\ remaining = active.remaining /\ records = active.records
        OBVIOUS
      <4>2. Held(k, trades, remaining, records) /\ Len(records) = n - 1
        BY <3>5, <4>1, <1>1, <1>2 DEF IInv, ActiveSound, Persisting, Held
      <4>3. Held(k, trades, remaining, records)'
        BY <4>2, <1>1, <2>6, HeldKept
      <4> QED  BY <4>1, <4>2, <4>3, <3>1 DEF Held, Persisting
    <3> QED  BY <3>1, <3>2, <3>4, <3>5 DEF ActiveSound
  <2> QED  BY <2>8, <2>9, <2>10 DEF IInv
<1>4. CASE Logged(TheKey)
  <2>1. log' = log
    BY <1>4 DEF AppendEvent
  <2>2. runs' = runs /\ book' = book
    BY <1>4 DEF AppendEvent, Retried, TradeAnswered
  <2>3. Types' /\ Past(Len(log) + 1) /\ Len(log') = Rest(Len(log) + 1)
    <3>1. log' \in Seq(Entries)
      BY <2>1, <1>1 DEF Types
    <3> QED  BY <3>1, <1>1, <2>1, <2>2, TypesKept, LogUntouched, NothingGoes DEF Past
  <2>4. /\ LogInv' /\ TradesFollowMatching' /\ MatchedTrades'
        /\ SoundBook(book') /\ BookIsReplay'
    BY <1>1, <2>2, <2>3, InvKept
  <2>5. ActiveSound' /\ ReplySound'
    <3>1. CASE n = 0
      <4>1. active' = None /\ reply' = RetryReply(k)
        BY <3>1, <1>2, <1>4 DEF AppendEvent, Retried, Answer
      <4>2. reply'.result = "OrderPlaced" => ~ reply'.inserted
        BY <4>1 DEF RetryReply, OrderPlaced, OrderCanceled
      <4> QED  BY <4>1, <4>2 DEF ActiveSound, ReplySound
    <3>2. CASE n # 0
      <4>1. TradeAnswered(RecordAt(TheKey))
        BY <3>2, <1>2, <1>4 DEF AppendEvent
      <4>2. PICK i \in DOMAIN log : log[i].key = TheKey /\ ~ log[i].open
        BY <1>4 DEF Logged, ClosedAt
      <4>3. PICK record : record = log[i].event
        OBVIOUS
      <4>4. RecordAt(TheKey) = record /\ record \in LoggedEvents
        <5>1. log[i] \in Entries
          BY <1>1 DEF Types
        <5>2. record \in LoggedEvents
          BY <5>1, <4>3 DEF Entries
        <5>3. RecordAt(log[i].key) = log[i].event
          BY <1>1, <4>2, RecordIs DEF LogInv
        <5> QED  BY <5>2, <5>3, <4>2, <4>3
      <4>5. n > 0 /\ TheKey = <<k, n>> /\ Key(k, n) = <<k, n>>
        BY <3>2, <1>1, <1>2, KeyAndEvent DEF Key
      <4>6. Key(k, n) \in CommandIds \/ record = TradeExecuted(Matched(k)[n])
        <5>1. SUFFICES ASSUME Key(k, n) \notin CommandIds PROVE record = TradeExecuted(Matched(k)[n])
          OBVIOUS
        <5>2. ~ IsFirstEvent(log[i])
          BY <5>1, <4>2, <4>5, <1>1 DEF LogInv, FirstEventsSent
        <5>3. Follows(log[i].key, log[i].event)
          BY <5>2 DEF IInv, TradesFollowMatching, Follows
        <5>4. PICK c \in CommandIds : \E m \in DOMAIN Matched(c) :
                 log[i].key = Key(c, m) /\ record = TradeExecuted(Matched(c)[m])
          BY <5>3, <4>3 DEF Follows
        <5>5. PICK m \in DOMAIN Matched(c) :
                 log[i].key = Key(c, m) /\ record = TradeExecuted(Matched(c)[m])
          BY <5>4
        <5>6. m # 0
          <6>1. Matched(c) \in Seq(Trade)
            BY DEF IInv, MatchedTrades
          <6> HIDE DEF Matched
          <6> QED  BY <6>1
        <5>7. <<c, m>> = <<k, n>>
          BY <5>5, <5>6, <4>2, <4>5 DEF Key
        <5>8. c = k /\ m = n
          BY <5>7
        <5> QED  BY <5>5, <5>8
      <4>7. Told(k, n, record)
        BY <4>4, <4>5, <4>6, <1>4 DEF Told
      <4>8. submitted[k] # None /\ runs[k] # << >>
        <5>1. Persisting
          BY <4>5, <1>1, <1>2 DEF IInv, ActiveSound
        <5> QED  BY <5>1, <1>1, <1>2, AcceptedRan DEF Persisting, LogInv, RunsLogged
      <4>9. Told(k, n, record)'
        BY <4>7, <4>8, <1>1, <2>3, ToldKept
      <4> QED  BY <4>1, <4>4, <4>5, <4>9, <1>1, <1>2, <2>2, <2>3, TradeAnsweredSound
    <3> QED  BY <3>1, <3>2
  <2> QED  BY <2>4, <2>5 DEF IInv
<1> QED  BY <1>3, <1>4

-------------------------------------------------------------------------------
(* Failures.                                                               *)

(* A call that is given up takes back at most the open entry it appended.  *)
LEMMA GivenUp ==
    ASSUME IInv, NEW r, ~ IsOk(r), GiveUp(r), boot' = boot \/ boot' = boot + 1
    PROVE  /\ LogInv' /\ TradesFollowMatching' /\ MatchedTrades' /\ ActiveSound' /\ ReplySound'
           /\ book' = book /\ boot' = boot => SoundBook(book') /\ BookIsReplay'
<1>1. LogInv /\ Types /\ Len(log) \in Nat /\ boot \in Nat
  BY DEF IInv, LogInv, Types
<1>2. submitted' = submitted /\ runs' = runs /\ active' = None /\ reply' = r
  BY DEF GiveUp, Answer
<1>3. log' \in Seq(Entries) /\ \E p : EntriesKept(p) /\ EntryAdded(p) /\ Len(log') = Rest(p)
  <2>1. CASE log' = log
    <3>1. log' \in Seq(Entries)
      BY <2>1, <1>1 DEF Types
    <3> QED  BY <3>1, <2>1, <1>1, LogUntouched, NothingGoes
  <2>2. CASE \E i \in OpenAt(TheKey) : log' = RemoveAt(log, i)
    <3>1. PICK i \in DOMAIN log : log[i].open /\ log' = RemoveAt(log, i)
      BY <2>2 DEF OpenAt
    <3> QED  BY <3>1, <1>1, LogRemoved
  <2> QED  BY <2>1, <2>2 DEF GiveUp
<1>4. PICK p : EntriesKept(p) /\ EntryAdded(p) /\ Len(log') = Rest(p)
  BY <1>3
<1>5. Types'
  <2>1. runs \in [CommandIds -> Seq(RunRecords)] /\ boot' \in Nat
    BY <1>1 DEF Types
  <2>2. RunRecords \subseteq RunRecords'
    BY <1>1 DEF RunRecords
  <2>3. \A k \in CommandIds : runs[k] \in Seq(RunRecords')
    BY <2>1, <2>2
  <2>4. runs' \in [CommandIds -> Seq(RunRecords')]
    BY <2>1, <2>3, <1>2
  <2> QED  BY <2>1, <2>4, <1>1, <1>2, <1>3 DEF Types
<1>6. Past(p)
  BY <1>2, <1>4 DEF Past, SentKept, RunsKept
<1>7. /\ LogInv' /\ TradesFollowMatching' /\ MatchedTrades'
      /\ book' = book /\ boot' = boot => SoundBook(book') /\ BookIsReplay'
  BY <1>2, <1>4, <1>5, <1>6, InvKept
<1>8. ActiveSound' /\ ReplySound'
  BY <1>2 DEF ActiveSound, ReplySound, IsOk
<1> QED  BY <1>7, <1>8

LEMMA GivenUpReplies ==
    ~ IsOk(None) /\ \A k : ~ IsOk(Refused(k, "EventLog"))
  BY DEF IsOk, Refused

LEMMA DropSound ==
    ASSUME IInv, Drop \/ Fail
    PROVE  IInv'
<1>1. book' = book /\ boot' = boot
  BY DEF Drop, Fail
<1>2. \E r : ~ IsOk(r) /\ GiveUp(r)
  <2>1. CASE Drop
    BY <2>1, GivenUpReplies DEF Drop
  <2>2. CASE Fail
    <3>1. PICK k : k = active.command_id
      OBVIOUS
    <3>2. GiveUp(Refused(k, "EventLog"))
      BY <2>2, <3>1 DEF Fail
    <3> QED  BY <3>2, GivenUpReplies
  <2> QED  BY <2>1, <2>2
<1> QED  BY <1>1, <1>2, GivenUp DEF IInv

(* The process starts again: no command has run in its new boot.           *)
LEMMA StartAgainSound ==
    ASSUME IInv, StartAgain
    PROVE  IInv'
<1>1. book' = EmptyBook /\ boot' = boot + 1 /\ GiveUp(None)
  BY DEF StartAgain
<1>2. LogInv' /\ TradesFollowMatching' /\ MatchedTrades' /\ ActiveSound' /\ ReplySound'
  BY <1>1, GivenUpReplies, GivenUp
<1>3. runs' = runs /\ runs \in [CommandIds -> Seq(RunRecords)] /\ boot \in Nat
  BY <1>1 DEF GiveUp, IInv, LogInv, Types
<1>4. Len(log') \in Nat /\ DOMAIN log' = 1 .. Len(log')
  BY <1>2 DEF LogInv, Types
<1>5. ASSUME NEW i \in 1 .. Len(log')
      PROVE  ~ RanBy(runs', boot', log'[i])
  <2>1. SUFFICES ASSUME RanBy(runs', boot', log'[i]) PROVE FALSE
    OBVIOUS
  <2> DEFINE k == log'[i].key
  <2>2. IsFirstEvent(log'[i]) /\ \E n \in DOMAIN runs[k] : runs[k][n].boot = boot + 1
    BY <2>1, <1>1, <1>3 DEF RanBy
  <2>3. k \in CommandIds
    BY <2>2, <1>2, <1>4 DEF LogInv, FirstEventsSent, IsFirstEvent
  <2> HIDE DEF k
  <2>4. PICK n \in DOMAIN runs[k] : runs[k][n].boot = boot + 1
    BY <2>2
  <2>5. runs[k][n] \in RunRecords
    BY <1>3, <2>3, <2>4
  <2> QED  BY <2>4, <2>5, <1>3 DEF RunRecords
<1>6. Books(submitted', runs', boot', log')[Len(log')] = EmptyBook
  BY <1>4, <1>5, NobodyRan
<1>7. BookIsReplay'
  <2>1. book' = Replay(boot, log)'
    BY <1>1, <1>6, ReplayIsBooks
  <2> QED  BY <2>1 DEF BookIsReplay
<1> QED  BY <1>1, <1>2, <1>7, EmptyBookSound DEF IInv

(* A call that waits goes on persisting what was matched.                  *)
LEMMA PersistingKept ==
    ASSUME IInv, Types', NEW p, Past(p), active' = active, active # None, active.part > 0
    PROVE  Persisting'
<1>1. LogInv /\ active.command_id \in CommandIds
  BY DEF IInv, ActiveSound, Calls
<1>0. PICK k \in CommandIds : k = active.command_id
  BY <1>1
<1>2. PICK n, trades, remaining, records :
         /\ k = active.command_id /\ n = active.part /\ trades = active.trades
         /\ remaining = active.remaining /\ records = active.records
  BY <1>0
<1>3. Held(k, trades, remaining, records) /\ Len(records) = n - 1
  BY <1>2 DEF IInv, ActiveSound, Persisting, Held
<1>4. Held(k, trades, remaining, records)'
  BY <1>1, <1>3, HeldKept
<1> QED  BY <1>2, <1>3, <1>4 DEF Held, Persisting

(* The database ends a transaction nobody waits for.                       *)
LEMMA OrphanEndsSound ==
    ASSUME IInv, OrphanEnds
    PROVE  IInv'
<1>1. /\ LogInv /\ Types /\ Len(log) \in Nat /\ DOMAIN log = 1 .. Len(log)
      /\ book' = book /\ submitted' = submitted /\ active' = active /\ reply' = reply
      /\ runs' = runs /\ boot' = boot
  BY DEF IInv, LogInv, Types, OrphanEnds
<1>2. PICK i \in DOMAIN log : Orphan(i) /\ log' \in {Close(i), RemoveAt(log, i)}
  BY DEF OrphanEnds
<1>3. log[i].open /\ (active # None /\ active.stage = "commit" => log[i].key # TheKey)
  BY <1>2 DEF Orphan
<1>4. log' = Close(i) \/ log' = RemoveAt(log, i)
  BY <1>2
<1>5. /\ log' \in Seq(Entries)
      /\ \E p : EntriesKept(p) /\ EntryAdded(p) /\ Len(log') = Rest(p)
      /\ i # Len(log) => log' # << >> /\ log'[Len(log')] = log[Len(log)]
  <2>1. CASE log' = Close(i)
    <3>1. /\ log' \in Seq(Entries) /\ Len(log') = Len(log)
          /\ \A j \in DOMAIN log : j # i => log'[j] = log[j]
          /\ EntriesKept(Len(log) + 1) /\ EntryAdded(Len(log) + 1)
      BY <2>1, <1>1, LogClosed
    <3>2. Len(log) \in DOMAIN log /\ Len(log) # 0
      BY <1>1
    <3>3. log' # << >> /\ (i # Len(log) => log'[Len(log')] = log[Len(log)])
      BY <3>1, <3>2
    <3> QED  BY <3>1, <3>3, <1>1, NothingGoes
  <2>2. CASE log' = RemoveAt(log, i)
    <3>1. /\ log' \in Seq(Entries) /\ Len(log') = Len(log) - 1
          /\ \A j \in 1 .. Len(log) - 1 : log'[j] = log[From(i, j)]
          /\ EntriesKept(i) /\ EntryAdded(i) /\ Len(log') = Rest(i)
      BY <2>2, <1>1, <1>3, LogRemoved
    <3>2. ASSUME i # Len(log)
          PROVE  log' # << >> /\ log'[Len(log')] = log[Len(log)]
      <4>1. i \in 1 .. Len(log) /\ i # Len(log) /\ Len(log) \in Nat
        BY <1>1, <3>2
      <4>2. Len(log) - 1 \in 1 .. Len(log) - 1 /\ From(i, Len(log) - 1) = Len(log)
        BY ONLY <4>1 DEF From
      <4>3. log'[Len(log')] = log[Len(log)]
        BY <4>2, <3>1
      <4>4. log' # << >>
        BY <4>2, <3>1
      <4> QED  BY <4>3, <4>4
    <3> QED  BY <3>1, <3>2
  <2> QED  BY <2>1, <2>2, <1>4
<1>6. PICK p : EntriesKept(p) /\ EntryAdded(p) /\ Len(log') = Rest(p)
  BY <1>5
<1>7. Types' /\ Past(p)
  BY <1>1, <1>5, <1>6, TypesKept DEF Past
<1>8. /\ LogInv' /\ TradesFollowMatching' /\ MatchedTrades'
      /\ SoundBook(book') /\ BookIsReplay'
  BY <1>1, <1>6, <1>7, InvKept
<1>9. ReplySound'
  BY <1>1, <1>7, ReplyKept DEF IInv
<1>10. ActiveSound'
  <2>1. SUFFICES ASSUME active # None PROVE ActiveSound'
    BY <1>1 DEF ActiveSound
  <2>4. TheKey' = TheKey /\ TheEvent' = TheEvent
    BY <1>1 DEF TheKey, TheEvent, Key, FirstEvent, ItsTrade
  <2>5. ASSUME active.stage = "commit"
        PROVE  Committing'
    <3>1. Committing
      BY <2>1, <2>5 DEF IInv, ActiveSound
    <3>2. log[Len(log)].key = TheKey
      BY <3>1 DEF Committing
    <3>3. i # Len(log)
      BY <3>2, <2>1, <2>5, <1>3
    <3> QED  BY <3>1, <3>3, <2>4, <1>5 DEF Committing
  <2>6. ASSUME active.part > 0
        PROVE  Persisting'
    BY <2>1, <2>6, <1>1, <1>7, PersistingKept
  <2> QED  BY <2>1, <2>5, <2>6, <1>1 DEF IInv, ActiveSound
<1> QED  BY <1>8, <1>9, <1>10 DEF IInv

(* restore_from_log applies cancels to an empty book.                      *)
LEMMA RestoredIsEmpty ==
    ASSUME Len(log) \in Nat
    PROVE  Restored = EmptyBook
<1> DEFINE N == Len(log)
           Cancels(n) == ~ log[n].open /\ log[n].event.type = "OrderCanceled"
           Step(n, b) == IF Cancels(n) THEN BookAfterCancel(log[n].event.order_id, b) ELSE b
           Rule(f) == f = [n \in 0 .. N |-> IF n = 0 THEN EmptyBook ELSE Step(n, f[n - 1])]
           R == CHOOSE f : Rule(f)
<1>1. Restored = R[N]
  BY DEF Restored
<1>2. \A n : Step(n, EmptyBook) = EmptyBook
  BY EmptyBookSound
<1> HIDE DEF Step
<1>3. \E f : Rule(f)
  <2> DEFINE z == [n \in 0 .. N |-> EmptyBook]
  <2>1. \A n \in 0 .. N : n # 0 => z[n - 1] = EmptyBook
    OBVIOUS
  <2>2. z = [n \in 0 .. N |-> IF n = 0 THEN EmptyBook ELSE Step(n, z[n - 1])]
    <3> HIDE DEF z
    <3>1. \A n \in 0 .. N : (IF n = 0 THEN EmptyBook ELSE Step(n, z[n - 1])) = EmptyBook
      BY <2>1, <1>2
    <3> QED  BY <3>1 DEF z
  <2>3. Rule(z)
    BY <2>2
  <2> HIDE DEF z, Rule
  <2> QED  BY <2>3
<1>4. Rule(R)
  <2> HIDE DEF Rule
  <2> QED  BY <1>3
<1> HIDE DEF R
<1>5. R[0] = EmptyBook /\ \A n \in 1 .. N : R[n] = Step(n, R[n - 1])
  BY <1>4
<1> DEFINE T == {n \in Nat : n <= N => R[n] = EmptyBook}
<1>6. 0 \in T
  BY <1>5
<1>7. ASSUME NEW n \in T
      PROVE  n + 1 \in T
  <2>1. CASE n + 1 <= N
    <3>1. n + 1 \in 1 .. N /\ (n + 1) - 1 = n /\ R[n] = EmptyBook
      BY <2>1
    <3>2. R[n + 1] = Step(n + 1, R[n])
      BY <3>1, <1>5
    <3> QED  BY <3>1, <3>2, <1>2
  <2>2. CASE ~ (n + 1 <= N)
    BY <2>2
  <2> QED  BY <2>1, <2>2
<1>8. T \subseteq Nat
  OBVIOUS
<1>9. N \in T
  <2> HIDE DEF T
  <2> QED  BY <1>6, <1>7, <1>8, SetInduction
<1> QED  BY <1>1, <1>9

LEMMA RestoreSound ==
    ASSUME IInv, Restore
    PROVE  IInv'
<1>1. /\ LogInv /\ Types /\ Len(log) \in Nat /\ DOMAIN log = 1 .. Len(log)
      /\ active = None /\ log' = log /\ submitted' = submitted /\ active' = active
      /\ runs' = runs /\ boot' = boot
  BY DEF IInv, LogInv, Types, Restore
<1>2. book' = book
  <2>1. \A i \in 1 .. Len(log) : ~ RanBy(runs, boot, log[i])
    BY <1>1 DEF Restore, RanIn, RanBy, LogInv, FirstEventsSent
  <2>2. Replay(boot, log) = EmptyBook
    BY <2>1, <1>1, NobodyRan, ReplayIsBooks
  <2>3. Restored = EmptyBook
    BY <1>1, RestoredIsEmpty
  <2>4. book = EmptyBook
    BY <2>2 DEF IInv, BookIsReplay
  <2> QED  BY <2>3, <2>4 DEF Restore
<1>3. Types' /\ Past(Len(log) + 1) /\ Len(log') = Rest(Len(log) + 1)
  <2>1. log' \in Seq(Entries)
    BY <1>1 DEF Types
  <2> QED  BY <2>1, <1>1, TypesKept, LogUntouched, NothingGoes DEF Past
<1>4. /\ LogInv' /\ TradesFollowMatching' /\ MatchedTrades'
      /\ SoundBook(book') /\ BookIsReplay'
  BY <1>1, <1>2, <1>3, InvKept
<1>5. ActiveSound'
  BY <1>1 DEF ActiveSound
<1>6. ReplySound'
  BY DEF ReplySound, Restore, IsOk, RestoreOk, RestoreFailed
<1> QED  BY <1>4, <1>5, <1>6 DEF IInv

-------------------------------------------------------------------------------
(* The book.                                                               *)

LEMMA BookTypes ==
    ASSUME NEW k \in CommandIds, NEW b, SoundBook(b),
           submitted[k] \in Commands, submitted[k].type = "PlaceOrder"
    PROVE  /\ submitted[k].order \in LimitOrder
           /\ PlaceError(submitted[k].order, RestingIds(b)) \in Errors \cup {"None"}
<1>1. submitted[k].order \in Submitted
  BY CommandKinds
<1>2. submitted[k].order \in LimitOrder
  BY <1>1, OrdersAssumption DEF Submitted, LimitOrder
<1>3. PlaceError(submitted[k].order, RestingIds(b)) \in Errors \cup {"None"}
  BY DEF PlaceError, Errors
<1> QED  BY <1>2, <1>3

(* The trades of an order add up to what it has not left.                  *)
LEMMA QuantityAddsUp ==
    ASSUME NEW trades \in Seq(Trade)
    PROVE  \E sum : /\ sum[0] = 0
                    /\ \A n \in 1 .. Len(trades) : sum[n] = sum[n - 1] + trades[n].quantity
                    /\ Quantity(trades) = sum[Len(trades)]
<1> DEFINE N == Len(trades)
           v == [n \in DOMAIN trades |-> trades[n].quantity]
<1>1. N \in Nat /\ DOMAIN trades = 1 .. N /\ \A n \in 1 .. N : trades[n] \in Trade
  OBVIOUS
<1>2. \A n \in 1 .. N : trades[n].quantity \in Nat
  BY <1>1 DEF Trade
<1>3. v \in [1 .. N -> Nat] /\ \A n \in 1 .. N : v[n] = trades[n].quantity
  BY <1>1, <1>2
<1>4. Quantity(trades) = Total(v)
  BY DEF Quantity
<1> HIDE DEF v, N
<1>5. v \in Seq(Nat) /\ Len(v) = N
  BY <1>1, <1>3
<1>6. PICK sum : IsSum(sum, v) /\ Total(v) = sum[Len(v)]
  BY <1>5, TotalSums
<1>7. sum[0] = 0 /\ \A n \in 1 .. N : sum[n] = sum[n - 1] + v[n]
  BY <1>5, <1>6 DEF IsSum
<1>8. \A n \in 1 .. N : sum[n] = sum[n - 1] + trades[n].quantity
  BY <1>3, <1>7
<1> QED  BY <1>4, <1>5, <1>6, <1>7, <1>8 DEF N

LEMMA OutcomeAddsUp ==
    ASSUME NEW b, SoundBook(b), NEW order \in LimitOrder
    PROVE  LET outcome == PlaceOutcome(order, b)
           IN  /\ outcome.trades \in Seq(Trade)
               /\ outcome.remaining_quantity \in Nat
               /\ outcome.remaining_quantity = order.quantity - Quantity(outcome.trades)
               /\ Quantity(outcome.trades) \in 0 .. order.quantity
<1> DEFINE side   == Opposite(order.side)
           makers == b[side]
           trades == TradesWith(order, makers)
<1>1. side \in Sides /\ order.quantity \in Nat
  BY DEF LimitOrder, Sides, Opposite
<1>2. SoundQueue(Opposite(order.side), makers)
  BY <1>1 DEF SoundBook
<1>3. /\ PlaceOutcome(order, b).trades = trades
      /\ PlaceOutcome(order, b).remaining_quantity = Remaining(order, makers)
  BY DEF PlaceOutcome, Accepted
<1>4. trades \in Seq(Trade)
  BY <1>2, TradesSound
<1>5. Remaining(order, makers) \in 0 .. order.quantity
  BY <1>2, RemainingSound
<1> HIDE DEF makers
<1>6. PICK sum : /\ sum[0] = 0
                 /\ \A n \in 1 .. Len(trades) : sum[n] = sum[n - 1] + trades[n].quantity
                 /\ Quantity(trades) = sum[Len(trades)]
  BY <1>4, QuantityAddsUp
<1>7. Quantity(trades) = order.quantity - Remaining(order, makers)
  BY <1>2, <1>6, TradesAddUp
<1> HIDE DEF trades
<1>8. Remaining(order, makers) = order.quantity - Quantity(trades)
  BY <1>1, <1>5, <1>7
<1>9. Remaining(order, makers) \in Nat /\ Quantity(trades) \in 0 .. order.quantity
  BY <1>1, <1>5, <1>7
<1> QED  BY <1>3, <1>4, <1>8, <1>9

(* The first event of a command is committed, at the end of the log, and   *)
(* the command reaches the book: the replay takes the step that the book   *)
(* takes, and what the command matches is what the book answers it.        *)
LEMMA CommandRuns ==
    ASSUME IInv, NEW k \in CommandIds, submitted[k] # None,
           log # << >>, log[Len(log)] = [key |-> k, event |-> FirstEvent(k), open |-> TRUE],
           FirstEvent(k).type # "TradeExecuted",
           log' = Close(Len(log)), submitted' = submitted, boot' = boot,
           NEW error \in Errors \cup {"None"}, Ran(k, error)
    PROVE  /\ Types' /\ Past(Len(log) + 1)
           /\ LogInv' /\ TradesFollowMatching'
           /\ Replay(boot, log)' = After(submitted[k], book)
           /\ AcceptedByBook(k)' <=> error = "None"
           /\ Matched(k)' = IF error = "None" /\ submitted[k].type = "PlaceOrder"
                            THEN PlaceOutcome(submitted[k].order, book).trades ELSE << >>
           /\ \A c \in CommandIds : c # k => Matched(c)' \in Seq(Trade)
<1> DEFINE N == Len(log)
<1>1. /\ LogInv /\ Types /\ N \in Nat /\ DOMAIN log = 1 .. N
      /\ BookIsReplay /\ TradesFollowMatching /\ MatchedTrades
      /\ runs \in [CommandIds -> Seq(RunRecords)]
  BY DEF IInv, LogInv, Types
<1>2. N \in DOMAIN log /\ N \in 1 .. N /\ N # 0
  <2>1. log \in Seq(Entries)
    BY <1>1 DEF Types
  <2>2. N # 0
    BY <2>1
  <2> QED  BY <2>2, <1>1
<1>3. log[N].open /\ IsFirstEvent(log[N]) /\ log[N].key = k /\ IsFirstOf(k, N)
  BY DEF IsFirstEvent, IsFirstOf
<1>4. runs[k] = << >>
  BY <1>1, <1>2, <1>3, OpenHasNotRun
<1>5. /\ log' \in Seq(Entries) /\ Len(log') = N /\ DOMAIN log' = DOMAIN log
      /\ log'[N].key = log[N].key /\ log'[N].event = log[N].event /\ ~ log'[N].open
      /\ \A j \in DOMAIN log : j # N => log'[j] = log[j]
      /\ EntriesKept(N + 1) /\ EntryAdded(N + 1)
  BY <1>1, <1>2, LogClosed
<1> DEFINE record == [boot |-> boot, error |-> error]
<1>6. /\ runs'[k] = <<record>> /\ Len(runs'[k]) = 1
      /\ runs'[k][1] = record /\ DOMAIN runs'[k] = {1}
      /\ \A c \in CommandIds : c # k => runs'[c] = runs[c]
  <2>1. runs'[k] = Append(<< >>, record)
    BY <1>1, <1>4 DEF Ran
  <2>2. \A c \in CommandIds : c # k => runs'[c] = runs[c]
    BY <1>1 DEF Ran
  <2> HIDE DEF record
  <2>3. runs'[k] = <<record>>
    BY <2>1
  <2> QED  BY <2>2, <2>3
<1>7. Types'
  <2>1. record \in RunRecords
    BY <1>1 DEF RunRecords, Types
  <2>2. <<record>> \in Seq(RunRecords)
    BY <2>1
  <2>3. runs' \in [CommandIds -> Seq(RunRecords)]
    BY <2>2, <1>1, <1>6 DEF Ran
  <2>4. RunRecords' = RunRecords
    BY DEF RunRecords
  <2> QED  BY <2>3, <2>4, <1>1, <1>5 DEF Types
<1>8. Past(N + 1)
  <2>1. RunNow(N + 1, k)
    BY <1>2, <1>3, <1>4, <1>5, <1>6 DEF RunNow
  <2>2. RunsKept(N + 1)
    BY <2>1, <1>6 DEF RunsKept
  <2>3. SentKept
    BY DEF SentKept
  <2> QED  BY <2>2, <2>3, <1>5 DEF Past
<1>9. LogInv'
  BY <1>1, <1>7, <1>8, LogInvKept
<1>10. TradesFollowMatching'
  <2>1. Len(log') = Rest(N + 1)
    BY <1>1, <1>5, NothingGoes
  <2> QED  BY <2>1, <1>1, <1>7, <1>8, TradesKept
<1>11. \A c \in CommandIds : c # k => Matched(c)' \in Seq(Trade)
  <2>1. ASSUME NEW c \in CommandIds, c # k
        PROVE  Matched(c)' \in Seq(Trade)
    <3>1. CASE runs[c] = << >>
      <4>1. ~ AcceptedByBook(c)'
        BY <2>1, <3>1, <1>6 DEF AcceptedByBook
      <4>2. Matched(c)' = << >>
        BY <4>1 DEF Matched
      <4> HIDE DEF Matched
      <4> QED  BY <4>2
    <3>2. CASE runs[c] # << >>
      BY <3>2, <1>1, <1>7, <1>8, MatchedKept DEF MatchedTrades
    <3> QED  BY <3>1, <3>2
  <2> QED  BY <2>1
<1>12. AcceptedByBook(k)' <=> error = "None"
  BY <1>6 DEF AcceptedByBook
<1> DEFINE m == N - 1
<1>13. m \in 0 .. N /\ m # N /\ m \in Nat /\ To(N + 1, m) = m /\ m <= N
  <2>1. N \in Nat /\ N # 0
    BY <1>1, <1>2
  <2> HIDE DEF N
  <2> QED  BY ONLY <2>1 DEF To, m
(* The books before the command are as they were.                          *)
<1>14. Books(submitted, runs, boot, log)[m] = book
  <2>1. ~ RanBy(runs, boot, log[N])
    BY <1>3, <1>4 DEF RanBy
  <2>2. Books(submitted, runs, boot, log)[N] = Books(submitted, runs, boot, log)[N - 1]
    <3>1. Len(log) \in Nat /\ N \in 1 .. Len(log)
      BY <1>1, <1>2
    <3> HIDE DEF N
    <3>2. Books(submitted, runs, boot, log)[N] =
             IF RanBy(runs, boot, log[N])
             THEN After(submitted[log[N].key], Books(submitted, runs, boot, log)[N - 1])
             ELSE Books(submitted, runs, boot, log)[N - 1]
      BY <3>1, BooksFollow
    <3> QED  BY <2>1, <3>2
  <2> QED  BY <2>2, <1>1, ReplayIsBooks DEF BookIsReplay
<1>15. ASSUME NEW front2, IsFront(front2, log', m)
       PROVE  Books(submitted', runs', boot, front2)[m] = book
  <2>1. IsFront(log, log, m)
    BY <1>1, <1>13 DEF IsFront
  <2> HIDE DEF m, N
  <2>2. IsFront(front2, log', To(N + 1, m))
    BY <1>13, <1>15
  <2>3. Books(submitted', runs', boot, front2)[To(N + 1, m)] = Books(submitted, runs, boot, log)[m]
    <3>1. m \in 0 .. Len(log) /\ m # Len(log) /\ Past(Len(log) + 1) /\ LogInv /\ Types'
      BY <1>1, <1>7, <1>8, <1>13 DEF N
    <3>2. IsFront(front2, log', To(Len(log) + 1, m))
      BY <2>2 DEF N
    <3>3. Books(submitted', runs', boot, front2)[To(Len(log) + 1, m)] = Books(submitted, runs, boot, log)[m]
      BY <2>1, <3>1, <3>2, BooksKept
    <3> QED  BY <3>3 DEF N
  <2> QED  BY <2>3, <1>13, <1>14
<1>16. Replay(boot, log)' = After(submitted[k], book)
  <2>1. IsFront(log', log', m)
    BY <1>5, <1>1, <1>13 DEF IsFront
  <2>2. Books(submitted', runs', boot, log')[m] = book
    BY <2>1, <1>15
  <2>3. RanBy(runs', boot, log'[N])
    <3>1. IsFirstEvent(log'[N]) /\ log'[N].key = k
      BY <1>3, <1>5 DEF IsFirstEvent
    <3>2. \E i \in DOMAIN runs'[k] : runs'[k][i].boot = boot
      BY <1>6
    <3> QED  BY <3>1, <3>2 DEF RanBy
  <2>4. Books(submitted', runs', boot, log')[N] = After(submitted'[log'[N].key], Books(submitted', runs', boot, log')[N - 1])
    BY <2>3, <1>1, <1>2, <1>5, BooksFollow
  <2>5. Books(submitted', runs', boot, log')[N] = After(submitted[k], book)
    BY <2>2, <2>4, <1>3, <1>5
  <2> QED  BY <2>5, <1>5, ReplayIsBooks
<1>17. Matched(k)' = IF error = "None" /\ submitted[k].type = "PlaceOrder"
                     THEN PlaceOutcome(submitted[k].order, book).trades ELSE << >>
  <2> DEFINE front2 == SubSeq(log', 1, N - 1)
  <2>1. Len(front2) = N - 1 /\ \A j \in 1 .. (N - 1) : front2[j] = log'[j]
    <3>1. \A j \in 1 .. (N - 1) : log'[j] \in Entries
      <4>1. \A j \in 1 .. Len(log') : log'[j] \in Entries
        BY <1>5
      <4> QED  BY <4>1, <1>1, <1>5
    <3>2. N - 1 \in Int /\ 1 \in Int /\ N - 1 >= 0
      BY <1>13
    <3>3. /\ Len(front2) = IF 1 <= N - 1 THEN (N - 1) - 1 + 1 ELSE 0
          /\ \A j \in 1 .. (N - 1) - 1 + 1 : front2[j] = log'[1 + j - 1]
      BY <3>1, <3>2, SubSeqProperties
    <3>4. N \in Nat
      BY <1>1
    <3> HIDE DEF front2, N
    <3> QED  BY ONLY <3>2, <3>3, <3>4
  <2>2. FirstAt(log', k) = N
    <3>1. log'[N].key = k /\ IsFirstEvent(log'[N]) /\ N \in DOMAIN log'
      BY <1>2, <1>3, <1>5 DEF IsFirstEvent
    <3>2. \A j \in DOMAIN log' : log'[j].key = k => j = N
      BY <3>1, <1>9 DEF LogInv, KeysDistinct
    <3> HIDE DEF N
    <3> QED  BY <3>1, <3>2 DEF FirstAt
  <2>3. IsFront(front2, log', m)
    <3> HIDE DEF front2
    <3> QED  BY <2>1, <1>13 DEF IsFront
  <2>4. Books(submitted', runs', boot, front2)[Len(front2)] = book
    <3> HIDE DEF front2
    <3> QED  BY <2>1, <2>3, <1>15
  <2>5. MatchedOf(submitted', runs', log', k) =
           IF (\E n \in DOMAIN runs'[k] : runs'[k][n].error = "None") /\ submitted'[k].type = "PlaceOrder"
           THEN PlaceOutcome(submitted'[k].order,
                             Books(submitted', runs', runs'[k][1].boot, front2)[Len(front2)]).trades
           ELSE << >>
    BY <2>2 DEF MatchedOf
  <2>6. (\E n \in DOMAIN runs'[k] : runs'[k][n].error = "None") <=> error = "None"
    BY <1>6
  <2>7. runs'[k][1].boot = boot
    BY <1>6
  <2> HIDE DEF front2
  <2>8. MatchedOf(submitted', runs', log', k) =
           IF error = "None" /\ submitted[k].type = "PlaceOrder"
           THEN PlaceOutcome(submitted[k].order, book).trades ELSE << >>
    BY <2>4, <2>5, <2>6, <2>7
  <2> QED  BY <2>8, MatchedIsMatchedOf
<1> QED  BY <1>7, <1>8, <1>9, <1>10, <1>11, <1>12, <1>16, <1>17

LEMMA RefusedSound ==
    ASSUME NEW k, NEW error \in Errors, Answer(Refused(k, error))
    PROVE  ActiveSound' /\ ReplySound'
<1>1. reply' = Refused(k, error) /\ active' = None
  BY DEF Answer
<1>2. reply'.result \notin {"OrderPlaced", "OrderCanceled"}
  BY <1>1 DEF Refused, Errors
<1> QED  BY <1>1, <1>2 DEF ActiveSound, ReplySound, IsOk

(* A COMMIT is answered and the call goes on.                              *)
LEMMA EventCommittedSound ==
    ASSUME IInv, EventCommitted
    PROVE  IInv'
<1>1. /\ LogInv /\ Types /\ Len(log) \in Nat /\ DOMAIN log = 1 .. Len(log) /\ SoundBook(book)
      /\ active # None /\ active.stage = "commit" /\ active \in Calls
      /\ Committing
      /\ submitted' = submitted /\ boot' = boot
  BY DEF IInv, LogInv, Types, ActiveSound, EventCommitted
<1>2. PICK k \in CommandIds, n \in Nat : k = active.command_id /\ n = active.part
  BY <1>1 DEF Calls
<1>3. submitted[k] # None /\ submitted[k] \in Commands
  BY <1>1, <1>2 DEF IInv, ActiveSound, Types
<1>4. /\ log # << >> /\ Len(log) \in DOMAIN log /\ log' = Close(Len(log))
      /\ log[Len(log)] = [key |-> TheKey, event |-> TheEvent, open |-> TRUE]
  <2>1. PICK i \in OpenAt(TheKey) : log' = Close(i)
    BY DEF EventCommitted
  <2>2. i \in DOMAIN log /\ log[i].key = TheKey
    BY <2>1 DEF OpenAt
  <2>3. /\ log # << >>
        /\ log[Len(log)] = [key |-> TheKey, event |-> TheEvent, open |-> TRUE]
    BY <1>1 DEF Committing
  <2>4. Len(log) \in DOMAIN log
    <3>1. i \in 1 .. Len(log)
      BY <1>1, <2>2
    <3>2. Len(log) \in 1 .. Len(log)
      BY <1>1, <3>1
    <3> QED  BY <1>1, <3>2
  <2>5. i = Len(log)
    BY <1>1, <2>2, <2>3, <2>4 DEF LogInv, KeysDistinct
  <2> QED  BY <2>1, <2>3, <2>4, <2>5
<1>5. /\ log' \in Seq(Entries) /\ Len(log') = Len(log) /\ DOMAIN log' = DOMAIN log
      /\ log'[Len(log)].key = TheKey /\ log'[Len(log)].event = TheEvent /\ ~ log'[Len(log)].open
      /\ EntriesKept(Len(log) + 1) /\ EntryAdded(Len(log) + 1)
  BY <1>1, <1>4, LogClosed
<1>6. CASE n = 0
  <2>1. /\ TheKey = k /\ TheEvent = FirstEvent(k) /\ FirstEvent(k).type # "TradeExecuted"
        /\ RunCommand(k)
    BY <1>1, <1>2, <1>6, KeyAndEvent DEF EventCommitted
  <2>2. log[Len(log)] = [key |-> k, event |-> FirstEvent(k), open |-> TRUE]
    BY <2>1, <1>4
  <2>3. CASE submitted[k].type = "PlaceOrder"
    <3> DEFINE order == submitted[k].order
    <3>1. PICK error : error = PlaceError(order, RestingIds(book))
      OBVIOUS
    <3>2. error \in Errors \cup {"None"} /\ order \in LimitOrder
      BY <3>1, <2>3, <1>1, <1>3, BookTypes
    <3>3. /\ Ran(k, error)
          /\ error = "None" => /\ book' = BookAfterPlace(order, book)
                               /\ PersistNext(0, PlaceOutcome(order, book).trades,
                                      PlaceOutcome(order, book).remaining_quantity, << >>)
          /\ error # "None" => Answer(Refused(k, error)) /\ book' = book
      BY <3>1, <2>1, <2>3 DEF RunCommand, RunPlaceOrder
    <3>4. /\ Types' /\ Past(Len(log) + 1) /\ LogInv' /\ TradesFollowMatching'
          /\ Replay(boot, log)' = After(submitted[k], book)
          /\ AcceptedByBook(k)' <=> error = "None"
          /\ Matched(k)' = IF error = "None" /\ submitted[k].type = "PlaceOrder"
                           THEN PlaceOutcome(submitted[k].order, book).trades ELSE << >>
          /\ \A c \in CommandIds : c # k => Matched(c)' \in Seq(Trade)
      BY <2>1, <2>2, <3>2, <3>3, <1>1, <1>3, <1>4, CommandRuns
    <3>5. After(submitted[k], book) = IF error = "None" THEN BookAfterPlace(order, book) ELSE book
      BY <3>1, <2>3 DEF After
    <3> HIDE DEF order
    <3>6. book' = Replay(boot, log)' /\ SoundBook(book')
      BY <3>2, <3>3, <3>4, <3>5, <1>1, PlaceKeepsSound
    <3>7. BookIsReplay'
      BY <3>6 DEF BookIsReplay
    <3>8. /\ PlaceOutcome(order, book).trades \in Seq(Trade)
          /\ PlaceOutcome(order, book).remaining_quantity \in Nat
          /\ PlaceOutcome(order, book).remaining_quantity
                = order.quantity - Quantity(PlaceOutcome(order, book).trades)
      BY <3>2, <1>1, OutcomeAddsUp
    <3>9. MatchedTrades'
      <4>1. Matched(k)' \in Seq(Trade)
        <5>1. CASE error = "None"
          BY <5>1, <3>4, <3>8, <2>3 DEF order
        <5>2. CASE error # "None"
          <6>1. Matched(k)' = << >>
            BY <5>2, <3>4
          <6> HIDE DEF Matched
          <6> QED  BY <6>1
        <5> QED  BY <5>1, <5>2
      <4> HIDE DEF Matched
      <4> QED  BY <4>1, <3>4 DEF MatchedTrades
    <3>10. ActiveSound' /\ ReplySound'
      <4>1. CASE error # "None"
        BY <4>1, <3>2, <3>3, RefusedSound
      <4>2. CASE error = "None"
        <5>1. PICK trades \in Seq(Trade), remaining \in Nat :
                 /\ trades = PlaceOutcome(order, book).trades
                 /\ remaining = PlaceOutcome(order, book).remaining_quantity
          BY <3>8
        <5>2. Matched(k)' = trades /\ AcceptedByBook(k)'
          BY <5>1, <4>2, <3>4, <2>3 DEF order
        <5>3. remaining = order.quantity - Quantity(trades)
          BY <5>1, <3>8
        <5>4. PICK records \in Seq(LoggedEvents) : records = << >>
          <6>1. << >> \in Seq(LoggedEvents)
            OBVIOUS
          <6> QED  BY <6>1
        <5>5. Len(records) = 0 /\ PersistNext(0, trades, remaining, records)
          BY <5>1, <5>4, <4>2, <3>3
        <5>6. Quantity(Matched(k))' = Quantity(trades)
          BY <5>2
        <5>7. Held(k, trades, remaining, records)'
          BY <5>2, <5>3, <5>5, <5>6, <2>3, <1>1 DEF Held, order
        <5>8. reply' = reply => ReplySound'
          BY <3>4, <1>1, ReplyKept DEF IInv
        <5>9. 0 <= Len(trades) /\ 0 \in Nat
          OBVIOUS
        <5> QED  BY <5>5, <5>7, <5>8, <5>9, <1>1, <1>2, <1>3, GoesOnSound
      <4> QED  BY <4>1, <4>2
    <3> QED  BY <3>4, <3>6, <3>7, <3>9, <3>10 DEF IInv
  <2>4. CASE submitted[k].type # "PlaceOrder"
    <3>1. submitted[k].type = "CancelOrder"
      BY <2>4, <1>3, CommandKinds
    <3> DEFINE id == submitted[k].order_id
    <3>2. PICK error : error = IF id \in RestingIds(book) THEN "None" ELSE "OrderNotFound"
      OBVIOUS
    <3>3. error \in Errors \cup {"None"} /\ (error # "None" => error \in Errors)
      BY <3>2 DEF Errors
    <3>4. /\ Ran(k, error) /\ book' = BookAfterCancel(id, book)
          /\ Answer(IF error = "None" THEN OrderCanceled(k, TRUE) ELSE Refused(k, error))
      BY <3>2, <2>1, <2>4 DEF RunCommand, RunCancelOrder
    <3>5. /\ Types' /\ Past(Len(log) + 1) /\ LogInv' /\ TradesFollowMatching'
          /\ Replay(boot, log)' = After(submitted[k], book)
          /\ Matched(k)' = IF error = "None" /\ submitted[k].type = "PlaceOrder"
                           THEN PlaceOutcome(submitted[k].order, book).trades ELSE << >>
          /\ \A c \in CommandIds : c # k => Matched(c)' \in Seq(Trade)
      BY <2>1, <2>2, <3>3, <3>4, <1>1, <1>3, <1>4, CommandRuns
    <3>6. book' = Replay(boot, log)' /\ SoundBook(book')
      BY <3>1, <3>4, <3>5, <1>1, CancelKeepsSound DEF After
    <3>7. BookIsReplay'
      BY <3>6 DEF BookIsReplay
    <3>8. MatchedTrades'
      <4>1. Matched(k)' = << >>
        BY <3>5, <2>4
      <4>2. << >> \in Seq(Trade)
        OBVIOUS
      <4> HIDE DEF Matched
      <4>3. \A c \in CommandIds : Matched(c)' \in Seq(Trade)
        BY <4>1, <4>2, <3>5
      <4> QED  BY <4>3 DEF MatchedTrades
    <3>9. ActiveSound' /\ ReplySound'
      <4>1. CASE error # "None"
        BY <4>1, <3>3, <3>4, RefusedSound
      <4>2. CASE error = "None"
        <5>1. reply' = OrderCanceled(k, TRUE) /\ active' = None
          BY <4>2, <3>4 DEF Answer
        <5>2. reply'.result # "OrderPlaced"
          BY <5>1 DEF OrderCanceled
        <5> QED  BY <5>1, <5>2 DEF ActiveSound, ReplySound
      <4> QED  BY <4>1, <4>2
    <3> QED  BY <3>5, <3>6, <3>7, <3>8, <3>9 DEF IInv
  <2> QED  BY <2>3, <2>4
<1>7. CASE n # 0
  <2>1. n > 0 /\ active.part > 0 /\ TradeAnswered(TheEvent)
    BY <1>2, <1>7 DEF EventCommitted
  <2>2. book' = book /\ runs' = runs
    BY <2>1 DEF TradeAnswered
  <2>3. Types' /\ Past(Len(log) + 1) /\ Len(log') = Rest(Len(log) + 1)
    BY <2>2, <1>1, <1>5, TypesKept, NothingGoes DEF Past
  <2>4. /\ LogInv' /\ TradesFollowMatching' /\ MatchedTrades'
        /\ SoundBook(book') /\ BookIsReplay'
    BY <2>2, <2>3, <1>1, InvKept
  <2>5. PICK record \in LoggedEvents : record = TheEvent
    BY <1>1, KeyAndEvent
  <2>6. /\ TheKey = Key(k, n) /\ record = TradeExecuted(Matched(k)[n])
    BY <2>1, <2>5, <1>1, <1>2, <1>7, KeyAndEvent DEF Key
  <2>7. runs[k] # << >>
    <3>1. Persisting
      BY <2>1, <1>1 DEF IInv, ActiveSound
    <3> QED  BY <3>1, <1>2, AcceptedRan DEF Persisting
  <2>8. Told(k, n, record)'
    <3>1. PICK key : key = Key(k, n)
      OBVIOUS
    <3>2. Logged(key)' /\ RecordAt(key)' = log'[Len(log)].event
      BY <3>1, <2>4, <2>6, <1>4, <1>5, NextRecordIs DEF LogInv
    <3>3. Matched(k)' = Matched(k)
      BY <2>3, <2>7, <1>1, MatchedKept
    <3>4. Key(k, n)' = Key(k, n)
      BY DEF Key
    <3> HIDE DEF Matched
    <3> QED  BY <3>1, <3>2, <3>3, <3>4, <2>5, <2>6, <1>5 DEF Told, TradeExecuted, Key
  <2>9. ActiveSound' /\ ReplySound'
    BY <2>1, <2>2, <2>3, <2>5, <2>8, <1>1, <1>2, TradeAnsweredSound
  <2> QED  BY <2>4, <2>9 DEF IInv
<1> QED  BY <1>6, <1>7

-------------------------------------------------------------------------------
(* The invariant holds.                                                    *)

LEMMA InitSound ==
    ASSUME Init
    PROVE  IInv
<1>1. /\ log = << >> /\ Len(log) = 0 /\ DOMAIN log = {} /\ book = EmptyBook /\ boot = 0
      /\ submitted = [k \in CommandIds |-> None] /\ active = None /\ reply = None
      /\ runs = [k \in CommandIds |-> << >>]
  BY DEF Init
<1>2. Types
  <2>1. log \in Seq(Entries)
    BY <1>1
  <2>2. runs \in [CommandIds -> Seq(RunRecords)]
    BY <1>1
  <2> QED  BY <2>1, <2>2, <1>1 DEF Types
<1>3. KeysDistinct /\ FirstEventsSent /\ RunsLogged /\ AtMostOnceEffect
  BY <1>1 DEF KeysDistinct, FirstEventsSent, RunsLogged, AtMostOnceEffect
<1>4. BookIsReplay
  <2>1. Books(submitted, runs, boot, log)[Len(log)] = EmptyBook
    BY <1>1, BooksFollow
  <2> QED  BY <2>1, <1>1, ReplayIsBooks DEF BookIsReplay
<1>5. TradesFollowMatching
  BY <1>1 DEF TradesFollowMatching
<1>6. MatchedTrades
  <2>1. ASSUME NEW k \in CommandIds
        PROVE  Matched(k) = << >>
    <3>1. ~ AcceptedByBook(k)
      BY <1>1 DEF AcceptedByBook
    <3> QED  BY <3>1 DEF Matched
  <2>2. << >> \in Seq(Trade)
    OBVIOUS
  <2> HIDE DEF Matched
  <2>3. \A k \in CommandIds : Matched(k) \in Seq(Trade)
    BY <2>1, <2>2
  <2> QED  BY <2>3 DEF MatchedTrades
<1>7. ActiveSound /\ ReplySound
  BY <1>1 DEF ActiveSound, ReplySound, IsOk
<1> QED  BY <1>1, <1>2, <1>3, <1>4, <1>5, <1>6, <1>7, EmptyBookSound DEF IInv, LogInv

LEMMA StutterSound ==
    ASSUME IInv, UNCHANGED vars
    PROVE  IInv'
<1>1. /\ LogInv /\ Types /\ Len(log) \in Nat
      /\ book' = book /\ log' = log /\ submitted' = submitted /\ active' = active
      /\ reply' = reply /\ runs' = runs /\ boot' = boot
  BY DEF IInv, LogInv, Types, vars
<1>2. Types' /\ Past(Len(log) + 1) /\ Len(log') = Rest(Len(log) + 1)
  <2>1. log' \in Seq(Entries)
    BY <1>1 DEF Types
  <2> QED  BY <2>1, <1>1, TypesKept, LogUntouched, NothingGoes DEF Past
<1>3. /\ LogInv' /\ TradesFollowMatching' /\ MatchedTrades'
      /\ SoundBook(book') /\ BookIsReplay'
  BY <1>1, <1>2, InvKept
<1>4. ReplySound'
  BY <1>1, <1>2, ReplyKept DEF IInv
<1>5. ActiveSound'
  <2>1. SUFFICES ASSUME active # None PROVE ActiveSound'
    BY <1>1 DEF ActiveSound
  <2>2. active.part > 0 => Persisting'
    BY <2>1, <1>1, <1>2, PersistingKept
  <2>3. Committing' <=> Committing
    BY <1>1 DEF Committing, TheKey, TheEvent, Key, FirstEvent, ItsTrade
  <2> QED  BY <2>1, <2>2, <2>3, <1>1 DEF IInv, ActiveSound
<1> QED  BY <1>3, <1>4, <1>5 DEF IInv

LEMMA StepSound ==
    ASSUME IInv, [Next]_vars
    PROVE  IInv'
<1>1. ASSUME NEW k \in CommandIds, Handle(k) PROVE IInv'
  BY <1>1, CallSound DEF Handle
<1>2. CASE AppendEvent
  BY <1>2, AppendEventSound
<1>3. CASE EventCommitted
  BY <1>3, EventCommittedSound
<1>4. CASE Drop \/ Fail
  BY <1>4, DropSound
<1>5. CASE Crash
  BY <1>5, StartAgainSound DEF Crash
<1>6. CASE OrphanEnds
  BY <1>6, OrphanEndsSound
<1>7. CASE Restore
  BY <1>7, RestoreSound
<1>8. CASE UNCHANGED vars
  BY <1>8, StutterSound
<1> QED  BY <1>1, <1>2, <1>3, <1>4, <1>5, <1>6, <1>7, <1>8 DEF Next

(* What the handler and its log keep between any two steps.                *)
THEOREM Invariance == Spec => []IInv
<1>1. Init => IInv
  BY InitSound
<1>2. IInv /\ [Next]_vars => IInv'
  BY StepSound
<1> QED  BY <1>1, <1>2, PTL DEF Spec

LEMMA TypesOfInvariant ==
    ASSUME IInv
    PROVE  TypeOK
<1>1. \A side \in Sides : book[side] \in Seq(LimitOrder)
  BY DEF IInv, SoundBook, SoundQueue
<1>2. active # None => /\ active \in Calls
                       /\ submitted[active.command_id] # None
                       /\ active.part \in 0 .. Len(active.trades)
                       /\ active.part > 0 => Len(active.records) = active.part - 1
  BY DEF IInv, ActiveSound, Persisting
<1> QED  BY <1>1, <1>2 DEF IInv, LogInv, Types, TypeOK, RunRecords

(* The variables keep their types, and a call at its n-th trade holds a    *)
(* record for each trade before it.                                        *)
THEOREM TypeCorrectness == Spec => []TypeOK
<1>1. IInv => TypeOK
  BY TypesOfInvariant
<1> QED  BY <1>1, Invariance, PTL

(* However often a command is sent, given up, failed or sent again after a *)
(* restart, place_limit or cancel runs once for it.                        *)
THEOREM EffectOnce == Spec => []AtMostOnceEffect
<1>1. IInv => AtMostOnceEffect
  BY DEF IInv, LogInv
<1> QED  BY <1>1, Invariance, PTL

(* The book is what the log's commands give, run one by one in its order:  *)
(* orphaned, dropped and failed appends change neither.                    *)
THEOREM BookFollowsLog == Spec => []BookIsReplay
<1>1. IInv => BookIsReplay
  BY DEF IInv
<1> QED  BY <1>1, Invariance, PTL

(* A trade in the log is the one matched at its command's place in the     *)
(* log, and the trades before it are logged: whoever ended its append.     *)
THEOREM LoggedTrades == Spec => []TradesFollowMatching
<1>1. IInv => TradesFollowMatching
  BY DEF IInv
<1> QED  BY <1>1, Invariance, PTL

(* handle() answers an order it placed now with the records of all its     *)
(* trades, which are committed, and with what those trades left of it.     *)
THEOREM FirstReply == Spec => []FirstReplyTellsTheLog
<1>1. IInv => FirstReplyTellsTheLog
  <2> SUFFICES ASSUME IInv, IsOk(reply), reply.result = "OrderPlaced", reply.inserted
               PROVE  TellsTheLog(reply)
    BY DEF FirstReplyTellsTheLog
  <2>1. PICK k \in CommandIds, trades \in Seq(LoggedEvents) :
           k = reply.command_id /\ trades = reply.trades
    BY DEF IInv, ReplySound
  <2>2. /\ Len(trades) = Len(Matched(k))
        /\ \A n \in 1 .. Len(trades) : Told(k, n, trades[n])
        /\ reply.remaining_quantity = submitted[k].order.quantity - Quantity(Matched(k))
    BY <2>1 DEF IInv, ReplySound
  <2>3. DOMAIN trades = 1 .. Len(trades)
    OBVIOUS
  <2> QED  BY <2>1, <2>2, <2>3 DEF TellsTheLog, Told
<1> QED  BY <1>1, Invariance, PTL

-------------------------------------------------------------------------------
(* The account of an order id: the lots that the log says it traded, the   *)
(* lots of the trades that the running call has yet to append, and the     *)
(* lots that rest are together no more than were placed.                   *)

LotsOf(id, trades) == [n \in DOMAIN trades |-> Lots(id, trades[n])]

TradedIn(id, entries) == [i \in DOMAIN entries |-> LotsTraded(id, entries[i].event)]

PlacedLots(id, entry, sent, run) ==
    IF /\ IsFirstEvent(entry)
       /\ \E n \in DOMAIN run[entry.key] : run[entry.key][n].error = "None"
       /\ sent[entry.key].type = "PlaceOrder"
       /\ sent[entry.key].order.order_id = id
    THEN sent[entry.key].order.quantity
    ELSE 0

PlacedIn(id, entries, sent, run) ==
    [i \in DOMAIN entries |-> PlacedLots(id, entries[i], sent, run)]

(* The call has not appended its n-th trade yet.                           *)
Waits(call, n) == n > call.part \/ (n = call.part /\ call.stage = "append")

PendingOf(id, call) ==
    IF call = None \/ call.part = 0 THEN << >>
    ELSE [n \in DOMAIN call.trades |-> IF Waits(call, n) THEN Lots(id, call.trades[n]) ELSE 0]

Account ==
    \A id \in OrderIds :
        Total(TradedIn(id, log)) + (Total(PendingOf(id, active)) + LotsResting(id, book))
            <= Total(PlacedIn(id, log, submitted, runs))

(* What each of the four is made of.                                       *)
LEMMA LotsTypes ==
    ASSUME NEW id, NEW trades \in Seq(Trade)
    PROVE  /\ LotsOf(id, trades) \in Seq(Nat) /\ Len(LotsOf(id, trades)) = Len(trades)
           /\ \A n \in 1 .. Len(trades) :
                 /\ trades[n] \in Trade /\ Lots(id, trades[n]) \in Nat
                 /\ LotsOf(id, trades)[n] = Lots(id, trades[n])
           /\ Total(LotsOf(id, trades)) \in Nat
<1> DEFINE N == Len(trades)
           v == LotsOf(id, trades)
<1>1. N \in Nat /\ DOMAIN trades = 1 .. N /\ \A n \in 1 .. N : trades[n] \in Trade
  OBVIOUS
<1>2. \A n \in 1 .. N : Lots(id, trades[n]) \in Nat
  BY <1>1 DEF Trade, Lots
<1>3. v = [n \in 1 .. N |-> Lots(id, trades[n])]
  BY <1>1 DEF LotsOf
<1> HIDE DEF v, N
<1>4. v \in [1 .. N -> Nat]
  BY <1>2, <1>3
<1>5. v \in Seq(Nat) /\ Len(v) = N
  BY <1>1, <1>4
<1>6. Total(v) \in Nat
  BY <1>5, TotalSums, TotalIs
<1> QED  BY <1>1, <1>2, <1>3, <1>5, <1>6 DEF v, N

LEMMA TradedTypes ==
    ASSUME NEW id, NEW entries \in Seq(Entries)
    PROVE  /\ TradedIn(id, entries) \in Seq(Nat) /\ Len(TradedIn(id, entries)) = Len(entries)
           /\ \A i \in 1 .. Len(entries) :
                 TradedIn(id, entries)[i] = LotsTraded(id, entries[i].event)
           /\ Total(TradedIn(id, entries)) \in Nat
<1> DEFINE N == Len(entries)
           v == TradedIn(id, entries)
<1>1. N \in Nat /\ DOMAIN entries = 1 .. N /\ \A i \in 1 .. N : entries[i] \in Entries
  OBVIOUS
<1>2. ASSUME NEW i \in 1 .. N
      PROVE  LotsTraded(id, entries[i].event) \in Nat
  <2>1. PICK event \in LoggedEvents : event = entries[i].event
    BY <1>1 DEF Entries
  <2>2. event.type = "TradeExecuted" => event.trade \in Trade
    BY DEF LoggedEvents
  <2>3. LotsTraded(id, event) \in Nat
    BY <2>2 DEF LotsTraded, Lots, Trade
  <2> QED  BY <2>1, <2>3
<1>3. v = [i \in 1 .. N |-> LotsTraded(id, entries[i].event)]
  BY <1>1 DEF TradedIn
<1> HIDE DEF v, N
<1>4. v \in [1 .. N -> Nat]
  BY <1>2, <1>3
<1>5. v \in Seq(Nat) /\ Len(v) = N
  BY <1>1, <1>4
<1>6. Total(v) \in Nat
  BY <1>5, TotalSums, TotalIs
<1> QED  BY <1>3, <1>5, <1>6 DEF v, N

LEMMA PlacedTypes ==
    ASSUME NEW id, NEW entries \in Seq(Entries),
           NEW sent \in [CommandIds -> Commands \cup {None}], NEW run,
           \A i \in DOMAIN entries :
              IsFirstEvent(entries[i]) => entries[i].key \in CommandIds /\ sent[entries[i].key] # None
    PROVE  /\ PlacedIn(id, entries, sent, run) \in Seq(Nat)
           /\ Len(PlacedIn(id, entries, sent, run)) = Len(entries)
           /\ \A i \in 1 .. Len(entries) :
                 /\ PlacedIn(id, entries, sent, run)[i] = PlacedLots(id, entries[i], sent, run)
                 /\ PlacedLots(id, entries[i], sent, run) \in Nat
           /\ Total(PlacedIn(id, entries, sent, run)) \in Nat
<1> DEFINE N == Len(entries)
           v == PlacedIn(id, entries, sent, run)
<1>1. N \in Nat /\ DOMAIN entries = 1 .. N
  OBVIOUS
<1>2. ASSUME NEW i \in 1 .. N
      PROVE  PlacedLots(id, entries[i], sent, run) \in Nat
  <2> DEFINE k == entries[i].key
  <2>1. CASE IsFirstEvent(entries[i]) /\ sent[k].type = "PlaceOrder"
    <3>1. sent[k] \in Commands
      BY <2>1, <1>1
    <3>2. sent[k].order \in Submitted
      BY <2>1, <3>1, CommandKinds
    <3>3. sent[k].order.quantity \in Nat
      BY <3>2, OrdersAssumption DEF Submitted
    <3> QED  BY <3>3 DEF PlacedLots
  <2>2. CASE ~ (IsFirstEvent(entries[i]) /\ sent[k].type = "PlaceOrder")
    BY <2>2 DEF PlacedLots
  <2> QED  BY <2>1, <2>2
<1>3. v = [i \in 1 .. N |-> PlacedLots(id, entries[i], sent, run)]
  BY <1>1 DEF PlacedIn
<1> HIDE DEF v, N
<1>4. v \in [1 .. N -> Nat]
  BY <1>2, <1>3
<1>5. v \in Seq(Nat) /\ Len(v) = N
  BY <1>1, <1>4
<1>6. Total(v) \in Nat
  BY <1>5, TotalSums, TotalIs
<1> QED  BY <1>2, <1>3, <1>5, <1>6 DEF v, N

LEMMA PendingTypes ==
    ASSUME NEW id, NEW call \in Calls \cup {None}
    PROVE  /\ PendingOf(id, call) \in Seq(Nat) /\ Total(PendingOf(id, call)) \in Nat
           /\ call = None \/ call.part = 0 => Total(PendingOf(id, call)) = 0
           /\ call # None /\ call.part > 0 =>
                 /\ call \in Calls /\ call.trades \in Seq(Trade)
                 /\ Len(PendingOf(id, call)) = Len(call.trades)
                 /\ \A n \in 1 .. Len(call.trades) :
                       /\ Lots(id, call.trades[n]) \in Nat
                       /\ PendingOf(id, call)[n]
                             = IF Waits(call, n) THEN Lots(id, call.trades[n]) ELSE 0
<1> DEFINE v == PendingOf(id, call)
<1>1. CASE call = None \/ call.part = 0
  <2>1. v = << >>
    BY <1>1 DEF PendingOf
  <2>2. v \in Seq(Nat) /\ Total(v) = 0
    <3>1. << >> \in Seq(Nat)
      OBVIOUS
    <3> QED  BY <2>1, <3>1, TotalOfNone
  <2> QED  BY <1>1, <2>2
<1>2. CASE ~ (call = None \/ call.part = 0)
  <2>1. PICK trades \in Seq(Trade) : trades = call.trades /\ call \in Calls
    BY <1>2 DEF Calls
  <2>2. DOMAIN trades = 1 .. Len(trades) /\ Len(trades) \in Nat
    OBVIOUS
  <2>3. v = [n \in 1 .. Len(trades) |-> IF Waits(call, n) THEN Lots(id, trades[n]) ELSE 0]
    BY <1>2, <2>1, <2>2 DEF PendingOf
  <2>4. \A n \in 1 .. Len(trades) : Lots(id, trades[n]) \in Nat
    BY LotsTypes
  <2> HIDE DEF v
  <2>5. v \in [1 .. Len(trades) -> Nat]
    BY <2>3, <2>4
  <2>6. v \in Seq(Nat) /\ Len(v) = Len(trades)
    BY <2>2, <2>5
  <2>7. Total(v) \in Nat
    BY <2>6, TotalSums, TotalIs
  <2> QED  BY <1>2, <2>1, <2>3, <2>4, <2>6, <2>7 DEF v
<1> QED  BY <1>1, <1>2

(* A call that goes on to a later trade has less to append.                *)
LEMMA PendingShrinks ==
    ASSUME NEW id, NEW call \in Calls, call # None, call.part > 0,
           NEW next \in Calls \cup {None},
           next # None => /\ next.trades = call.trades
                          /\ \A n \in 1 .. Len(call.trades) : Waits(next, n) => Waits(call, n)
    PROVE  Total(PendingOf(id, next)) <= Total(PendingOf(id, call))
<1> DEFINE v == PendingOf(id, call)
           w == PendingOf(id, next)
<1>1. v \in Seq(Nat) /\ Total(v) \in Nat /\ w \in Seq(Nat)
  BY PendingTypes
<1>2. CASE next = None \/ next.part = 0
  <2>1. Total(w) = 0
    BY <1>2, PendingTypes
  <2> HIDE DEF v, w
  <2>2. Total(w) <= Total(v)
    BY <1>1, <2>1
  <2> QED  BY <2>2 DEF v, w
<1>3. CASE ~ (next = None \/ next.part = 0)
  <2>1. next \in Calls /\ next # None /\ next.part > 0
    BY <1>3 DEF Calls
  <2>2. PICK trades \in Seq(Trade) : trades = call.trades /\ trades = next.trades
    BY <2>1 DEF Calls
  <2>3. /\ Len(v) = Len(trades)
        /\ \A n \in 1 .. Len(trades) :
              /\ Lots(id, trades[n]) \in Nat
              /\ v[n] = IF Waits(call, n) THEN Lots(id, trades[n]) ELSE 0
    BY <2>2, PendingTypes
  <2>4. /\ Len(w) = Len(trades)
        /\ \A n \in 1 .. Len(trades) : w[n] = IF Waits(next, n) THEN Lots(id, trades[n]) ELSE 0
    BY <2>1, <2>2, PendingTypes
  <2>5. \A n \in 1 .. Len(trades) : Waits(next, n) => Waits(call, n)
    BY <2>1, <2>2
  <2> HIDE DEF v, w
  <2>6. \A n \in 1 .. Len(trades) : w[n] <= v[n]
    BY <2>3, <2>4, <2>5
  <2>7. Total(w) <= Total(v)
    BY <1>1, <2>3, <2>4, <2>6, TotalGrows
  <2> QED  BY <2>7 DEF v, w
<1> QED  BY <1>2, <1>3

(* Numbers that stand beside the entries of the log, before and after.     *)
LEMMA TotalsKept ==
    ASSUME Types, Types', NEW p, Past(p),
           NEW v \in Seq(Nat), Len(v) = Len(log), NEW w \in Seq(Nat), Len(w) = Len(log')
    PROVE  /\ (\A j \in 1 .. Rest(p) : w[j] <= v[From(p, j)]) =>
                 Total(w) <= Total(v) + (IF Len(log') = Rest(p) THEN 0 ELSE w[Len(log')])
           /\ (\A j \in 1 .. Rest(p) : v[From(p, j)] <= w[j]) /\ (p <= Len(log) => v[p] = 0) =>
                 Total(v) <= Total(w)
<1> DEFINE N == Len(log)
           M == Len(log')
           R == Rest(p)
           u == [j \in 1 .. R |-> v[From(p, j)]]
           t == [j \in 1 .. R |-> w[j]]
<1>1. /\ N \in Nat /\ M \in Nat /\ R \in Nat /\ p \in Nat \ {0} /\ R <= M
      /\ \A j \in 1 .. R : From(p, j) \in 1 .. N
  BY PastPositions
<1>2. M = R \/ M = R + 1
  BY DEF Past, EntryAdded
<1>3. p \in 1 .. (N + 1) /\ R = IF p <= N THEN N - 1 ELSE N
  BY DEF Past, EntriesKept, Rest
<1>4. \A i \in 1 .. N : v[i] \in Nat
  OBVIOUS
<1>5. \A i \in 1 .. M : w[i] \in Nat
  OBVIOUS
<1> HIDE DEF N, M, R
<1>6. Len(v) = N /\ Len(w) = M
  BY DEF N, M
<1>7. u \in Seq(Nat) /\ Len(u) = R /\ \A j \in 1 .. R : u[j] = v[From(p, j)]
  <2>1. u \in [1 .. R -> Nat]
    BY <1>1, <1>4
  <2> QED  BY <2>1, <1>1
<1>8. t \in Seq(Nat) /\ Len(t) = R /\ \A j \in 1 .. R : t[j] = w[j]
  <2>1. \A j \in 1 .. R : j \in 1 .. M
    BY <1>1
  <2>2. t \in [1 .. R -> Nat]
    BY <2>1, <1>5
  <2> QED  BY <2>2, <1>1
<1> HIDE DEF u, t
<1>9. PICK a \in Nat, b \in Nat, c \in Nat, d \in Nat :
         a = Total(v) /\ b = Total(u) /\ c = Total(t) /\ d = Total(w)
  <2>1. \A s \in Seq(Nat) : Total(s) \in Nat
    BY TotalSums, TotalIs
  <2> QED  BY <2>1, <1>7, <1>8
<1>10. PICK gone \in Nat : gone = (IF p <= N THEN v[p] ELSE 0) /\ a = b + gone
  <2>1. CASE p <= N
    <3>1. p \in 1 .. N /\ Len(u) = N - 1
      BY <2>1, <1>3, <1>7
    <3>2. \A j \in 1 .. Len(u) : u[j] = IF j < p THEN v[j] ELSE v[j + 1]
      BY <1>7 DEF From
    <3>3. Total(v) = Total(u) + v[p]
      BY <3>1, <3>2, <1>6, <1>7, TotalWithout
    <3> QED  BY <2>1, <3>1, <3>3, <1>4, <1>9
  <2>2. CASE ~ (p <= N)
    <3>1. R = N /\ \A j \in 1 .. N : From(p, j) = j
      BY <2>2, <1>1, <1>3 DEF From
    <3>2. u = v
      <4>1. Len(u) = N /\ \A j \in 1 .. N : u[j] = v[j]
        BY <3>1, <1>7
      <4> QED  BY <4>1, <1>6, <1>7
    <3>3. a = b + 0
      BY <3>2, <1>9
    <3> QED  BY <2>2, <3>3
  <2> QED  BY <2>1, <2>2
<1>11. PICK new \in Nat : new = (IF M = R THEN 0 ELSE w[M]) /\ d = c + new
  <2>1. CASE M = R
    <3>1. t = w
      BY <2>1, <1>6, <1>8
    <3>2. d = c + 0
      BY <3>1, <1>9
    <3> QED  BY <2>1, <3>2
  <2>2. CASE M # R
    <3>1. Len(w) = Len(t) + 1 /\ \A j \in 1 .. Len(t) : t[j] = w[j]
      BY <2>2, <1>2, <1>6, <1>8
    <3>2. Total(w) = Total(t) + w[M]
      BY <3>1, <1>6, <1>8, TotalOfLast
    <3>3. M \in 1 .. M
      BY <2>2, <1>1, <1>2
    <3> QED  BY <2>2, <3>2, <3>3, <1>5, <1>9
  <2> QED  BY <2>1, <2>2
<1>12. ASSUME \A j \in 1 .. R : w[j] <= v[From(p, j)]
       PROVE  d <= a + new
  <2>1. \A j \in 1 .. Len(u) : t[j] <= u[j]
    BY <1>7, <1>8, <1>12
  <2>2. c <= b
    BY <2>1, <1>7, <1>8, <1>9, TotalGrows
  <2>3. a = b + gone /\ d = c + new
    BY <1>10, <1>11
  <2> QED  BY ONLY <2>2, <2>3
<1>13. ASSUME \A j \in 1 .. R : v[From(p, j)] <= w[j], p <= N => v[p] = 0
       PROVE  a <= d
  <2>1. \A j \in 1 .. Len(t) : u[j] <= t[j]
    BY <1>7, <1>8, <1>13
  <2>2. b <= c
    BY <2>1, <1>7, <1>8, <1>9, TotalGrows
  <2>3. gone = 0
    BY <1>10, <1>13
  <2> QED  BY <2>2, <2>3, <1>10, <1>11
<1> QED  BY <1>9, <1>11, <1>12, <1>13 DEF N, M, R

(* The lots that the log's new entry trades, if there is one.              *)
Gains(id, p) == IF Len(log') = Rest(p) THEN 0 ELSE LotsTraded(id, log'[Len(log')].event)

LEMMA TradedKept ==
    ASSUME LogInv, Types', NEW p, Past(p), NEW id
    PROVE  /\ Total(TradedIn(id, log)) \in Nat /\ Total(TradedIn(id, log')) \in Nat
           /\ Gains(id, p) \in Nat
           /\ Total(TradedIn(id, log')) <= Total(TradedIn(id, log)) + Gains(id, p)
<1> DEFINE v == TradedIn(id, log)
           w == TradedIn(id, log')
<1>1. Types /\ log \in Seq(Entries) /\ log' \in Seq(Entries)
  BY DEF LogInv, Types
<1>2. /\ v \in Seq(Nat) /\ Len(v) = Len(log) /\ Total(v) \in Nat
      /\ \A i \in 1 .. Len(log) : v[i] = LotsTraded(id, log[i].event)
  BY <1>1, TradedTypes
<1>3. /\ w \in Seq(Nat) /\ Len(w) = Len(log') /\ Total(w) \in Nat
      /\ \A i \in 1 .. Len(log') : w[i] = LotsTraded(id, log'[i].event)
  BY <1>1, TradedTypes
<1>4. /\ Len(log') \in Nat /\ Rest(p) \in Nat /\ Rest(p) <= Len(log')
      /\ \A j \in 1 .. Rest(p) : From(p, j) \in 1 .. Len(log)
  BY <1>1, PastPositions
<1> HIDE DEF v, w
<1>5. ASSUME NEW j \in 1 .. Rest(p)
      PROVE  w[j] <= v[From(p, j)]
  <2>1. log'[j].event = log[From(p, j)].event
    BY DEF Past, EntriesKept
  <2>2. j \in 1 .. Len(log') /\ From(p, j) \in 1 .. Len(log)
    BY <1>4
  <2>3. w[j] = v[From(p, j)] /\ w[j] \in Nat
    BY <2>1, <2>2, <1>2, <1>3
  <2> QED  BY <2>3
<1>6. Gains(id, p) = (IF Len(log') = Rest(p) THEN 0 ELSE w[Len(log')]) /\ Gains(id, p) \in Nat
  <2>1. CASE Len(log') = Rest(p)
    BY <2>1 DEF Gains
  <2>2. CASE Len(log') # Rest(p)
    <3>1. Len(log') \in 1 .. Len(log')
      BY <2>2, <1>4
    <3>2. w[Len(log')] \in Nat /\ w[Len(log')] = LotsTraded(id, log'[Len(log')].event)
      BY <3>1, <1>3
    <3> QED  BY <2>2, <3>2 DEF Gains
  <2> QED  BY <2>1, <2>2
<1>7. Total(w) <= Total(v) + Gains(id, p)
  BY <1>1, <1>2, <1>3, <1>5, <1>6, TotalsKept
<1> QED  BY <1>2, <1>3, <1>6, <1>7 DEF v, w

(* What was placed stays placed; an open entry placed nothing.             *)
LEMMA PlacedByEntries ==
    ASSUME LogInv, LogInv', NEW p, Past(p), NEW id
    PROVE  LET v == PlacedIn(id, log, submitted, runs)
               w == PlacedIn(id, log', submitted', runs')
           IN  /\ v \in Seq(Nat) /\ Len(v) = Len(log) /\ Total(v) \in Nat
               /\ w \in Seq(Nat) /\ Len(w) = Len(log') /\ Total(w) \in Nat
               /\ \A i \in 1 .. Len(log') : w[i] = PlacedLots(id, log'[i], submitted', runs')
               /\ \A i \in 1 .. Len(log) : log[i].open => v[i] = 0
               /\ \A j \in 1 .. Rest(p) : v[From(p, j)] <= w[j]
<1> DEFINE v == PlacedIn(id, log, submitted, runs)
           w == PlacedIn(id, log', submitted', runs')
<1>1. Types /\ Types' /\ log \in Seq(Entries) /\ log' \in Seq(Entries)
  BY DEF LogInv, Types
<1>2. /\ v \in Seq(Nat) /\ Len(v) = Len(log) /\ Total(v) \in Nat
      /\ \A i \in 1 .. Len(log) : v[i] = PlacedLots(id, log[i], submitted, runs)
  BY <1>1, PlacedTypes DEF LogInv, Types, FirstEventsSent
<1>3. /\ w \in Seq(Nat) /\ Len(w) = Len(log') /\ Total(w) \in Nat
      /\ \A i \in 1 .. Len(log') : w[i] = PlacedLots(id, log'[i], submitted', runs')
  <2>1. submitted' \in [CommandIds -> Commands \cup {None}]
    BY <1>1 DEF Types
  <2>2. \A i \in DOMAIN log' :
           IsFirstEvent(log'[i]) => log'[i].key \in CommandIds /\ submitted'[log'[i].key] # None
    BY DEF LogInv, FirstEventsSent, IsFirstEvent
  <2> QED  BY <2>1, <2>2, <1>1, PlacedTypes
<1>4. /\ Len(log') \in Nat /\ Rest(p) \in Nat /\ Rest(p) <= Len(log') /\ Len(log) \in Nat
      /\ \A j \in 1 .. Rest(p) : From(p, j) \in 1 .. Len(log)
      /\ DOMAIN log = 1 .. Len(log)
  BY <1>1, PastPositions
<1> HIDE DEF v, w
<1>5. ASSUME NEW i \in 1 .. Len(log), log[i].open
      PROVE  v[i] = 0
  <2>1. IsFirstEvent(log[i]) => runs[log[i].key] = << >>
    BY <1>4, <1>5, OpenHasNotRun
  <2>2. PlacedLots(id, log[i], submitted, runs) = 0
    BY <2>1 DEF PlacedLots
  <2> QED  BY <2>2, <1>2
<1>6. ASSUME NEW j \in 1 .. Rest(p)
      PROVE  v[From(p, j)] <= w[j]
  <2>1. PICK i \in 1 .. Len(log) : i = From(p, j)
    BY <1>4
  <2>2. j \in 1 .. Len(log') /\ log'[j].key = log[i].key /\ log'[j].event = log[i].event
    BY <2>1, <1>4 DEF Past, EntriesKept
  <2>3. v[i] \in Nat /\ w[j] \in Nat
    BY <2>2, <1>2, <1>3
  <2>4. CASE v[i] = 0
    BY <2>1, <2>3, <2>4
  <2>5. CASE v[i] # 0
    <3>1. PICK k : k = log[i].key
      OBVIOUS
    <3>2. PlacedLots(id, log[i], submitted, runs) # 0
      BY <2>5, <1>2
    <3>3. IsFirstEvent(log[i]) /\ (\E n \in DOMAIN runs[k] : runs[k][n].error = "None")
      BY <3>1, <3>2 DEF PlacedLots
    <3>4. k \in CommandIds /\ runs[k] # << >>
      BY <3>1, <3>3, <1>4 DEF LogInv, FirstEventsSent
    <3>5. runs'[k] = runs[k] /\ submitted'[k] = submitted[k]
      BY <3>4, RanStays
    <3>6. PlacedLots(id, log'[j], submitted', runs') = PlacedLots(id, log[i], submitted, runs)
      BY <2>2, <3>1, <3>5 DEF PlacedLots, IsFirstEvent
    <3>7. v[i] = w[j]
      BY <2>2, <3>6, <1>2, <1>3
    <3> QED  BY <2>1, <2>3, <3>7
  <2> QED  BY <2>4, <2>5
<1> QED  BY <1>2, <1>3, <1>5, <1>6 DEF v, w

LEMMA PlacedKept ==
    ASSUME LogInv, LogInv', NEW p, Past(p), NEW id
    PROVE  Total(PlacedIn(id, log, submitted, runs)) <= Total(PlacedIn(id, log', submitted', runs'))
<1> DEFINE v == PlacedIn(id, log, submitted, runs)
           w == PlacedIn(id, log', submitted', runs')
<1>1. Types /\ Types'
  BY DEF LogInv
<1>2. /\ v \in Seq(Nat) /\ Len(v) = Len(log) /\ w \in Seq(Nat) /\ Len(w) = Len(log')
      /\ \A i \in 1 .. Len(log) : log[i].open => v[i] = 0
      /\ \A j \in 1 .. Rest(p) : v[From(p, j)] <= w[j]
  BY PlacedByEntries
<1> HIDE DEF v, w
<1>3. p <= Len(log) => v[p] = 0
  <2> SUFFICES ASSUME p <= Len(log) PROVE v[p] = 0
    OBVIOUS
  <2>1. p \in Nat \ {0} /\ Len(log) \in Nat
    BY <1>1, PastPositions
  <2>2. p \in 1 .. Len(log) /\ log[p].open
    BY <2>1 DEF Past, EntriesKept
  <2> QED  BY <2>2, <1>2
<1>4. Total(v) <= Total(w)
  BY <1>1, <1>2, <1>3, TotalsKept
<1> QED  BY <1>4 DEF v, w

(* A step keeps the account if the trade it logs, the trades it leaves to  *)
(* append and the lots that rest after it are no more than before.         *)
Shrinks(id, p) ==
    Gains(id, p) + (Total(PendingOf(id, active')) + LotsResting(id, book'))
        <= Total(PendingOf(id, active)) + LotsResting(id, book)

LEMMA CallTypes ==
    /\ IInv => active \in Calls \cup {None}
    /\ IInv' => active' \in Calls \cup {None}
  BY DEF IInv, ActiveSound

LEMMA AccountNumbers ==
    ASSUME IInv, IInv', NEW id
    PROVE  /\ Total(PendingOf(id, active)) \in Nat /\ Total(PendingOf(id, active')) \in Nat
           /\ LotsResting(id, book) \in Nat /\ LotsResting(id, book') \in Nat
<1>1. active \in Calls \cup {None} /\ active' \in Calls \cup {None}
  BY CallTypes
<1>2. SoundBook(book) /\ SoundBook(book')
  BY DEF IInv
<1> QED  BY <1>1, <1>2, PendingTypes, RestingInBook

LEMMA AccountKept ==
    ASSUME IInv, IInv', Account, NEW p, Past(p), \A id \in OrderIds : Shrinks(id, p)
    PROVE  Account'
<1>1. LogInv /\ LogInv' /\ Types'
  BY DEF IInv, LogInv
<1>2. ASSUME NEW id \in OrderIds
      PROVE  Total(TradedIn(id, log')) + (Total(PendingOf(id, active')) + LotsResting(id, book'))
               <= Total(PlacedIn(id, log', submitted', runs'))
  <2>1. PICK t \in Nat, t2 \in Nat, g \in Nat :
           /\ t = Total(TradedIn(id, log)) /\ t2 = Total(TradedIn(id, log')) /\ g = Gains(id, p)
           /\ t2 <= t + g
    BY <1>1, TradedKept
  <2>2. PICK q \in Nat, q2 \in Nat, r \in Nat, r2 \in Nat :
           /\ q = Total(PendingOf(id, active)) /\ q2 = Total(PendingOf(id, active'))
           /\ r = LotsResting(id, book) /\ r2 = LotsResting(id, book')
    BY AccountNumbers
  <2>3. PICK a \in Nat, a2 \in Nat :
           /\ a = Total(PlacedIn(id, log, submitted, runs))
           /\ a2 = Total(PlacedIn(id, log', submitted', runs'))
           /\ a <= a2
    BY <1>1, PlacedByEntries, PlacedKept
  <2>4. g + (q2 + r2) <= q + r
    BY <2>1, <2>2 DEF Shrinks
  <2>5. t + (q + r) <= a
    BY <2>1, <2>2, <2>3 DEF Account
  <2>6. t2 + (q2 + r2) <= a2
    <3>1. t2 <= t + g /\ a <= a2
      BY <2>1, <2>3
    <3> QED  BY ONLY <2>4, <2>5, <3>1
  <2> QED  BY <2>1, <2>2, <2>3, <2>6
<1> QED  BY <1>2 DEF Account

(* In most steps nothing is logged that was not there.                     *)
LEMMA ShrinksSilently ==
    ASSUME IInv, IInv', NEW p, Past(p), Len(log') = Rest(p), NEW id,
           Total(PendingOf(id, active')) <= Total(PendingOf(id, active)),
           LotsResting(id, book') <= LotsResting(id, book)
    PROVE  Shrinks(id, p)
<1>1. PICK q \in Nat, q2 \in Nat, r \in Nat, r2 \in Nat :
         /\ q = Total(PendingOf(id, active)) /\ q2 = Total(PendingOf(id, active'))
         /\ r = LotsResting(id, book) /\ r2 = LotsResting(id, book')
  BY AccountNumbers
<1>2. Gains(id, p) = 0
  BY DEF Gains
<1>3. 0 + (q2 + r2) <= q + r
  BY <1>1
<1> QED  BY <1>1, <1>2, <1>3 DEF Shrinks

LEMMA EndedCall ==
    ASSUME IInv, IInv', NEW id, active' = None \/ active'.part = 0
    PROVE  Total(PendingOf(id, active')) <= Total(PendingOf(id, active))
<1>1. active' \in Calls \cup {None}
  BY CallTypes
<1>2. Total(PendingOf(id, active')) = 0
  BY <1>1, PendingTypes
<1>3. Total(PendingOf(id, active)) \in Nat
  BY AccountNumbers
<1> QED  BY <1>2, <1>3

(* Where a step that leaves log and runs alone gets its p from.            *)
LEMMA PastUntouched ==
    ASSUME LogInv, log' = log, runs' = runs, SentKept
    PROVE  Past(Len(log) + 1) /\ Len(log') = Rest(Len(log) + 1)
<1>1. Len(log) \in Nat
  BY DEF LogInv, Types
<1> QED  BY <1>1, LogUntouched, NothingGoes DEF Past, RunsKept

LEMMA CallAccount ==
    ASSUME IInv, IInv', Account, NEW k \in CommandIds, NEW command, Call(k, command)
    PROVE  Account'
<1>1. log' = log /\ runs' = runs /\ book' = book /\ active'.part = 0
  BY DEF Call
<1>2. SentKept
  BY DEF SentKept, Call, IInv, LogInv, Types
<1>3. Past(Len(log) + 1) /\ Len(log') = Rest(Len(log) + 1)
  BY <1>1, <1>2, PastUntouched DEF IInv
<1>4. \A id \in OrderIds : Shrinks(id, Len(log) + 1)
  <2> TAKE id \in OrderIds
  <2>1. Total(PendingOf(id, active')) <= Total(PendingOf(id, active))
    BY <1>1, EndedCall
  <2>2. LotsResting(id, book') <= LotsResting(id, book)
    BY <1>1, AccountNumbers
  <2> QED  BY <1>3, <2>1, <2>2, ShrinksSilently
<1> QED  BY <1>3, <1>4, AccountKept

(* The loop goes on to the next trade, or ends.                            *)
LEMMA NextTrade ==
    ASSUME active \in Calls, NEW part, NEW trades, NEW remaining, NEW records,
           PersistNext(part, trades, remaining, records)
    PROVE  \/ active' = None
           \/ active'.part = part + 1 /\ active'.stage = "append" /\ active'.trades = trades
<1>1. CASE GoesOn(part, trades)
  <2>1. active' = [active EXCEPT !.stage = "append", !.part = part + 1, !.trades = trades,
                                 !.remaining = remaining, !.records = records]
    BY <1>1 DEF PersistNext
  <2> QED  BY <2>1 DEF Calls
<1>2. CASE ~ GoesOn(part, trades)
  BY <1>2 DEF PersistNext, Answer
<1> QED  BY <1>1, <1>2

LEMMA TradeAnsweredShrinks ==
    ASSUME IInv, IInv', active # None, active.part > 0, NEW record, TradeAnswered(record), NEW id
    PROVE  /\ Total(PendingOf(id, active')) <= Total(PendingOf(id, active))
           /\ LotsResting(id, book') <= LotsResting(id, book)
<1>1. active \in Calls /\ active.part \in Nat
  BY DEF IInv, ActiveSound, Calls
<1>2. active' \in Calls \cup {None}
  BY CallTypes
<1>3. \/ active' = None
      \/ active'.part = active.part + 1 /\ active'.stage = "append" /\ active'.trades = active.trades
  <2>1. PICK part, trades, remaining, records :
           /\ part = active.part /\ trades = active.trades
           /\ PersistNext(part, trades, remaining, records)
    BY DEF TradeAnswered
  <2> QED  BY <2>1, <1>1, NextTrade
<1>4. Total(PendingOf(id, active')) <= Total(PendingOf(id, active))
  <2>1. PICK call \in Calls, next \in Calls \cup {None}, part \in Nat :
           call = active /\ next = active' /\ part = active.part
    BY <1>1, <1>2
  <2>2. ASSUME next # None, NEW n \in 1 .. Len(call.trades), Waits(next, n)
        PROVE  Waits(call, n)
    <3>1. call.trades \in Seq(Trade)
      BY DEF Calls
    <3>2. n \in Nat
      BY <3>1
    <3>3. n > part + 1 \/ n = part + 1
      BY <2>1, <2>2, <1>3 DEF Waits
    <3>4. n > part
      BY <3>2, <3>3
    <3> QED  BY <3>4, <2>1 DEF Waits
  <2>3. call # None /\ call.part > 0
    BY <2>1
  <2>4. next # None => next.trades = call.trades
    BY <2>1, <1>3
  <2>5. Total(PendingOf(id, next)) <= Total(PendingOf(id, call))
    BY <2>2, <2>3, <2>4, PendingShrinks
  <2> QED  BY <2>1, <2>5
<1>5. book' = book
  BY DEF TradeAnswered
<1> QED  BY <1>4, <1>5, AccountNumbers

(* A trade's append takes it from the trades to append to the log's.       *)
LEMMA AppendedShrinks ==
    ASSUME IInv, IInv', active # None, active.stage = "append",
           active' = [active EXCEPT !.stage = "commit"], book' = book,
           NEW p, Len(log') # Rest(p), log'[Len(log')].event = TheEvent, NEW id
    PROVE  Shrinks(id, p)
<1>1. PICK call \in Calls, trades \in Seq(Trade), part \in Nat :
         call = active /\ trades = active.trades /\ part = active.part
  BY DEF IInv, ActiveSound, Calls
<1>2. PICK next \in Calls \cup {None} : next = active'
  BY CallTypes
<1>3. next.trades = trades /\ next.part = part /\ next.stage = "commit"
  BY <1>1, <1>2 DEF Calls
<1>4. Gains(id, p) = LotsTraded(id, TheEvent)
  BY DEF Gains
<1>5. PICK q \in Nat, q2 \in Nat, r \in Nat :
         q = Total(PendingOf(id, call)) /\ q2 = Total(PendingOf(id, next)) /\ r = LotsResting(id, book)
  BY <1>1, <1>2, AccountNumbers
<1>6. CASE part = 0
  <2>1. TheEvent.type # "TradeExecuted"
    BY <1>1, <1>6, KeyAndEvent
  <2>2. Gains(id, p) = 0
    BY <2>1, <1>4 DEF LotsTraded
  <2>3. q2 = 0
    BY <1>2, <1>3, <1>5, <1>6, PendingTypes
  <2>4. 0 + (q2 + r) <= q + r
    BY <2>3
  <2> QED  BY <2>2, <2>4, <1>1, <1>2, <1>5 DEF Shrinks
<1>7. CASE part # 0
  <2>1. part > 0 /\ part \in 1 .. Len(trades)
    <3>1. part \in 0 .. Len(trades)
      BY <1>1 DEF IInv, ActiveSound
    <3> QED  BY <3>1, <1>7
  <2>2. TheEvent = TradeExecuted(trades[part])
    BY <1>1, <1>7 DEF TheEvent, ItsTrade
  <2>3. PICK g \in Nat : g = Lots(id, trades[part]) /\ Gains(id, p) = g
    <3>1. Lots(id, trades[part]) \in Nat
      BY <2>1, LotsTypes
    <3>2. LotsTraded(id, TheEvent) = Lots(id, trades[part])
      BY <2>2 DEF LotsTraded, TradeExecuted
    <3> QED  BY <3>1, <3>2, <1>4
  <2> DEFINE v == PendingOf(id, call)
             w == PendingOf(id, next)
  <2>4. /\ v \in Seq(Nat) /\ Len(v) = Len(trades)
        /\ \A n \in 1 .. Len(trades) : v[n] = IF Waits(call, n) THEN Lots(id, trades[n]) ELSE 0
    BY <2>1, <1>1, PendingTypes
  <2>5. CASE next = None
    <3>1. q2 = 0
      BY <2>5, <1>5, PendingTypes
    <3>2. g <= q
      <4>1. v[part] = g
        BY <2>1, <2>3, <2>4, <1>1 DEF Waits
      <4>2. v[part] <= Total(v)
        <5> HIDE DEF v
        <5> DEFINE f == [i \in 1 .. 1 |-> part]
                   u == <<v[part]>>
        <5>1. u \in Seq(Nat) /\ Len(u) = 1 /\ u[1] = v[part] /\ v[part] \in Nat
          BY <2>1, <2>4
        <5>2. f \in [1 .. 1 -> 1 .. Len(v)] /\ f[1] = part
          BY <2>1, <2>4
        <5> HIDE DEF u, f
        <5>3. Total(u) <= Total(v)
          <6>1. \A i \in 1 .. 1 : i = 1
            OBVIOUS
          <6>2. \A i, j \in 1 .. 1 : i < j => f[i] < f[j]
            BY <6>1
          <6>3. \A i \in 1 .. 1 : u[i] <= v[f[i]]
            BY <6>1, <5>1, <5>2
          <6> QED  BY <6>2, <6>3, <5>1, <5>2, <2>4, TotalSelected
        <5>4. Total(u) = Total(<< >>) + u[1]
          <6> DEFINE z == << >>
          <6>1. z \in Seq(Nat) /\ Len(z) = 0
            OBVIOUS
          <6> HIDE DEF z
          <6>2. u \in Seq(Nat) /\ z \in Seq(Nat) /\ Len(u) = Len(z) + 1 /\ \A j \in 1 .. Len(z) : z[j] = u[j]
            BY <6>1, <5>1
          <6>3. Total(u) = Total(z) + u[Len(u)]
            BY ONLY <6>2, TotalOfLast
          <6> QED  BY <6>3, <5>1 DEF z
        <5>5. Total(u) = v[part]
          BY <5>1, <5>4, TotalOfNone
        <5> QED  BY <5>3, <5>5
      <4> QED  BY <4>1, <4>2, <1>5
    <3>3. g + (q2 + r) <= q + r
      BY ONLY <3>1, <3>2, g \in Nat, q \in Nat, r \in Nat
    <3> QED  BY <3>3, <2>3, <1>1, <1>2, <1>5 DEF Shrinks
  <2>6. CASE next # None
    <3>1. /\ w \in Seq(Nat) /\ Len(w) = Len(trades)
          /\ \A n \in 1 .. Len(trades) : w[n] = IF Waits(next, n) THEN Lots(id, trades[n]) ELSE 0
      BY <2>1, <2>6, <1>3, PendingTypes
    <3>2. v[part] = g /\ w[part] = 0
      BY <2>1, <2>3, <2>4, <3>1, <1>1, <1>3 DEF Waits
    <3>3. \A n \in 1 .. Len(trades) : n # part => w[n] = v[n]
      BY <2>4, <3>1, <1>1, <1>3 DEF Waits
    <3> HIDE DEF v, w
    <3>4. Total(v) + w[part] = Total(w) + v[part]
      <4>1. /\ v \in Seq(Nat) /\ w \in Seq(Nat) /\ Len(w) = Len(v) /\ part \in 1 .. Len(v)
            /\ \A n \in 1 .. Len(v) : n # part => w[n] = v[n]
        BY <2>1, <2>4, <3>1, <3>3
      <4> QED  BY ONLY <4>1, TotalChanged
    <3>5. q + 0 = q2 + g
      BY <3>2, <3>4, <1>5 DEF v, w
    <3>6. g + (q2 + r) <= q + r
      BY <3>5
    <3> QED  BY <3>6, <2>3, <1>1, <1>2, <1>5 DEF Shrinks
  <2> QED  BY <2>5, <2>6
<1> QED  BY <1>6, <1>7

(* An order's own trades and what it leaves are its quantity; the trades   *)
(* of its makers come out of what rested.                                  *)
LEMMA OutcomeLots ==
    ASSUME NEW id, NEW b, SoundBook(b), NEW order \in LimitOrder
    PROVE  Total(LotsOf(id, PlaceOutcome(order, b).trades)) + LotsResting(id, BookAfterPlace(order, b))
             <= LotsResting(id, b) + (IF order.order_id = id THEN order.quantity ELSE 0)
<1> DEFINE side   == Opposite(order.side)
           makers == b[side]
<1>1. side \in Sides /\ order.quantity \in Nat
  BY DEF LimitOrder, Sides, Opposite
<1>2. SoundQueue(side, makers)
  BY <1>1 DEF SoundBook
<1>3. PICK trades \in Seq(Trade) :
         trades = PlaceOutcome(order, b).trades /\ trades = TradesWith(order, makers)
  BY <1>2, TradesSound DEF PlaceOutcome, Accepted
<1>4. PICK left \in Nat : /\ left = PlaceOutcome(order, b).remaining_quantity
                          /\ left = order.quantity - Quantity(trades)
                          /\ Quantity(trades) \in 0 .. order.quantity
  BY <1>3, OutcomeAddsUp
<1>5. \A n \in 1 .. Len(trades) : trades[n].taker_order_id = order.order_id
  <2>1. ASSUME NEW n \in 1 .. Len(trades)
        PROVE  trades[n].taker_order_id = order.order_id
    <3>1. trades[n] = TradeOf(makers[n], order, makers[n].price, Fills(order, makers)[n])
      BY <1>2, <1>3, TradesSound
    <3> QED  BY <3>1 DEF TradeOf
  <2> QED  BY <2>1
<1>6. /\ LotsOf(id, trades) \in Seq(Nat) /\ Len(LotsOf(id, trades)) = Len(trades)
      /\ \A n \in 1 .. Len(trades) :
            /\ trades[n] \in Trade
            /\ LotsOf(id, trades)[n] = Lots(id, trades[n])
  BY LotsTypes
<1>7. /\ MadeBy(id, trades) \in Seq(Nat) /\ Len(MadeBy(id, trades)) = Len(trades)
      /\ \A n \in 1 .. Len(trades) :
            MadeBy(id, trades)[n] = IF trades[n].maker_order_id = id THEN trades[n].quantity ELSE 0
  BY MadeByTypes
<1>8. PICK l \in Nat, m \in Nat : l = Total(LotsOf(id, trades)) /\ m = Total(MadeBy(id, trades))
  BY LotsTypes, MadeByTypes
<1>9. PICK r \in Nat, r2 \in Nat : r = LotsResting(id, b) /\ r2 = LotsResting(id, BookAfterPlace(order, b))
  BY PlaceKeepsSound, RestingInBook
<1> HIDE DEF makers, side
<1>10. m + r2 <= r + (IF order.order_id = id THEN left ELSE 0)
  BY <1>3, <1>4, <1>8, <1>9, PlaceRests
<1>11. CASE order.order_id = id
  <2>1. LotsOf(id, trades) = [n \in DOMAIN trades |-> trades[n].quantity]
    <3>1. DOMAIN trades = 1 .. Len(trades)
      OBVIOUS
    <3>2. \A n \in DOMAIN trades : Lots(id, trades[n]) = trades[n].quantity
      BY <3>1, <1>5, <1>11 DEF Lots
    <3> QED  BY <3>2 DEF LotsOf
  <2>2. l = Quantity(trades)
    BY <2>1, <1>8 DEF Quantity
  <2>3. m + r2 <= r + left /\ left = order.quantity - l
    BY <2>2, <1>4, <1>10, <1>11
  <2>4. l + r2 <= r + order.quantity
    BY <2>3, <1>1
  <2> QED  BY <2>4, <1>3, <1>8, <1>9, <1>11
<1>12. CASE order.order_id # id
  <2>1. \A n \in 1 .. Len(trades) : LotsOf(id, trades)[n] = MadeBy(id, trades)[n]
    BY <1>5, <1>6, <1>7, <1>12 DEF Lots
  <2>2. LotsOf(id, trades) = MadeBy(id, trades)
    BY <2>1, <1>6, <1>7
  <2>3. l + r2 <= r + 0
    BY <2>2, <1>8, <1>10, <1>12
  <2> QED  BY <2>3, <1>3, <1>8, <1>9, <1>12
<1> QED  BY <1>11, <1>12

(* Steps that append nothing and end the call, or leave it as it is.       *)
LEMMA GivenUpAccount ==
    ASSUME IInv, IInv', Account, NEW r, GiveUp(r), book' = book \/ book' = EmptyBook
    PROVE  Account'
<1>1. LogInv /\ Types /\ Len(log) \in Nat
  BY DEF IInv, LogInv, Types
<1>2. submitted' = submitted /\ runs' = runs /\ active' = None
  BY DEF GiveUp, Answer
<1>3. \E p : EntriesKept(p) /\ EntryAdded(p) /\ Len(log') = Rest(p)
  <2>1. CASE log' = log
    BY <2>1, <1>1, LogUntouched, NothingGoes
  <2>2. CASE \E i \in OpenAt(TheKey) : log' = RemoveAt(log, i)
    <3>1. PICK i \in DOMAIN log : log[i].open /\ log' = RemoveAt(log, i)
      BY <2>2 DEF OpenAt
    <3> QED  BY <3>1, <1>1, LogRemoved
  <2> QED  BY <2>1, <2>2 DEF GiveUp
<1>4. PICK p : EntriesKept(p) /\ EntryAdded(p) /\ Len(log') = Rest(p)
  BY <1>3
<1>5. Past(p)
  BY <1>2, <1>4 DEF Past, SentKept, RunsKept
<1>6. \A id \in OrderIds : Shrinks(id, p)
  <2> TAKE id \in OrderIds
  <2>1. Total(PendingOf(id, active')) <= Total(PendingOf(id, active))
    BY <1>2, EndedCall
  <2>2. LotsResting(id, book') <= LotsResting(id, book)
    <3>1. LotsResting(id, book) \in Nat
      BY AccountNumbers
    <3> QED  BY <3>1, NothingRests
  <2> QED  BY <1>4, <1>5, <2>1, <2>2, ShrinksSilently
<1> QED  BY <1>5, <1>6, AccountKept

LEMMA SettledAccount ==
    ASSUME IInv, IInv', Account, NEW p, Past(p), Len(log') = Rest(p),
           active' = active, book' = book
    PROVE  Account'
<1>1. \A id \in OrderIds : Shrinks(id, p)
  <2> TAKE id \in OrderIds
  <2>1. PICK q \in Nat, r \in Nat : q = Total(PendingOf(id, active)) /\ r = LotsResting(id, book)
    BY AccountNumbers
  <2>2. q <= q /\ r <= r
    OBVIOUS
  <2> QED  BY <2>1, <2>2, ShrinksSilently
<1> QED  BY <1>1, AccountKept

LEMMA OrphanAccount ==
    ASSUME IInv, IInv', Account, OrphanEnds
    PROVE  Account'
<1>1. /\ LogInv /\ Len(log) \in Nat
      /\ book' = book /\ submitted' = submitted /\ active' = active /\ runs' = runs
  BY DEF IInv, LogInv, Types, OrphanEnds
<1>2. PICK i \in DOMAIN log : Orphan(i) /\ log' \in {Close(i), RemoveAt(log, i)}
  BY DEF OrphanEnds
<1>3. log[i].open
  BY <1>2 DEF Orphan
<1>4. \E p : EntriesKept(p) /\ EntryAdded(p) /\ Len(log') = Rest(p)
  <2>1. CASE log' = Close(i)
    BY <2>1, <1>1, LogClosed, NothingGoes
  <2>2. CASE log' = RemoveAt(log, i)
    BY <2>2, <1>1, <1>3, LogRemoved
  <2> QED  BY <2>1, <2>2, <1>2
<1>5. PICK p : EntriesKept(p) /\ EntryAdded(p) /\ Len(log') = Rest(p)
  BY <1>4
<1>6. Past(p)
  BY <1>1, <1>5 DEF Past, SentKept, RunsKept
<1> QED  BY <1>1, <1>5, <1>6, SettledAccount

LEMMA RestoreAccount ==
    ASSUME IInv, IInv', Account, Restore
    PROVE  Account'
<1>1. /\ Len(log) \in Nat /\ LogInv /\ log' = log /\ runs' = runs /\ active' = active
      /\ submitted' = submitted
  BY DEF IInv, LogInv, Types, Restore
<1>2. SentKept
  BY <1>1 DEF SentKept
<1>3. Past(Len(log) + 1) /\ Len(log') = Rest(Len(log) + 1)
  BY <1>1, <1>2, PastUntouched
<1>4. book' = book \/ book' = EmptyBook
  BY <1>1, RestoredIsEmpty DEF Restore
<1>5. \A id \in OrderIds : Shrinks(id, Len(log) + 1)
  <2> TAKE id \in OrderIds
  <2>1. PICK q \in Nat, r \in Nat : q = Total(PendingOf(id, active)) /\ r = LotsResting(id, book)
    BY AccountNumbers
  <2>2. Total(PendingOf(id, active')) <= Total(PendingOf(id, active))
    BY <2>1, <1>1
  <2>3. LotsResting(id, book') <= LotsResting(id, book)
    BY <2>1, <1>4, NothingRests
  <2> QED  BY <1>3, <2>2, <2>3, ShrinksSilently
<1> QED  BY <1>3, <1>5, AccountKept

(* The append of an event.                                                 *)
LEMMA AppendAccount ==
    ASSUME IInv, IInv', Account, AppendEvent
    PROVE  Account'
<1>1. /\ LogInv /\ Len(log) \in Nat /\ DOMAIN log = 1 .. Len(log)
      /\ active # None /\ active.stage = "append" /\ active \in Calls
      /\ submitted' = submitted
  BY DEF IInv, LogInv, Types, ActiveSound, AppendEvent
<1>2. PICK k \in CommandIds, n \in Nat : k = active.command_id /\ n = active.part
  BY <1>1 DEF Calls
<1>3. SentKept
  BY <1>1 DEF SentKept
<1>4. CASE ~ Logged(TheKey)
  <2> DEFINE entry == [key |-> TheKey, event |-> TheEvent, open |-> TRUE]
  <2>1. /\ log' = Append(log, entry)
        /\ active' = [active EXCEPT !.stage = "commit"]
        /\ book' = book /\ runs' = runs
    BY <1>4 DEF AppendEvent
  <2>2. entry \in Entries /\ entry.key = TheKey /\ entry.event = TheEvent
    BY <1>1, KeyAndEvent DEF Entries
  <2>3. \A i \in DOMAIN log : log[i].key # TheKey
    BY <1>4 DEF AppendEvent, OpenAt, Logged, ClosedAt
  <2>4. IsFirstEvent(entry) => TheKey = k /\ submitted'[k] # None
    <3>1. entry.event.type # "TradeExecuted" => active.part = 0
      BY <1>1, <1>2, <2>2, KeyAndEvent
    <3> QED  BY <3>1, <1>1, <1>2, KeyAndEvent DEF IsFirstEvent, IInv, ActiveSound
  <2> HIDE DEF entry
  <2>5. /\ Len(log') = Len(log) + 1 /\ log'[Len(log')] = entry
        /\ EntriesKept(Len(log) + 1) /\ EntryAdded(Len(log) + 1)
    BY <1>1, <2>1, <2>2, <2>3, <2>4, LogAppended
  <2>6. Past(Len(log) + 1)
    BY <2>1, <2>5, <1>3 DEF Past, RunsKept
  <2>7. Len(log') # Rest(Len(log) + 1)
    BY <2>5, <1>1, NothingGoes
  <2>8. log'[Len(log')].event = TheEvent
    BY <2>2, <2>5
  <2>9. \A id \in OrderIds : Shrinks(id, Len(log) + 1)
    BY <2>1, <2>7, <2>8, <1>1, AppendedShrinks
  <2> QED  BY <2>6, <2>9, AccountKept
<1>5. CASE Logged(TheKey)
  <2>1. log' = log /\ runs' = runs /\ book' = book
    BY <1>5 DEF AppendEvent, Retried, TradeAnswered
  <2>2. Past(Len(log) + 1) /\ Len(log') = Rest(Len(log) + 1)
    BY <2>1, <1>1, <1>3, PastUntouched
  <2>3. ASSUME NEW id \in OrderIds
        PROVE  /\ Total(PendingOf(id, active')) <= Total(PendingOf(id, active))
               /\ LotsResting(id, book') <= LotsResting(id, book)
    <3>1. CASE n = 0
      <4>1. active' = None
        BY <3>1, <1>2, <1>5 DEF AppendEvent, Retried, Answer
      <4>2. LotsResting(id, book) \in Nat
        BY AccountNumbers
      <4> QED  BY <4>1, <4>2, <2>1, EndedCall
    <3>2. CASE n # 0
      <4>1. active.part > 0 /\ \E record : TradeAnswered(record)
        BY <3>2, <1>2, <1>5 DEF AppendEvent
      <4> QED  BY <4>1, <1>1, TradeAnsweredShrinks
    <3> QED  BY <3>1, <3>2
  <2>4. \A id \in OrderIds : Shrinks(id, Len(log) + 1)
    BY <2>2, <2>3, ShrinksSilently
  <2> QED  BY <2>2, <2>4, AccountKept
<1> QED  BY <1>4, <1>5

(* The commit of a first event: the entry counts from now on, if the book  *)
(* accepts the command.                                                    *)
LEMMA PlacedRuns ==
    ASSUME LogInv, LogInv', NEW N, N = Len(log), N \in DOMAIN log,
           NEW k \in CommandIds, log[N].open, log[N].key = k, IsFirstEvent(log[N]),
           submitted[k].type = "PlaceOrder", submitted' = submitted,
           Past(N + 1), Len(log') = N, log'[N].key = k, IsFirstEvent(log'[N]),
           AcceptedByBook(k)', NEW id
    PROVE  Total(PlacedIn(id, log, submitted, runs))
             + (IF submitted[k].order.order_id = id THEN submitted[k].order.quantity ELSE 0)
             <= Total(PlacedIn(id, log', submitted', runs'))
<1> DEFINE v == PlacedIn(id, log, submitted, runs)
           w == PlacedIn(id, log', submitted', runs')
           mine == IF submitted[k].order.order_id = id THEN submitted[k].order.quantity ELSE 0
           u == [v EXCEPT ![N] = mine]
<1>1. Len(log) \in Nat /\ DOMAIN log = 1 .. Len(log)
  BY DEF LogInv, Types
<1>2. /\ v \in Seq(Nat) /\ Len(v) = N /\ w \in Seq(Nat) /\ Len(w) = N
      /\ \A i \in 1 .. N : w[i] = PlacedLots(id, log'[i], submitted', runs')
      /\ \A i \in 1 .. N : log[i].open => v[i] = 0
      /\ \A j \in 1 .. Rest(N + 1) : v[From(N + 1, j)] <= w[j]
  BY PlacedByEntries
<1>3. N \in 1 .. N /\ N \in Nat
  BY <1>1
<1>4. Rest(N + 1) = N /\ \A j \in 1 .. N : From(N + 1, j) = j
  BY <1>1, NothingGoes
<1>5. v[N] = 0 /\ \A j \in 1 .. N : v[j] <= w[j]
  BY <1>2, <1>3, <1>4
<1>6. w[N] = mine
  <2>1. w[N] = PlacedLots(id, log'[N], submitted', runs')
    BY <1>2, <1>3
  <2>2. \E n \in DOMAIN runs'[k] : runs'[k][n].error = "None"
    BY DEF AcceptedByBook
  <2>3. PlacedLots(id, log'[N], submitted', runs') = mine
    BY <2>2 DEF PlacedLots
  <2> QED  BY <2>1, <2>3
<1> HIDE DEF v, w, mine
<1>7. mine \in Nat /\ \A j \in 1 .. N : v[j] \in Nat /\ w[j] \in Nat
  <2>1. \A j \in 1 .. Len(v) : v[j] \in Nat
    BY <1>2
  <2>2. \A j \in 1 .. Len(w) : w[j] \in Nat
    BY <1>2
  <2> QED  BY <2>1, <2>2, <1>2, <1>3, <1>6
<1>8. u \in Seq(Nat) /\ Len(u) = N /\ \A j \in 1 .. N : u[j] = IF j = N THEN mine ELSE v[j]
  BY <1>2, <1>3, <1>7, ExceptSeq
<1> HIDE DEF u
<1>9. u[N] = mine /\ \A j \in 1 .. N : j # N => u[j] = v[j]
  BY <1>3, <1>8
<1>10. Total(v) + u[N] = Total(u) + v[N]
  <2>1. /\ v \in Seq(Nat) /\ u \in Seq(Nat) /\ Len(u) = Len(v) /\ N \in 1 .. Len(v)
        /\ \A i \in 1 .. Len(v) : i # N => u[i] = v[i]
    BY <1>2, <1>3, <1>8, <1>9
  <2> QED  BY ONLY <2>1, TotalChanged
<1>11. Total(u) <= Total(w)
  <2>1. \A j \in 1 .. N : u[j] <= w[j]
    <3>1. ASSUME NEW j \in 1 .. N
          PROVE  u[j] <= w[j]
      <4>1. CASE j = N
        BY <4>1, <1>6, <1>7, <1>9
      <4>2. CASE j # N
        BY <4>2, <1>5, <1>9
      <4> QED  BY <4>1, <4>2
    <3> QED  BY <3>1
  <2> QED  BY <2>1, <1>2, <1>8, TotalGrows
<1>12. PICK a \in Nat, b \in Nat : a = Total(v) /\ b = Total(u)
  BY <1>2, <1>8, TotalSums, TotalIs
<1>13. a + mine = b
  <2>1. a + mine = b + 0
    BY <1>5, <1>9, <1>10, <1>12
  <2> QED  BY <2>1, <1>12
<1>14. Total(v) + mine <= Total(w)
  BY <1>11, <1>12, <1>13
<1> QED  BY <1>14 DEF v, w, mine

(* What the call is about to append is what the command matched.           *)
LEMMA FirstTrades ==
    ASSUME IInv', active \in Calls, NEW trades \in Seq(Trade), NEW remaining, NEW records,
           PersistNext(0, trades, remaining, records), NEW id
    PROVE  Total(PendingOf(id, active')) <= Total(LotsOf(id, trades))
<1>1. PICK next \in Calls \cup {None} : next = active'
  BY CallTypes
<1>2. next = None \/ (next.part = 1 /\ next.trades = trades)
  BY <1>1, NextTrade
<1>3. PICK l \in Nat : l = Total(LotsOf(id, trades))
  BY LotsTypes
<1>4. CASE next = None
  BY <1>1, <1>3, <1>4, PendingTypes
<1>5. CASE next # None
  <2> DEFINE v == LotsOf(id, trades)
             w == PendingOf(id, next)
  <2>1. /\ w \in Seq(Nat) /\ Len(w) = Len(trades)
        /\ \A n \in 1 .. Len(trades) : w[n] = IF Waits(next, n) THEN Lots(id, trades[n]) ELSE 0
    BY <1>2, <1>5, PendingTypes
  <2>2. /\ v \in Seq(Nat) /\ Len(v) = Len(trades)
        /\ \A n \in 1 .. Len(trades) : Lots(id, trades[n]) \in Nat /\ v[n] = Lots(id, trades[n])
    BY LotsTypes
  <2> HIDE DEF v, w
  <2>3. ASSUME NEW n \in 1 .. Len(trades)
        PROVE  w[n] <= v[n]
    <3>1. PICK lots \in Nat : lots = Lots(id, trades[n])
      BY <2>2
    <3>2. v[n] = lots /\ (w[n] = lots \/ w[n] = 0)
      BY <3>1, <2>1, <2>2
    <3> QED  BY <3>2
  <2>4. Total(w) <= Total(v)
    BY <2>1, <2>2, <2>3, TotalGrows
  <2> QED  BY <2>4, <1>1 DEF v, w
<1> QED  BY <1>4, <1>5

(* The command reaches the book.                                           *)
LEMMA RunAccount ==
    ASSUME IInv, IInv', Account, EventCommitted, active.part = 0
    PROVE  Account'
<1> DEFINE N == Len(log)
<1>1. /\ LogInv /\ LogInv' /\ Types /\ Types' /\ N \in Nat /\ DOMAIN log = 1 .. N /\ SoundBook(book)
      /\ active # None /\ active.stage = "commit" /\ active \in Calls
      /\ Committing
      /\ submitted' = submitted /\ boot' = boot
  BY DEF IInv, LogInv, Types, ActiveSound, EventCommitted
<1>2. PICK k \in CommandIds : k = active.command_id
  BY <1>1 DEF Calls
<1>3. submitted[k] # None /\ submitted[k] \in Commands
  BY <1>1, <1>2 DEF IInv, ActiveSound, Types
<1>4. /\ TheKey = k /\ TheEvent = FirstEvent(k) /\ FirstEvent(k).type # "TradeExecuted"
      /\ RunCommand(k)
  BY <1>1, <1>2, KeyAndEvent DEF EventCommitted
<1>5. /\ log # << >> /\ N \in DOMAIN log /\ log' = Close(N)
      /\ log[N] = [key |-> k, event |-> FirstEvent(k), open |-> TRUE]
  <2>1. PICK i \in OpenAt(TheKey) : log' = Close(i)
    BY DEF EventCommitted
  <2>2. i \in DOMAIN log /\ log[i].key = TheKey
    BY <2>1 DEF OpenAt
  <2>3. /\ log # << >> /\ log[N] = [key |-> TheKey, event |-> TheEvent, open |-> TRUE]
    BY <1>1 DEF Committing
  <2>4. N \in DOMAIN log
    <3>1. i \in 1 .. N
      BY <1>1, <2>2
    <3>2. N \in 1 .. N
      BY <1>1, <3>1
    <3> QED  BY <1>1, <3>2
  <2>5. i = N
    BY <1>1, <2>2, <2>3, <2>4 DEF LogInv, KeysDistinct
  <2> QED  BY <1>4, <2>1, <2>3, <2>4, <2>5
<1>6. /\ Len(log') = N /\ log'[N].key = log[N].key /\ log'[N].event = log[N].event
      /\ EntriesKept(N + 1) /\ EntryAdded(N + 1)
  BY <1>1, <1>5, LogClosed
<1>7. Len(log') = Rest(N + 1)
  BY <1>1, <1>6, NothingGoes
<1>8. CASE submitted[k].type = "PlaceOrder"
  <2> DEFINE order == submitted[k].order
  <2>1. PICK error : error = PlaceError(order, RestingIds(book))
    OBVIOUS
  <2>2. error \in Errors \cup {"None"} /\ order \in LimitOrder
    BY <2>1, <1>1, <1>3, <1>8, BookTypes
  <2>3. /\ Ran(k, error)
        /\ error = "None" => /\ book' = BookAfterPlace(order, book)
                             /\ PersistNext(0, PlaceOutcome(order, book).trades,
                                    PlaceOutcome(order, book).remaining_quantity, << >>)
        /\ error # "None" => active' = None /\ book' = book
    BY <2>1, <1>4, <1>8 DEF RunCommand, RunPlaceOrder, Answer
  <2>4. Past(N + 1) /\ (AcceptedByBook(k)' <=> error = "None")
    BY <1>1, <1>3, <1>4, <1>5, <2>2, <2>3, CommandRuns
  <2>5. CASE error # "None"
    <3>1. \A id \in OrderIds : Shrinks(id, N + 1)
      <4> TAKE id \in OrderIds
      <4>1. Total(PendingOf(id, active')) <= Total(PendingOf(id, active))
        BY <2>3, <2>5, EndedCall
      <4>2. LotsResting(id, book') <= LotsResting(id, book)
        <5>1. LotsResting(id, book) \in Nat
          BY AccountNumbers
        <5> QED  BY <5>1, <2>3, <2>5
      <4> QED  BY <4>1, <4>2, <1>7, <2>4, ShrinksSilently
    <3> QED  BY <2>4, <3>1, AccountKept
  <2>6. CASE error = "None"
    <3>1. PICK trades \in Seq(Trade) : trades = PlaceOutcome(order, book).trades
      BY <2>2, <1>1, OutcomeAddsUp
    <3>2. PICK remaining, records : PersistNext(0, trades, remaining, records)
      BY <2>3, <2>6, <3>1
    <3>3. book' = BookAfterPlace(order, book)
      BY <2>3, <2>6
    <3>4. IsFirstEvent(log[N]) /\ IsFirstEvent(log'[N])
      BY <1>4, <1>5, <1>6 DEF IsFirstEvent
    <3>5. ASSUME NEW id \in OrderIds
          PROVE  Total(TradedIn(id, log')) + (Total(PendingOf(id, active')) + LotsResting(id, book'))
                   <= Total(PlacedIn(id, log', submitted', runs'))
      <4> DEFINE mine == IF order.order_id = id THEN order.quantity ELSE 0
      <4>1. mine \in Nat
        BY <2>2 DEF LimitOrder
      <4>2. PICK t \in Nat, t2 \in Nat :
               t = Total(TradedIn(id, log)) /\ t2 = Total(TradedIn(id, log')) /\ t2 <= t + 0
        BY <1>1, <1>7, <2>4, TradedKept DEF Gains
      <4>3. PICK q \in Nat, q2 \in Nat, r \in Nat, r2 \in Nat :
               /\ q = Total(PendingOf(id, active)) /\ q2 = Total(PendingOf(id, active'))
               /\ r = LotsResting(id, book) /\ r2 = LotsResting(id, book')
        BY AccountNumbers
      <4>4. PICK l \in Nat : l = Total(LotsOf(id, trades))
        BY LotsTypes
      <4>5. PICK a \in Nat, a2 \in Nat :
               /\ a = Total(PlacedIn(id, log, submitted, runs))
               /\ a2 = Total(PlacedIn(id, log', submitted', runs'))
        BY <1>1, <2>4, PlacedByEntries
      <4>6. a + mine <= a2
        <5>1. /\ LogInv /\ LogInv' /\ N = Len(log) /\ N \in DOMAIN log
              /\ log[N].open /\ log[N].key = k /\ IsFirstEvent(log[N])
              /\ submitted[k].type = "PlaceOrder" /\ submitted' = submitted
              /\ Past(N + 1) /\ Len(log') = N /\ log'[N].key = k /\ IsFirstEvent(log'[N])
              /\ AcceptedByBook(k)'
          BY <1>1, <1>4, <1>5, <1>6, <1>8, <2>4, <2>6, <3>4
        <5> HIDE DEF N, mine
        <5>2. Total(PlacedIn(id, log, submitted, runs))
                + (IF submitted[k].order.order_id = id THEN submitted[k].order.quantity ELSE 0)
                <= Total(PlacedIn(id, log', submitted', runs'))
          BY ONLY <5>1, PlacedRuns, k \in CommandIds
        <5> QED  BY <5>2, <4>5 DEF mine
      <4>7. l + r2 <= r + mine
        BY <4>3, <4>4, <3>1, <3>3, <2>2, <1>1, OutcomeLots
      <4>8. q2 <= l
        BY <4>3, <4>4, <3>2, <1>1, FirstTrades
      <4>9. t + (q + r) <= a
        BY <4>2, <4>3, <4>5 DEF Account
      <4> HIDE DEF mine
      <4>10. t2 + (q2 + r2) <= a2
        <5>1. t2 <= t
          BY <4>2
        <5> QED  BY ONLY <5>1, <4>1, <4>6, <4>7, <4>8, <4>9
      <4> QED  BY <4>2, <4>3, <4>5, <4>10
    <3> QED  BY <3>5 DEF Account
  <2> QED  BY <2>5, <2>6
<1>9. CASE submitted[k].type # "PlaceOrder"
  <2> DEFINE canceled == submitted[k].order_id
  <2>1. PICK error : error = IF canceled \in RestingIds(book) THEN "None" ELSE "OrderNotFound"
    OBVIOUS
  <2>2. error \in Errors \cup {"None"}
    BY <2>1 DEF Errors
  <2>3. Ran(k, error) /\ book' = BookAfterCancel(canceled, book) /\ active' = None
    BY <2>1, <1>4, <1>9 DEF RunCommand, RunCancelOrder, Answer
  <2>4. Past(N + 1)
    BY <1>1, <1>3, <1>4, <1>5, <2>2, <2>3, CommandRuns
  <2>5. \A id \in OrderIds : Shrinks(id, N + 1)
    <3> TAKE id \in OrderIds
    <3>1. Total(PendingOf(id, active')) <= Total(PendingOf(id, active))
      BY <2>3, EndedCall
    <3>2. LotsResting(id, book') <= LotsResting(id, book)
      BY <2>3, <1>1, CancelRests
    <3> QED  BY <3>1, <3>2, <1>7, <2>4, ShrinksSilently
  <2> QED  BY <2>4, <2>5, AccountKept
<1> QED  BY <1>8, <1>9

(* A trade's COMMIT is answered.                                           *)
LEMMA TradeAccount ==
    ASSUME IInv, IInv', Account, EventCommitted, active.part # 0
    PROVE  Account'
<1>1. /\ LogInv /\ Len(log) \in Nat /\ active # None /\ active \in Calls /\ active.part \in Nat
      /\ submitted' = submitted
  BY DEF IInv, LogInv, Types, ActiveSound, EventCommitted, Calls
<1>2. active.part > 0 /\ TradeAnswered(TheEvent) /\ runs' = runs
  BY <1>1 DEF EventCommitted, TradeAnswered
<1>3. PICK i \in DOMAIN log : log' = Close(i)
  BY DEF EventCommitted, OpenAt
<1>4. EntriesKept(Len(log) + 1) /\ EntryAdded(Len(log) + 1) /\ Len(log') = Rest(Len(log) + 1)
  BY <1>1, <1>3, LogClosed, NothingGoes
<1>5. Past(Len(log) + 1)
  BY <1>1, <1>2, <1>4 DEF Past, SentKept, RunsKept
<1>6. \A id \in OrderIds : Shrinks(id, Len(log) + 1)
  <2> TAKE id \in OrderIds
  <2>1. /\ Total(PendingOf(id, active')) <= Total(PendingOf(id, active))
        /\ LotsResting(id, book') <= LotsResting(id, book)
    BY <1>1, <1>2, TradeAnsweredShrinks
  <2> QED  BY <2>1, <1>4, <1>5, ShrinksSilently
<1> QED  BY <1>5, <1>6, AccountKept

LEMMA StepAccount ==
    ASSUME IInv, IInv', Account, [Next]_vars
    PROVE  Account'
<1>1. ASSUME NEW k \in CommandIds, Handle(k) PROVE Account'
  BY <1>1, CallAccount DEF Handle
<1>2. CASE AppendEvent
  BY <1>2, AppendAccount
<1>3. CASE EventCommitted
  BY <1>3, RunAccount, TradeAccount
<1>4. CASE Drop \/ Fail
  <2>1. CASE Drop
    BY <2>1, GivenUpAccount DEF Drop
  <2>2. CASE Fail
    <3>1. PICK r : r = Refused(active.command_id, "EventLog")
      OBVIOUS
    <3>2. GiveUp(r) /\ book' = book
      BY <2>2, <3>1 DEF Fail
    <3> QED  BY <3>2, GivenUpAccount
  <2> QED  BY <1>4, <2>1, <2>2
<1>5. CASE Crash
  BY <1>5, GivenUpAccount DEF Crash, StartAgain
<1>6. CASE OrphanEnds
  BY <1>6, OrphanAccount
<1>7. CASE Restore
  BY <1>7, RestoreAccount
<1>8. CASE UNCHANGED vars
  <2>1. /\ LogInv /\ log' = log /\ runs' = runs /\ active' = active /\ book' = book
        /\ submitted' = submitted
    BY <1>8 DEF vars, IInv
  <2>2. Past(Len(log) + 1) /\ Len(log') = Rest(Len(log) + 1)
    BY <2>1, PastUntouched DEF SentKept
  <2> QED  BY <2>1, <2>2, SettledAccount
<1> QED  BY <1>1, <1>2, <1>3, <1>4, <1>5, <1>6, <1>7, <1>8 DEF Next

LEMMA InitAccount ==
    ASSUME Init
    PROVE  Account
<1>1. log = << >> /\ active = None /\ book = EmptyBook
  BY DEF Init
<1>2. ASSUME NEW id \in OrderIds
      PROVE  Total(TradedIn(id, log)) + (Total(PendingOf(id, active)) + LotsResting(id, book))
               <= Total(PlacedIn(id, log, submitted, runs))
  <2>1. TradedIn(id, log) = << >> /\ PlacedIn(id, log, submitted, runs) = << >>
    BY <1>1 DEF TradedIn, PlacedIn
  <2>2. PendingOf(id, active) = << >>
    BY <1>1 DEF PendingOf
  <2>3. LotsResting(id, book) = 0
    BY <1>1, NothingRests
  <2> QED  BY <2>1, <2>2, <2>3, TotalOfNone
<1> QED  BY <1>2 DEF Account

(* Of every order id the log's trades, the trades still to be appended and *)
(* what rests are covered by what was placed.                              *)
THEOREM AccountBalances == Spec => []Account
<1>1. Init => Account
  BY InitAccount
<1>2. IInv /\ IInv' /\ Account /\ [Next]_vars => Account'
  BY StepAccount
<1> QED  BY <1>1, <1>2, Invariance, PTL DEF Spec

(* No order trades more lots in the log than were placed under its id.     *)
THEOREM NoMoreThanPlaced == Spec => []NoOverfill
<1>1. IInv /\ Account => NoOverfill
  <2> SUFFICES ASSUME IInv, Account PROVE NoOverfill
    OBVIOUS
  <2>1. Types /\ FirstEventsSent /\ DOMAIN log = 1 .. Len(log) /\ log \in Seq(Entries)
    BY DEF IInv, LogInv, Types
  <2>2. ASSUME NEW id \in OrderIds
        PROVE  Total([i \in DOMAIN log |-> LotsTraded(id, log[i].event)])
                 <= Total([i \in DOMAIN log |-> LotsPlaced(id, log[i])])
    <3>1. TradedIn(id, log) = [i \in DOMAIN log |-> LotsTraded(id, log[i].event)]
      BY DEF TradedIn
    <3>2. PlacedIn(id, log, submitted, runs) = [i \in DOMAIN log |-> LotsPlaced(id, log[i])]
      BY DEF PlacedIn, PlacedLots, LotsPlaced, AcceptedByBook
    <3>3. PICK t \in Nat, a \in Nat :
             t = Total(TradedIn(id, log)) /\ a = Total(PlacedIn(id, log, submitted, runs))
      BY <2>1, TradedTypes, PlacedTypes DEF Types, FirstEventsSent
    <3>4. active \in Calls \cup {None} /\ SoundBook(book)
      BY DEF IInv, ActiveSound
    <3>5. PICK q \in Nat, r \in Nat : q = Total(PendingOf(id, active)) /\ r = LotsResting(id, book)
      BY <3>4, PendingTypes, RestingInBook
    <3>6. t + (q + r) <= a
      BY <3>3, <3>5 DEF Account
    <3>7. t <= a
      BY <3>6
    <3> QED  BY <3>1, <3>2, <3>3, <3>7
  <2> QED  BY <2>2 DEF NoOverfill
<1> QED  BY <1>1, Invariance, AccountBalances, PTL
===============================================================================
