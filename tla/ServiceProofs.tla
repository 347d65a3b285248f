------------------------------ MODULE ServiceProofs -----------------------------
(***************************************************************************)
(* Proofs about the two modules that put CommandHandler to use: Boot, for  *)
(* any command ids and clients and any number of boots and failures, and   *)
(* Gateway, for u64 and i64 of any size, any ids and any requests.  What   *)
(* holds of one does not rest on the assumptions of the other.             *)
(*                                                                         *)
(* Both need to know where the orders in the book come from; that is the   *)
(* handler's, and comes first.                                             *)
(***************************************************************************)
EXTENDS Boot, Gateway, CommandHandlerProofs

-------------------------------------------------------------------------------
(* Every order in a replayed book was placed by a command that ran.        *)

(* The orders of the commands among the first m entries that ran.          *)
RunOrders(someBoot, m) ==
    {submitted[log[i].key].order : i \in {j \in 1 .. m :
        RanBy(runs, someBoot, log[j]) /\ submitted[log[j].key].type = "PlaceOrder"}}

LEMMA FirstIsSent ==
    ASSUME IInv, NEW i \in DOMAIN log, IsFirstEvent(log[i])
    PROVE  /\ log[i].key \in CommandIds
           /\ submitted[log[i].key] # None /\ submitted[log[i].key] \in Commands
  BY DEF IInv, LogInv, Types, FirstEventsSent

LEMMA RunOrdersAre ==
    ASSUME IInv, NEW someBoot, NEW m \in 0 .. Len(log)
    PROVE  RunOrders(someBoot, m) \in SUBSET LimitOrder
<1>1. Len(log) \in Nat /\ DOMAIN log = 1 .. Len(log)
  BY DEF IInv, LogInv, Types
<1>2. ASSUME NEW i \in 1 .. m, IsFirstEvent(log[i]), submitted[log[i].key].type = "PlaceOrder"
      PROVE  submitted[log[i].key].order \in LimitOrder
  <2>1. i \in DOMAIN log
    BY <1>1
  <2>2. submitted[log[i].key].order \in Submitted
    BY <2>1, <1>2, FirstIsSent, CommandKinds
  <2> QED  BY <2>2, OrdersAssumption DEF Submitted, LimitOrder
<1> QED  BY <1>2 DEF RunOrders, RanBy

LEMMA BooksPlaced ==
    ASSUME IInv, NEW someBoot, NEW m \in 0 .. Len(log), NEW front, IsFront(front, log, m)
    PROVE  LET b == Books(submitted, runs, someBoot, front)[m]
           IN  SoundBook(b) /\ Placed(b, RunOrders(someBoot, m))
<1> DEFINE B == Books(submitted, runs, someBoot, front)
           Good(n) == SoundBook(B[n]) /\ Placed(B[n], RunOrders(someBoot, n))
           T == {n \in Nat : n <= m => Good(n)}
<1>1. Len(log) \in Nat /\ DOMAIN log = 1 .. Len(log) /\ m \in Nat /\ m <= Len(log)
  BY DEF IInv, LogInv, Types
<1>2. /\ Len(front) \in Nat /\ m <= Len(front)
      /\ \A i \in 1 .. m : front[i] = log[i]
  BY DEF IsFront
<1>3. /\ B[0] = EmptyBook
      /\ \A n \in 1 .. Len(front) :
            B[n] = IF RanBy(runs, someBoot, front[n])
                   THEN After(submitted[front[n].key], B[n - 1]) ELSE B[n - 1]
  BY <1>2, BooksFollow
<1> HIDE DEF B
<1>4. 0 \in T
  <2>1. Placed(EmptyBook, RunOrders(someBoot, 0))
    BY DEF Placed, EmptyBook
  <2>2. Good(0)
    BY <2>1, <1>3, EmptyBookSound
  <2> HIDE DEF Good
  <2> QED  BY <2>2
<1>5. ASSUME NEW n \in T
      PROVE  n + 1 \in T
  <2>1. n \in Nat /\ n + 1 \in Nat
    OBVIOUS
  <2> SUFFICES ASSUME n + 1 <= m PROVE Good(n + 1)
    BY <2>1
  <2>2. Good(n)
    BY <2>1
  <2>3. /\ n + 1 \in 1 .. Len(front) /\ n + 1 \in 1 .. m /\ n + 1 \in DOMAIN log
        /\ n \in 0 .. Len(log) /\ n + 1 \in 0 .. Len(log) /\ (n + 1) - 1 = n
    BY <2>1, <1>1, <1>2
  <2> HIDE DEF T
  <2> DEFINE entry == log[n + 1]
             O  == RunOrders(someBoot, n)
             O2 == RunOrders(someBoot, n + 1)
  <2>4. B[n + 1] = IF RanBy(runs, someBoot, entry) THEN After(submitted[entry.key], B[n]) ELSE B[n]
    BY <2>3, <1>2, <1>3
  <2>5. O \in SUBSET LimitOrder /\ O2 \in SUBSET LimitOrder
    BY <2>3, RunOrdersAre
  <2>6. O \subseteq O2
    <3>1. \A i \in 1 .. n : i \in 1 .. n + 1
      BY <2>1
    <3> QED  BY <3>1 DEF RunOrders
  <2>7. ASSUME NEW b, Placed(b, O)
        PROVE  Placed(b, O2)
    BY <2>6, <2>7 DEF Placed
  <2>8. CASE ~ RanBy(runs, someBoot, entry)
    BY <2>2, <2>4, <2>7, <2>8
  <2>9. CASE RanBy(runs, someBoot, entry)
    <3> DEFINE command == submitted[entry.key]
    <3>1. command \in Commands /\ B[n + 1] = After(command, B[n])
      BY <2>3, <2>4, <2>9, FirstIsSent DEF RanBy
    <3>2. CASE command.type = "CancelOrder"
      <4>1. B[n + 1] = BookAfterCancel(command.order_id, B[n])
        BY <3>1, <3>2 DEF After
      <4>2. SoundBook(B[n]) /\ Placed(B[n], O2)
        BY <2>2, <2>7
      <4> QED  BY <4>1, <4>2, CancelKeepsSound, CancelPlaces
    <3>3. CASE command.type # "CancelOrder"
      <4>1. command.type = "PlaceOrder" /\ command.order \in Submitted
        BY <3>1, <3>3, CommandKinds
      <4>2. command.order \in LimitOrder /\ command.order \in O2
        <5>1. command.order \in LimitOrder
          BY <4>1, OrdersAssumption DEF Submitted, LimitOrder
        <5>2. n + 1 \in 1 .. n + 1
          BY <2>1
        <5> QED  BY <5>1, <5>2, <4>1, <2>9 DEF RunOrders
      <4> HIDE DEF command, O, O2
      <4>3. B[n + 1] = IF PlaceError(command.order, RestingIds(B[n])) = "None"
                       THEN BookAfterPlace(command.order, B[n]) ELSE B[n]
        BY <3>1, <3>3 DEF After
      <4>4. SoundBook(B[n]) /\ Placed(B[n], O2)
        BY <2>2, <2>7 DEF O, O2
      <4>5. SoundBook(BookAfterPlace(command.order, B[n]))
        BY <4>2, <4>4, PlaceKeepsSound
      <4>6. Placed(BookAfterPlace(command.order, B[n]), O2 \cup {command.order})
        BY <4>2, <4>4, <2>5, PlacePlaces
      <4>7. O2 \cup {command.order} = O2
        BY <4>2
      <4>8. SoundBook(B[n + 1]) /\ Placed(B[n + 1], O2)
        BY <4>3, <4>4, <4>5, <4>6, <4>7
      <4> QED  BY <4>8 DEF O2
    <3> QED  BY <3>2, <3>3
  <2> QED  BY <2>8, <2>9
<1>6. m \in T
  <2> HIDE DEF Good
  <2>1. T \subseteq Nat
    OBVIOUS
  <2> HIDE DEF T
  <2> QED  BY <1>1, <1>4, <1>5, <2>1, SetInduction
<1>7. Good(m)
  <2> HIDE DEF Good
  <2>1. m <= m
    BY <1>1
  <2> QED  BY <1>6, <2>1
<1> QED  BY <1>7 DEF B

(* So was every order that rests now, in this boot,                        *)
LEMMA BookPlaced ==
    ASSUME IInv
    PROVE  Placed(book, RunOrders(boot, Len(log)))
<1>1. Len(log) \in Nat
  BY DEF IInv, LogInv, Types
<1>2. Len(log) \in 0 .. Len(log) /\ IsFront(log, log, Len(log))
  BY <1>1 DEF IsFront
<1>3. book = Books(submitted, runs, boot, log)[Len(log)]
  BY ReplayIsBooks DEF IInv, BookIsReplay
<1> QED  BY <1>2, <1>3, BooksPlaced

(* What an accepted order matched is the outcome of placing it on a sound  *)
(* book, with nothing in it but what commands that ran placed.             *)
LEMMA MatchedOutcome ==
    ASSUME IInv, NEW k \in CommandIds, AcceptedByBook(k), submitted[k].type = "PlaceOrder"
    PROVE  /\ submitted[k] # None /\ submitted[k].order \in LimitOrder
           /\ RunOrders(runs[k][1].boot, Len(log)) \in SUBSET LimitOrder
           /\ \E b : /\ SoundBook(b) /\ Placed(b, RunOrders(runs[k][1].boot, Len(log)))
                     /\ Matched(k) = PlaceOutcome(submitted[k].order, b).trades
<1>1. /\ Types /\ KeysDistinct
      /\ Len(log) \in Nat /\ DOMAIN log = 1 .. Len(log)
  BY DEF IInv, LogInv, Types
<1>3. runs[k] # << >>
  BY AcceptedRan
<1>4. PICK i \in DOMAIN log : IsFirstOf(k, i) /\ ~ log[i].open
  BY <1>3 DEF IInv, LogInv, RunsLogged
<1>5. submitted[k] \in Commands /\ submitted[k] # None
  BY <1>1, <1>3 DEF IInv, LogInv, RunsLogged, Types
<1>6. FirstAt(log, k) = i
  <2>1. \A j \in DOMAIN log : log[j].key = k /\ IsFirstEvent(log[j]) => j = i
    BY <1>1, <1>4 DEF IsFirstOf, KeysDistinct
  <2> QED  BY <2>1, <1>4 DEF FirstAt, IsFirstOf
<1> DEFINE front == SubSeq(log, 1, i - 1)
           m == i - 1
           b == Books(submitted, runs, runs[k][1].boot, front)[m]
<1>7. Len(front) = m /\ m \in 0 .. Len(log) /\ \A j \in 1 .. m : front[j] = log[j]
  <2>1. \A j \in 1 .. Len(log) : log[j] \in Entries
    BY <1>1 DEF Types
  <2>2. i \in 1 .. Len(log)
    BY <1>1
  <2>3. \A j \in 1 .. (i - 1) : log[j] \in Entries
    BY <2>1, <2>2, <1>1
  <2>4. i - 1 \in Int /\ 1 \in Int /\ i - 1 >= 0
    BY <2>2
  <2>5. /\ Len(front) = IF 1 <= i - 1 THEN (i - 1) - 1 + 1 ELSE 0
        /\ \A j \in 1 .. (i - 1) - 1 + 1 : front[j] = log[1 + j - 1]
    BY <2>3, <2>4, SubSeqProperties
  <2> HIDE DEF front
  <2> QED  BY <2>2, <2>4, <2>5, <1>1
<1>8. IsFront(front, log, m)
  <2> HIDE DEF front
  <2> QED  BY <1>1, <1>7 DEF IsFront
<1>9. SoundBook(b) /\ Placed(b, RunOrders(runs[k][1].boot, m))
  <2> HIDE DEF front, m
  <2> QED  BY <1>7, <1>8, BooksPlaced
<1>10. Placed(b, RunOrders(runs[k][1].boot, Len(log)))
  <2>1. \A j \in 1 .. m : j \in 1 .. Len(log)
    <3> HIDE DEF m, front
    <3> QED  BY <1>1, <1>7
  <2>2. RunOrders(runs[k][1].boot, m) \subseteq RunOrders(runs[k][1].boot, Len(log))
    BY <2>1 DEF RunOrders
  <2> HIDE DEF b
  <2> QED  BY <2>2, <1>9 DEF Placed
<1>11. Matched(k) =
          IF (\E j \in DOMAIN runs[k] : runs[k][j].error = "None") /\ submitted[k].type = "PlaceOrder"
          THEN PlaceOutcome(submitted[k].order, b).trades
          ELSE << >>
  <2>1. MatchedOf(submitted, runs, log, k) =
           IF (\E j \in DOMAIN runs[k] : runs[k][j].error = "None") /\ submitted[k].type = "PlaceOrder"
           THEN PlaceOutcome(submitted[k].order,
                             Books(submitted, runs, runs[k][1].boot, front)[Len(front)]).trades
           ELSE << >>
    BY <1>6 DEF MatchedOf
  <2> HIDE DEF front
  <2> QED  BY <2>1, <1>7, MatchedIsMatchedOf
<1>12. Matched(k) = PlaceOutcome(submitted[k].order, b).trades
  BY <1>11 DEF AcceptedByBook
<1>13. submitted[k].order \in LimitOrder
  BY <1>5, CommandKinds, OrdersAssumption DEF Submitted, LimitOrder
<1>14. RunOrders(runs[k][1].boot, Len(log)) \in SUBSET LimitOrder
  <2>1. Len(log) \in 0 .. Len(log)
    BY <1>1
  <2> QED  BY <2>1, RunOrdersAre
<1> HIDE DEF b, Matched
<1> QED  BY <1>5, <1>9, <1>10, <1>12, <1>13, <1>14

(* So both parties of a trade are orders that commands placed,             *)
LEMMA MatchedPlaced ==
    ASSUME IInv, NEW k \in CommandIds, NEW n \in DOMAIN Matched(k)
    PROVE  /\ submitted[k] # None /\ submitted[k].type = "PlaceOrder"
           /\ submitted[k].order \in LimitOrder
           /\ \E maker \in RunOrders(runs[k][1].boot, Len(log)) :
                 TradeBetween(Matched(k)[n], maker, submitted[k].order)
<1>1. Matched(k) # << >>
  OBVIOUS
<1>2. AcceptedByBook(k) /\ submitted[k].type = "PlaceOrder"
  BY <1>1 DEF Matched
<1> HIDE DEF Matched
<1>3. PICK b : /\ SoundBook(b) /\ Placed(b, RunOrders(runs[k][1].boot, Len(log)))
               /\ Matched(k) = PlaceOutcome(submitted[k].order, b).trades
  BY <1>2, MatchedOutcome
<1>4. /\ submitted[k] # None /\ submitted[k].order \in LimitOrder
      /\ RunOrders(runs[k][1].boot, Len(log)) \in SUBSET LimitOrder
  BY <1>2, MatchedOutcome
<1>5. n \in DOMAIN PlaceOutcome(submitted[k].order, b).trades
  BY <1>3
<1>6. \E maker \in RunOrders(runs[k][1].boot, Len(log)) :
          TradeBetween(PlaceOutcome(submitted[k].order, b).trades[n], maker, submitted[k].order)
  BY <1>3, <1>4, <1>5, TradesPlaced
<1> QED  BY <1>2, <1>3, <1>4, <1>6

(* and it traded no more lots than the order had.                          *)
LEMMA MatchedLots ==
    ASSUME IInv, NEW k \in CommandIds, AcceptedByBook(k), submitted[k].type = "PlaceOrder"
    PROVE  Quantity(Matched(k)) \in 0 .. submitted[k].order.quantity
<1>1. PICK b : SoundBook(b) /\ Matched(k) = PlaceOutcome(submitted[k].order, b).trades
  BY MatchedOutcome
<1>2. submitted[k].order \in LimitOrder
  BY MatchedOutcome
<1> QED  BY <1>1, <1>2, OutcomeAddsUp


-------------------------------------------------------------------------------
(* What the handler's steps leave to those who call it.                    *)

(* The log loses at most the open entry at p, and gets at most what the    *)
(* running call appends.                                                   *)
Moved(p) ==
    /\ EntriesKept(p)
    /\ \/ Len(log') = Rest(p)
       \/ /\ Len(log') = Rest(p) + 1
          /\ active # None
          /\ log'[Len(log')] = [key |-> TheKey, event |-> TheEvent, open |-> TRUE]

LEMMA LogStays ==
    ASSUME IInv, log' = log
    PROVE  Moved(Len(log) + 1)
<1>1. LogInv /\ Len(log) \in Nat
  BY DEF IInv, LogInv, Types
<1> QED  BY <1>1, LogUntouched, NothingGoes DEF Moved

LEMMA EntryEnds ==
    ASSUME IInv, NEW i \in DOMAIN log, log[i].open, log' \in {Close(i), RemoveAt(log, i)}
    PROVE  \E p : Moved(p)
<1>1. LogInv /\ Len(log) \in Nat
  BY DEF IInv, LogInv, Types
<1>2. CASE log' = Close(i)
  <2>1. Moved(Len(log) + 1)
    BY <1>1, <1>2, LogClosed, NothingGoes DEF Moved
  <2> QED  BY <2>1
<1>3. CASE log' = RemoveAt(log, i)
  <2>1. Moved(i)
    BY <1>1, <1>3, LogRemoved DEF Moved
  <2> QED  BY <2>1
<1> QED  BY <1>2, <1>3

LEMMA GiveUpMoves ==
    ASSUME IInv, NEW r, GiveUp(r)
    PROVE  \E p : Moved(p)
<1>1. CASE log' = log
  BY <1>1, LogStays
<1>2. CASE \E i \in OpenAt(TheKey) : log' = RemoveAt(log, i)
  <2>1. PICK i \in DOMAIN log : log[i].open /\ log' = RemoveAt(log, i)
    BY <1>2 DEF OpenAt
  <2> QED  BY <2>1, EntryEnds
<1> QED  BY <1>1, <1>2 DEF GiveUp

LEMMA OrphanMoves ==
    ASSUME IInv, OrphanEnds
    PROVE  \E p : Moved(p)
<1>1. PICK i \in DOMAIN log : Orphan(i) /\ log' \in {Close(i), RemoveAt(log, i)}
  BY DEF OrphanEnds
<1> QED  BY <1>1, EntryEnds DEF Orphan

LEMMA HandlerMoves ==
    ASSUME IInv, AppendEvent \/ EventCommitted
    PROVE  \E p : Moved(p)
<1>1. CASE EventCommitted
  <2>1. PICK i \in DOMAIN log : log[i].open /\ log' = Close(i)
    BY <1>1 DEF EventCommitted, OpenAt
  <2> QED  BY <2>1, EntryEnds
<1>2. CASE AppendEvent /\ log' = log
  BY <1>2, LogStays
<1>3. CASE AppendEvent /\ log' # log
  <2> DEFINE entry == [key |-> TheKey, event |-> TheEvent, open |-> TRUE]
  <2>1. log' = Append(log, entry) /\ active # None
    BY <1>3 DEF AppendEvent
  <2>2. log \in Seq(Entries) /\ Len(log) \in Nat /\ LogInv
    BY DEF IInv, LogInv, Types
  <2> HIDE DEF entry
  <2>3. Len(log') = Len(log) + 1 /\ log'[Len(log')] = entry /\ \A i \in 1 .. Len(log) : log'[i] = log[i]
    BY <2>1, <2>2
  <2>4. Rest(Len(log) + 1) = Len(log) /\ \A j \in 1 .. Len(log) : From(Len(log) + 1, j) = j
        /\ Len(log) + 1 \in 1 .. (Len(log) + 1) /\ ~ (Len(log) + 1 <= Len(log))
    BY <2>2, NothingGoes
  <2>5. EntriesKept(Len(log) + 1)
    BY <2>3, <2>4 DEF EntriesKept
  <2>6. Moved(Len(log) + 1)
    BY <2>1, <2>3, <2>4, <2>5 DEF Moved, entry
  <2> QED  BY <2>6
<1> QED  BY <1>1, <1>2, <1>3

(* Where the entries are afterwards.                                       *)
LEMMA MovedPositions ==
    ASSUME IInv, IInv', NEW p, Moved(p)
    PROVE  /\ DOMAIN log = 1 .. Len(log) /\ DOMAIN log' = 1 .. Len(log')
           /\ Len(log) \in Nat /\ Len(log') \in Nat
           /\ \A i \in DOMAIN log : i # p =>
                 /\ To(p, i) \in DOMAIN log'
                 /\ log'[To(p, i)].key = log[i].key
                 /\ IsFirstEvent(log'[To(p, i)]) <=> IsFirstEvent(log[i])
                 /\ ~ log[i].open => ~ log'[To(p, i)].open
           /\ \A j \in DOMAIN log' :
                 \/ /\ From(p, j) \in DOMAIN log /\ From(p, j) # p
                    /\ log'[j].key = log[From(p, j)].key
                    /\ IsFirstEvent(log'[j]) <=> IsFirstEvent(log[From(p, j)])
                    /\ \A i \in 1 .. (From(p, j) - 1) :
                          i # p => i \in DOMAIN log /\ To(p, i) \in 1 .. (j - 1)
                 \/ /\ j = Len(log') /\ active # None
                    /\ log'[j] = [key |-> TheKey, event |-> TheEvent, open |-> TRUE]
                    /\ \A i \in DOMAIN log : i # p => To(p, i) \in 1 .. (j - 1)
           /\ p \in DOMAIN log => log[p].open
<1>1. /\ DOMAIN log = 1 .. Len(log) /\ DOMAIN log' = 1 .. Len(log')
      /\ Len(log) \in Nat /\ Len(log') \in Nat
  BY DEF IInv, LogInv, Types
<1>2. /\ p \in 1 .. (Len(log) + 1)
      /\ p <= Len(log) => log[p].open
      /\ \A j \in 1 .. Rest(p) :
            /\ log'[j].key = log[From(p, j)].key
            /\ log'[j].event = log[From(p, j)].event
            /\ ~ log[From(p, j)].open => ~ log'[j].open
  BY DEF Moved, EntriesKept
<1>3. Len(log') = Rest(p) \/ Len(log') = Rest(p) + 1
  BY DEF Moved
<1>4. /\ Rest(p) \in Nat
      /\ \A i \in 1 .. Len(log) : i # p => To(p, i) \in 1 .. Rest(p) /\ From(p, To(p, i)) = i
      /\ \A j \in 1 .. Rest(p) : From(p, j) \in 1 .. Len(log) /\ From(p, j) # p
  <2>1. Len(log) \in Nat /\ p \in 1 .. (Len(log) + 1)
    BY <1>1, <1>2
  <2> QED  BY ONLY <2>1, RestPositions
<1>5. ASSUME NEW i \in DOMAIN log, i # p
      PROVE  /\ To(p, i) \in DOMAIN log' /\ To(p, i) \in 1 .. Rest(p)
             /\ log'[To(p, i)].key = log[i].key
             /\ IsFirstEvent(log'[To(p, i)]) <=> IsFirstEvent(log[i])
             /\ ~ log[i].open => ~ log'[To(p, i)].open
  <2>1. To(p, i) \in 1 .. Rest(p) /\ From(p, To(p, i)) = i
    BY <1>1, <1>4, <1>5
  <2>2. To(p, i) \in DOMAIN log'
    BY <2>1, <1>1, <1>3, <1>4
  <2> QED  BY <2>1, <2>2, <1>2 DEF IsFirstEvent
<1>6. ASSUME NEW j \in 1 .. Rest(p)
      PROVE  /\ From(p, j) \in DOMAIN log /\ From(p, j) # p
             /\ log'[j].key = log[From(p, j)].key
             /\ IsFirstEvent(log'[j]) <=> IsFirstEvent(log[From(p, j)])
             /\ \A i \in 1 .. (From(p, j) - 1) :
                   i # p => i \in DOMAIN log /\ To(p, i) \in 1 .. (j - 1)
  <2>1. From(p, j) \in DOMAIN log /\ From(p, j) # p
    BY <1>1, <1>4
  <2>2. ASSUME NEW i \in 1 .. (From(p, j) - 1), i # p
        PROVE  i \in DOMAIN log /\ To(p, i) \in 1 .. (j - 1)
    <3>1. p \in Nat \ {0} /\ j \in Nat /\ From(p, j) \in 1 .. Len(log)
      BY <1>1, <1>2, <1>4
    <3>2. i \in Nat /\ i >= 1 /\ i < From(p, j)
      BY <3>1, <2>2
    <3>3. i \in 1 .. Len(log)
      BY <3>1, <3>2, <1>1
    <3>4. CASE j < p
      BY <3>1, <3>2, <3>4 DEF To, From
    <3>5. CASE ~ (j < p)
      BY <3>1, <3>2, <3>5, <2>2 DEF To, From
    <3> QED  BY <3>3, <3>4, <3>5, <1>1
  <2> QED  BY <2>1, <2>2, <1>2 DEF IsFirstEvent
<1>7. ASSUME NEW j \in DOMAIN log', j \notin 1 .. Rest(p)
      PROVE  /\ j = Len(log') /\ active # None
             /\ log'[j] = [key |-> TheKey, event |-> TheEvent, open |-> TRUE]
             /\ \A i \in DOMAIN log : i # p => To(p, i) \in 1 .. (j - 1)
  <2>1. Len(log') = Rest(p) + 1 /\ j = Rest(p) + 1 /\ j - 1 = Rest(p)
    BY <1>1, <1>3, <1>4, <1>7
  <2>2. Len(log') # Rest(p)
    BY <2>1, <1>4
  <2> QED  BY <2>1, <2>2, <1>5 DEF Moved
<1>8. p \in DOMAIN log => log[p].open
  BY <1>1, <1>2
<1> QED  BY <1>1, <1>5, <1>6, <1>7, <1>8

(* The first event of k is in the log for good.                            *)
Committed(k) == \E i \in DOMAIN log : IsFirstOf(k, i) /\ ~ log[i].open

LEMMA CommittedStays ==
    ASSUME IInv, IInv', NEW p, Moved(p), NEW k, Committed(k)
    PROVE  Committed(k)'
<1>1. PICK i \in DOMAIN log : IsFirstOf(k, i) /\ ~ log[i].open
  BY DEF Committed
<1>2. i # p
  BY <1>1, MovedPositions
<1>3. /\ To(p, i) \in DOMAIN log' /\ log'[To(p, i)].key = log[i].key
      /\ IsFirstEvent(log'[To(p, i)]) <=> IsFirstEvent(log[i])
      /\ ~ log'[To(p, i)].open
  BY <1>1, <1>2, MovedPositions
<1> QED  BY <1>1, <1>3 DEF Committed, IsFirstOf

(* A call goes on, or is answered.                                         *)
LEMMA HandlerFrame ==
    ASSUME AppendEvent \/ EventCommitted, active \in Calls
    PROVE  /\ active # None /\ submitted' = submitted /\ boot' = boot
           /\ \/ /\ active' # None => active'.command_id = active.command_id
                 /\ reply' = reply
              \/ active' = None /\ reply'.command_id = active.command_id
<1>1. active # None /\ submitted' = submitted /\ boot' = boot
  BY DEF AppendEvent, EventCommitted
<1> DEFINE Goes == \/ /\ active' # None => active'.command_id = active.command_id
                      /\ reply' = reply
                   \/ active' = None /\ reply'.command_id = active.command_id
<1>2. ASSUME NEW part, NEW trades, NEW remaining, NEW records,
             PersistNext(part, trades, remaining, records)
      PROVE  Goes
  <2>1. CASE GoesOn(part, trades)
    BY <1>2, <2>1 DEF PersistNext, Calls
  <2>2. CASE ~ GoesOn(part, trades)
    BY <1>2, <2>2 DEF PersistNext, Answer, OrderPlaced
  <2> QED  BY <2>1, <2>2
<1>3. ASSUME NEW record, TradeAnswered(record)
      PROVE  Goes
  <2> HIDE DEF Goes
  <2> QED  BY <1>2, <1>3 DEF TradeAnswered
<1>4. ASSUME NEW k, k = active.command_id, Retried(k)
      PROVE  Goes
  BY <1>4 DEF Retried, Answer, RetryReply, OrderPlaced, OrderCanceled
<1>5. ASSUME NEW k, k = active.command_id, RunCommand(k)
      PROVE  Goes
  <2>1. CASE RunPlaceOrder(k) /\ ~ Goes
    <3>1. \/ \E error : Answer(Refused(k, error))
          \/ \E part, trades, remaining, records : PersistNext(part, trades, remaining, records)
      <4>1. CASE PlaceError(submitted[k].order, RestingIds(book)) = "None"
        <5>1. PersistNext(0, PlaceOutcome(submitted[k].order, book).trades,
                          PlaceOutcome(submitted[k].order, book).remaining_quantity, << >>)
          BY <2>1, <4>1 DEF RunPlaceOrder
        <5> QED  BY <5>1
      <4>2. CASE PlaceError(submitted[k].order, RestingIds(book)) # "None"
        <5>1. Answer(Refused(k, PlaceError(submitted[k].order, RestingIds(book))))
          BY <2>1, <4>2 DEF RunPlaceOrder
        <5> QED  BY <5>1
      <4> QED  BY <4>1, <4>2
    <3>2. ASSUME NEW error, Answer(Refused(k, error)) PROVE Goes
      BY <3>2, <1>5 DEF Answer, Refused
    <3> HIDE DEF Goes
    <3> QED  BY <3>1, <3>2, <1>2
  <2>2. CASE RunCancelOrder(k)
    BY <2>2, <1>5 DEF RunCancelOrder, Answer, OrderCanceled, Refused
  <2> QED  BY <2>1, <2>2, <1>5 DEF RunCommand
<1>6. ASSUME AppendEvent, ~ Logged(TheKey) PROVE Goes
  <2>1. active' = [active EXCEPT !.stage = "commit"] /\ reply' = reply
    BY <1>6 DEF AppendEvent
  <2>2. active'.command_id = active.command_id
    BY <2>1 DEF Calls
  <2> QED  BY <2>1, <2>2
<1> HIDE DEF Goes
<1>7. ASSUME AppendEvent, Logged(TheKey) PROVE Goes
  <2>1. CASE active.part = 0
    <3>1. Retried(active.command_id)
      BY <1>7, <2>1 DEF AppendEvent
    <3> QED  BY <3>1, <1>4
  <2>2. CASE active.part # 0
    <3>1. TradeAnswered(RecordAt(TheKey))
      BY <1>7, <2>2 DEF AppendEvent
    <3> QED  BY <3>1, <1>3
  <2> QED  BY <2>1, <2>2
<1>8. ASSUME EventCommitted PROVE Goes
  <2>1. CASE active.part = 0
    <3>1. RunCommand(active.command_id)
      BY <1>8, <2>1 DEF EventCommitted
    <3> QED  BY <3>1, <1>5
  <2>2. CASE active.part # 0
    <3>1. TradeAnswered(TheEvent)
      BY <1>8, <2>2 DEF EventCommitted
    <3> QED  BY <3>1, <1>3
  <2> QED  BY <2>1, <2>2
<1> QED  BY <1>1, <1>6, <1>7, <1>8 DEF Goes

(* What is not under a trade's key is a first event.                       *)
LEMMA FirstByKey ==
    ASSUME IInv, NEW i \in DOMAIN log, log[i].key \notin TradeKeys
    PROVE  IsFirstEvent(log[i])
<1>1. SUFFICES ASSUME ~ IsFirstEvent(log[i]) PROVE FALSE
  OBVIOUS
<1>2. PICK k \in CommandIds : \E n \in DOMAIN Matched(k) : log[i].key = Key(k, n)
  BY <1>1 DEF IInv, TradesFollowMatching
<1>3. PICK n \in DOMAIN Matched(k) : log[i].key = Key(k, n)
  BY <1>2
<1>4. Matched(k) \in Seq(Trade)
  BY DEF IInv, MatchedTrades
<1> HIDE DEF Matched
<1>5. n \in Nat \ {0}
  BY <1>4
<1>6. log[i].key = <<k, n>>
  BY <1>3, <1>5 DEF Key
<1> QED  BY <1>5, <1>6 DEF TradeKeys

(* A command reaches the book when its first event, the last entry of the  *)
(* log, is committed; then it is told what the book says.                  *)
LEMMA RunsAre ==
    ASSUME IInv, AppendEvent \/ EventCommitted, NEW k \in CommandIds, runs'[k] # runs[k]
    PROVE  /\ active # None /\ active.command_id = k
           /\ submitted[k] # None /\ submitted[k] \in Commands
           /\ Len(log) \in DOMAIN log /\ IsFirstOf(k, Len(log)) /\ log[Len(log)].open
           /\ \E error : /\ runs'[k] = <<[boot |-> boot, error |-> error]>>
                         /\ submitted[k].type = "PlaceOrder" =>
                               error = PlaceError(submitted[k].order, RestingIds(book))
                         /\ submitted[k].type # "PlaceOrder" => error \in {"None", "OrderNotFound"}
<1>1. /\ runs \in [CommandIds -> Seq(RunRecords)] /\ LogInv
      /\ log \in Seq(Entries) /\ Len(log) \in Nat /\ DOMAIN log = 1 .. Len(log)
  BY DEF IInv, LogInv, Types
<1>2. EventCommitted /\ active.part = 0
  <2>1. CASE AppendEvent
    BY <2>1 DEF AppendEvent, Retried, TradeAnswered
  <2>2. CASE EventCommitted /\ active.part # 0
    BY <2>2 DEF EventCommitted, TradeAnswered
  <2> QED  BY <2>1, <2>2
<1>3. active # None /\ active.stage = "commit" /\ RunCommand(active.command_id)
  BY <1>2 DEF EventCommitted
<1>4. PICK c \in CommandIds : c = active.command_id
  BY <1>3 DEF IInv, ActiveSound, Calls
<1>5. /\ submitted[c] # None /\ submitted[c] \in Commands
      /\ submitted[c].type = "PlaceOrder" \/ submitted[c].type = "CancelOrder"
  <2>1. submitted[c] # None /\ submitted[c] \in Commands
    BY <1>3, <1>4 DEF IInv, ActiveSound, LogInv, Types
  <2> QED  BY <2>1, CommandKinds
<1>6. \E error : /\ Ran(c, error)
                 /\ submitted[c].type = "PlaceOrder" =>
                       error = PlaceError(submitted[c].order, RestingIds(book))
                 /\ submitted[c].type # "PlaceOrder" => error \in {"None", "OrderNotFound"}
  <2>1. CASE submitted[c].type = "PlaceOrder"
    <3>1. Ran(c, PlaceError(submitted[c].order, RestingIds(book)))
      BY <2>1, <1>3, <1>4 DEF RunCommand, RunPlaceOrder
    <3> QED  BY <3>1, <2>1
  <2>2. CASE submitted[c].type # "PlaceOrder"
    <3>1. Ran(c, IF submitted[c].order_id \in RestingIds(book) THEN "None" ELSE "OrderNotFound")
      BY <2>2, <1>3, <1>4 DEF RunCommand, RunCancelOrder
    <3> QED  BY <3>1, <2>2
  <2> QED  BY <2>1, <2>2
<1>7. PICK error : /\ Ran(c, error)
                   /\ submitted[c].type = "PlaceOrder" =>
                         error = PlaceError(submitted[c].order, RestingIds(book))
                   /\ submitted[c].type # "PlaceOrder" => error \in {"None", "OrderNotFound"}
  BY <1>6
<1>8. k = c
  BY <1>1, <1>7 DEF Ran
<1>9. /\ TheKey = k /\ TheEvent = FirstEvent(k) /\ TheEvent.type # "TradeExecuted"
      /\ log # << >> /\ log[Len(log)] = [key |-> TheKey, event |-> TheEvent, open |-> TRUE]
  BY <1>2, <1>3, <1>4, <1>8, KeyAndEvent DEF IInv, ActiveSound, Committing
<1>10. /\ Len(log) \in DOMAIN log /\ log[Len(log)].key = k /\ log[Len(log)].open
       /\ IsFirstEvent(log[Len(log)])
  <2>1. Len(log) # 0
    BY <1>1, <1>9
  <2>2. Len(log) \in 1 .. Len(log)
    BY <2>1, <1>1
  <2> QED  BY <2>2, <1>1, <1>9 DEF IsFirstEvent
<1>11. runs[k] = << >>
  BY <1>1, <1>10, OpenHasNotRun
<1>12. runs'[k] = <<[boot |-> boot, error |-> error]>>
  BY <1>1, <1>7, <1>8, <1>11 DEF Ran
<1> QED  BY <1>3, <1>4, <1>5, <1>7, <1>8, <1>10, <1>12 DEF IsFirstOf

(* A call that is answered Ok leaves its command in the log.               *)
LEMMA OkIsCommitted ==
    ASSUME IInv, IInv', AppendEvent \/ EventCommitted, reply = None, IsOk(reply'),
           NEW k \in CommandIds \ TradeKeys, active.command_id = k
    PROVE  Committed(k)'
<1>1. /\ active # None /\ LogInv
      /\ log \in Seq(Entries) /\ DOMAIN log = 1 .. Len(log) /\ Len(log) \in Nat
  BY DEF AppendEvent, EventCommitted, IInv, LogInv, Types
<1>2. k \in CommandIds /\ k \notin TradeKeys /\ k = active.command_id
  OBVIOUS
<1>3. active.part \in Nat
  BY <1>1 DEF IInv, ActiveSound, Calls
<1>4. reply' # reply
  BY DEF IsOk
<1>5. PICK p : Moved(p)
  BY HandlerMoves
<1>6. CASE active.part > 0
  <2>1. runs[k] # << >>
    BY <1>1, <1>2, <1>6, AcceptedRan DEF IInv, ActiveSound, Persisting
  <2>2. Committed(k)
    BY <2>1, <1>1 DEF LogInv, RunsLogged, Committed
  <2> QED  BY <2>2, <1>2, <1>5, CommittedStays
<1>7. CASE active.part = 0
  <2>1. TheKey = k
    BY <1>1, <1>2, <1>7, KeyAndEvent
  <2>2. ASSUME NEW i \in DOMAIN log, log[i].key = k
        PROVE  IsFirstOf(k, i)
    BY <2>2, <1>2, FirstByKey DEF IsFirstOf
  <2>3. CASE AppendEvent
    <3>1. Logged(TheKey)
      BY <2>3, <1>4 DEF AppendEvent
    <3>2. PICK i \in DOMAIN log : log[i].key = k /\ ~ log[i].open
      BY <3>1, <2>1 DEF Logged, ClosedAt
    <3>3. Committed(k)
      BY <3>2, <2>2 DEF Committed
    <3> QED  BY <3>3, <1>2, <1>5, CommittedStays
  <2>4. CASE EventCommitted
    <3>1. PICK i \in DOMAIN log : log[i].key = k /\ log' = Close(i)
      BY <2>1, <2>4 DEF EventCommitted, OpenAt
    <3>2. /\ DOMAIN log' = DOMAIN log /\ log'[i].key = log[i].key
          /\ log'[i].event = log[i].event /\ ~ log'[i].open
      BY <3>1, <1>1, LogClosed
    <3>3. IsFirstOf(k, i)
      BY <3>1, <2>2
    <3>4. IsFirstOf(k, i)'
      BY <3>2, <3>3 DEF IsFirstOf, IsFirstEvent
    <3> QED  BY <3>2, <3>4, <1>2 DEF Committed
  <2> QED  BY <2>3, <2>4
<1> QED  BY <1>3, <1>6, <1>7

-------------------------------------------------------------------------------
(* Boot: the inductive invariant.                                          *)

BootTypes ==
    /\ phase \in {"connect", "seed", "serve"} \cup Tables
    /\ tables \subseteq Tables
    /\ phase \in {"seed", "serve"} => tables = Tables
    /\ seeded \in 0 .. Len(SeedIds)
    /\ phase \notin {"seed", "serve"} => seeded = 0
    /\ listening \subseteq Servers
    /\ listening # {} => phase = "serve"
    /\ boot <= MaxBoots

(* What a command id of the seed stands for; the others are clients'.      *)
SeedSent ==
    \A k \in CommandIds : submitted[k] # None =>
        \/ k \in ClientIds
        \/ \E n \in DOMAIN SeedIds : k = SeedIds[n] /\ submitted[k] = SeedCommands[n]

(* Who calls the handler, when.                                            *)
Running ==
    active # None =>
        /\ reply = None
        /\ \/ phase = "seed" /\ seeded > 0 /\ active.command_id = SeedIds[seeded]
           \/ phase = "serve" /\ active.command_id \in ClientIds

(* The seed has gone as far as it was answered Ok.                         *)
SeedSoFar ==
    /\ phase = "seed" /\ seeded > 0 =>
          /\ \A n \in 1 .. (seeded - 1) : Committed(SeedIds[n])
          /\ IsOk(reply) => Committed(SeedIds[seeded])
    /\ phase = "serve" => \A n \in DOMAIN SeedIds : Committed(SeedIds[n])

(* The first event of k is committed, before entry i.                      *)
Before(k, i) == \E j \in 1 .. (i - 1) : j \in DOMAIN log /\ IsFirstOf(k, j) /\ ~ log[j].open

(* A first event has the seed's commands before its own behind it, or all  *)
(* of them if it is a client's.                                            *)
InSeedOrder ==
    \A i \in DOMAIN log : IsFirstEvent(log[i]) =>
        \E n \in 1 .. (Len(SeedIds) + 1) :
            /\ \A m \in 1 .. (n - 1) : Before(SeedIds[m], i)
            /\ n \in DOMAIN SeedIds => log[i].key = SeedIds[n]
            /\ n \notin DOMAIN SeedIds => log[i].key \in ClientIds

BootInv ==
    /\ IInv
    /\ BootTypes
    /\ SeedSent
    /\ Running
    /\ SeedSoFar
    /\ InSeedOrder
    /\ OnlyTheCancelIsRefused

(* What the seed is.                                                       *)
LEMMA Seed ==
    /\ Len(SeedIds) = 7 /\ DOMAIN SeedIds = 1 .. 7
    /\ \A n \in 1 .. 7 : /\ SeedIds[n] \in CommandIds /\ SeedIds[n] \notin TradeKeys
                         /\ SeedIds[n] \notin ClientIds
                         /\ SeedCommands[n] \in Commands
    /\ \A m, n \in 1 .. 7 : SeedIds[m] = SeedIds[n] => m = n
    /\ \A n \in 1 .. 6 : /\ SeedCommands[n].type = "PlaceOrder"
                         /\ SeedCommands[n].order.order_id = n
                         /\ SeedCommands[n].order.price # 0
                         /\ SeedCommands[n].order.quantity # 0
    /\ SeedCommands[7].type = "CancelOrder"
    /\ ClientIds \subseteq CommandIds /\ ClientCommands \subseteq Commands
<1>1. Len(SeedCommands) = 7 /\ DOMAIN SeedCommands = 1 .. 7
  BY DEF SeedCommands
<1>2. /\ SeedIds \in Seq(CommandIds) /\ Len(SeedIds) = 7
      /\ IsInjective(SeedIds)
      /\ \A n \in DOMAIN SeedIds : SeedIds[n] \notin TradeKeys
      /\ \A n \in DOMAIN SeedCommands : SeedCommands[n] \in Commands
      /\ ClientIds \subseteq CommandIds \ Range(SeedIds) /\ ClientCommands \subseteq Commands
  BY <1>1, BootAssumption DEF TradeKeys
<1>3. DOMAIN SeedIds = 1 .. 7 /\ \A n \in 1 .. 7 : SeedIds[n] \in CommandIds
  <2>1. SeedIds \in Seq(CommandIds)
    BY <1>2
  <2>2. DOMAIN SeedIds = 1 .. Len(SeedIds) /\ \A n \in 1 .. Len(SeedIds) : SeedIds[n] \in CommandIds
    BY <2>1
  <2> QED  BY <2>2, <1>2
<1>4. \A m, n \in 1 .. 7 : SeedIds[m] = SeedIds[n] => m = n
  BY <1>2, <1>3 DEF IsInjective
<1>5. \A n \in 1 .. 7 : SeedIds[n] \notin ClientIds
  BY <1>2, <1>3 DEF Range
<1>6. /\ SeedCommands[1] = SeedOrder(1, "Ask", 102, 10)
      /\ SeedCommands[2] = SeedOrder(2, "Ask", 104, 10)
      /\ SeedCommands[3] = SeedOrder(3, "Bid", 99, 10)
      /\ SeedCommands[4] = SeedOrder(4, "Bid", 97, 10)
      /\ SeedCommands[5] = SeedOrder(5, "Bid", 105, 15)
      /\ SeedCommands[6] = SeedOrder(6, "Ask", 98, 5)
      /\ SeedCommands[7] = CancelOrder(4)
  BY DEF SeedCommands
<1>7. ASSUME NEW n \in 1 .. 6
      PROVE  /\ SeedCommands[n].type = "PlaceOrder"
             /\ SeedCommands[n].order.order_id = n
             /\ SeedCommands[n].order.price # 0
             /\ SeedCommands[n].order.quantity # 0
  <2>1. n = 1 \/ n = 2 \/ n = 3 \/ n = 4 \/ n = 5 \/ n = 6
    OBVIOUS
  <2> QED  BY <2>1, <1>6 DEF SeedOrder, PlaceOrder
<1>8. SeedCommands[7].type = "CancelOrder"
  BY <1>6 DEF CancelOrder
<1> QED  BY <1>1, <1>2, <1>3, <1>4, <1>5, <1>7, <1>8

(* No step of the handler or of a failure changes that order.              *)
LEMMA InSeedOrderKept ==
    ASSUME BootInv, IInv', NEW p, Moved(p)
    PROVE  InSeedOrder'
<1>1. /\ IInv /\ Running /\ SeedSoFar /\ InSeedOrder /\ BootTypes
      /\ Len(SeedIds) = 7 /\ DOMAIN SeedIds = 1 .. 7
  BY Seed DEF BootInv
<1>2. SUFFICES ASSUME NEW j \in DOMAIN log', IsFirstEvent(log'[j])
               PROVE  \E n \in 1 .. 8 :
                         /\ \A m \in 1 .. (n - 1) : Before(SeedIds[m], j)'
                         /\ n \in DOMAIN SeedIds => log'[j].key = SeedIds[n]
                         /\ n \notin DOMAIN SeedIds => log'[j].key \in ClientIds
  BY <1>1 DEF InSeedOrder, IsFirstEvent
<1>3. ASSUME NEW k, NEW i \in DOMAIN log, i # p, IsFirstOf(k, i), ~ log[i].open,
             To(p, i) \in 1 .. (j - 1)
      PROVE  Before(k, j)'
  <2>1. PICK e : e = To(p, i)
    OBVIOUS
  <2>2. /\ e \in DOMAIN log' /\ log'[e].key = log[i].key /\ ~ log'[e].open
        /\ IsFirstEvent(log'[e]) <=> IsFirstEvent(log[i])
    BY <1>1, <1>3, <2>1, MovedPositions
  <2> QED  BY <1>3, <2>1, <2>2 DEF Before, IsFirstOf, IsFirstEvent
<1>4. CASE /\ From(p, j) \in DOMAIN log /\ From(p, j) # p
           /\ log'[j].key = log[From(p, j)].key
           /\ IsFirstEvent(log'[j]) <=> IsFirstEvent(log[From(p, j)])
           /\ \A i \in 1 .. (From(p, j) - 1) : i # p => i \in DOMAIN log /\ To(p, i) \in 1 .. (j - 1)
  <2>1. PICK e \in DOMAIN log : e = From(p, j)
    BY <1>4
  <2>2. PICK n \in 1 .. 8 :
           /\ \A m \in 1 .. (n - 1) : Before(SeedIds[m], e)
           /\ n \in DOMAIN SeedIds => log[e].key = SeedIds[n]
           /\ n \notin DOMAIN SeedIds => log[e].key \in ClientIds
    BY <1>1, <1>2, <1>4, <2>1 DEF InSeedOrder
  <2>3. ASSUME NEW m \in 1 .. (n - 1)
        PROVE  Before(SeedIds[m], j)'
    <3>1. PICK k : k = SeedIds[m]
      OBVIOUS
    <3>2. PICK i \in 1 .. (e - 1) : i \in DOMAIN log /\ IsFirstOf(k, i) /\ ~ log[i].open
      BY <2>2, <3>1 DEF Before
    <3>3. i # p
      BY <3>2, <1>1, MovedPositions
    <3>4. Before(k, j)'
      BY <3>2, <3>3, <2>1, <1>3, <1>4
    <3> QED  BY <3>1, <3>4
  <2> QED  BY <2>1, <2>2, <2>3, <1>4
<1>5. CASE /\ j = Len(log') /\ active # None
           /\ log'[j] = [key |-> TheKey, event |-> TheEvent, open |-> TRUE]
           /\ \A i \in DOMAIN log : i # p => To(p, i) \in 1 .. (j - 1)
  <2>1. active.part \in Nat
    BY <1>1, <1>5 DEF IInv, ActiveSound, Calls
  <2>2. PICK k \in CommandIds : k = active.command_id
    BY <1>1, <1>5 DEF IInv, ActiveSound, Calls
  <2>3. log'[j].key = k
    <3>1. active.part = 0
      BY <1>1, <1>2, <1>5, <2>1, KeyAndEvent DEF IsFirstEvent
    <3> QED  BY <3>1, <1>1, <1>5, <2>2, KeyAndEvent
  <2>4. ASSUME NEW c, Committed(c)
        PROVE  Before(c, j)'
    <3>1. PICK i \in DOMAIN log : IsFirstOf(c, i) /\ ~ log[i].open
      BY <2>4 DEF Committed
    <3>2. i # p
      BY <3>1, <1>1, MovedPositions
    <3> QED  BY <3>1, <3>2, <1>3, <1>5
  <2>5. CASE phase = "seed" /\ seeded > 0 /\ k = SeedIds[seeded]
    <3>1. PICK n \in 1 .. 7 : n = seeded
      BY <2>5, <1>1 DEF BootTypes
    <3>2. \A m \in 1 .. (n - 1) : Committed(SeedIds[m])
      BY <3>1, <2>5, <1>1 DEF SeedSoFar
    <3>3. \A m \in 1 .. (n - 1) : Before(SeedIds[m], j)'
      <4>1. SUFFICES ASSUME NEW m \in 1 .. (n - 1) PROVE Before(SeedIds[m], j)'
        OBVIOUS
      <4>2. PICK c : c = SeedIds[m]
        OBVIOUS
      <4>3. Before(c, j)'
        BY <3>2, <4>2, <2>4
      <4> QED  BY <4>2, <4>3
    <3>4. n \in 1 .. 8
      OBVIOUS
    <3> QED  BY <3>1, <3>3, <3>4, <2>3, <2>5, <1>1
  <2>6. CASE phase = "serve" /\ k \in ClientIds
    <3>1. \A m \in 1 .. 7 : Committed(SeedIds[m])
      BY <2>6, <1>1 DEF SeedSoFar
    <3>2. \A m \in 1 .. (8 - 1) : Before(SeedIds[m], j)'
      <4>1. SUFFICES ASSUME NEW m \in 1 .. (8 - 1) PROVE Before(SeedIds[m], j)'
        OBVIOUS
      <4>2. PICK c : c = SeedIds[m]
        OBVIOUS
      <4>3. Before(c, j)'
        BY <3>1, <4>2, <2>4
      <4> QED  BY <4>2, <4>3
    <3>3. 8 \in 1 .. 8 /\ 8 \notin 1 .. 7
      OBVIOUS
    <3> QED  BY <3>2, <3>3, <2>3, <2>6, <1>1
  <2> QED  BY <2>2, <2>5, <2>6, <1>1, <1>5 DEF Running
<1> QED  BY <1>1, <1>4, <1>5, MovedPositions

(* The seed does not fall back.                                            *)
LEMMA SeedSoFarKept ==
    ASSUME BootInv, IInv', NEW p, Moved(p), phase' = phase, seeded' = seeded,
           phase = "seed" /\ seeded > 0 /\ IsOk(reply') => Committed(SeedIds[seeded])'
    PROVE  SeedSoFar'
<1>1. /\ IInv /\ SeedSoFar /\ BootTypes /\ DOMAIN SeedIds = 1 .. 7 /\ Len(SeedIds) = 7
  BY Seed DEF BootInv
<1>2. ASSUME NEW n, Committed(SeedIds[n])
      PROVE  Committed(SeedIds[n])'
  <2>1. PICK c : c = SeedIds[n]
    OBVIOUS
  <2>2. Committed(c)'
    BY <1>1, <1>2, <2>1, CommittedStays
  <2> QED  BY <2>1, <2>2
<1>3. CASE phase = "seed" /\ seeded > 0
  <2>1. \A n \in 1 .. (seeded - 1) : Committed(SeedIds[n])
    BY <1>1, <1>3 DEF SeedSoFar
  <2>2. \A n \in 1 .. (seeded' - 1) : Committed(SeedIds[n])'
    BY <1>2, <2>1
  <2> QED  BY <1>3, <2>2 DEF SeedSoFar
<1>4. CASE phase = "serve"
  <2>1. \A n \in DOMAIN SeedIds : Committed(SeedIds[n])
    BY <1>1, <1>4 DEF SeedSoFar
  <2>2. \A n \in DOMAIN SeedIds : Committed(SeedIds[n])'
    BY <1>2, <2>1
  <2> QED  BY <1>4, <2>2 DEF SeedSoFar
<1>5. CASE phase # "serve" /\ ~ (phase = "seed" /\ seeded > 0)
  BY <1>5 DEF SeedSoFar
<1> QED  BY <1>3, <1>4, <1>5

-------------------------------------------------------------------------------
(* Boot: its steps.                                                        *)

(* While its entry is open, no order of a seed command rests in the book:  *)
(* neither the commands before it nor a client have one of its id.         *)
LEMMA SeedNotResting ==
    ASSUME BootInv, NEW n \in 1 .. 6,
           NEW last \in DOMAIN log, IsFirstOf(SeedIds[n], last), log[last].open
    PROVE  n \notin RestingIds(book)
<1>1. /\ IInv /\ LogInv /\ KeysDistinct /\ SeedSent /\ InSeedOrder
      /\ Len(log) \in Nat /\ DOMAIN log = 1 .. Len(log)
      /\ Len(SeedIds) = 7 /\ DOMAIN SeedIds = 1 .. 7 /\ n \in 1 .. 7
  <2>1. IInv /\ SeedSent /\ InSeedOrder
    BY DEF BootInv
  <2>2. LogInv
    BY <2>1 DEF IInv
  <2>3. KeysDistinct /\ Len(log) \in Nat /\ DOMAIN log = 1 .. Len(log)
    BY <2>2 DEF LogInv, Types
  <2>4. Len(SeedIds) = 7 /\ DOMAIN SeedIds = 1 .. 7 /\ n \in 1 .. 7
    BY Seed
  <2> QED  BY <2>1, <2>2, <2>3, <2>4
<1>2. SUFFICES ASSUME n \in RestingIds(book) PROVE FALSE
  OBVIOUS
<1>3. PICK s \in Sides : \E i \in DOMAIN book[s] : book[s][i].order_id = n
  BY <1>2 DEF RestingIds
<1>4. PICK i \in DOMAIN book[s] : book[s][i].order_id = n
  BY <1>3
<1>5. PICK order \in RunOrders(boot, Len(log)) : order.order_id = n
  BY <1>1, <1>3, <1>4, BookPlaced DEF Placed, LeftOf
<1>6. PICK e \in 1 .. Len(log) : /\ RanBy(runs, boot, log[e])
                                 /\ submitted[log[e].key].type = "PlaceOrder"
                                 /\ order = submitted[log[e].key].order
  BY <1>5 DEF RunOrders
<1>7. PICK k \in CommandIds : k = log[e].key
  BY <1>1, <1>6, FirstIsSent DEF RanBy
<1>8. /\ IsFirstEvent(log[e]) /\ submitted[k] # None /\ runs[k] # << >>
  BY <1>1, <1>6, <1>7, FirstIsSent DEF RanBy
<1>9. PICK m \in 1 .. 8 : /\ \A l \in 1 .. (m - 1) : Before(SeedIds[l], e)
                          /\ m \in DOMAIN SeedIds => log[e].key = SeedIds[m]
                          /\ m \notin DOMAIN SeedIds => log[e].key \in ClientIds
  BY <1>1, <1>8 DEF InSeedOrder
<1>10. CASE m \in 1 .. 7
  <2>1. k = SeedIds[m] /\ submitted[k] = SeedCommands[m]
    BY <1>1, <1>7, <1>8, <1>9, <1>10, Seed DEF SeedSent
  <2>2. m # 7
    BY <2>1, <1>6, <1>7, Seed
  <2>3. m \in 1 .. 6
    BY <1>10, <2>2
  <2>4. m = n
    BY <2>1, <2>3, <1>5, <1>6, <1>7, Seed
  <2>5. e = last
    BY <2>1, <2>4, <1>1, <1>7 DEF IsFirstOf, KeysDistinct
  <2> QED  BY <2>5, <1>1, <1>7, <1>8, OpenHasNotRun
<1>11. CASE m \notin 1 .. 7
  <2>1. m = 8 /\ n \in 1 .. (m - 1)
    BY <1>11
  <2>2. Before(SeedIds[n], e)
    BY <2>1, <1>9
  <2>3. PICK j \in DOMAIN log : IsFirstOf(SeedIds[n], j) /\ ~ log[j].open
    BY <2>2 DEF Before
  <2>4. j = last
    BY <2>3, <1>1 DEF IsFirstOf, KeysDistinct
  <2> QED  BY <2>3, <2>4
<1> QED  BY <1>10, <1>11

LEMMA RefusedKept ==
    ASSUME BootInv, AppendEvent \/ EventCommitted
    PROVE  OnlyTheCancelIsRefused'
<1>1. /\ IInv /\ SeedSent /\ OnlyTheCancelIsRefused
      /\ Len(SeedIds) = 7 /\ DOMAIN SeedIds = 1 .. 7
  BY Seed DEF BootInv
<1>2. SUFFICES ASSUME NEW i \in 1 .. 7, NEW n \in DOMAIN runs'[SeedIds[i]],
                      runs'[SeedIds[i]][n].error # "None"
               PROVE  runs'[SeedIds[i]][n].error = "OrderNotFound" /\ i = 7 /\ n = 1
  BY <1>1 DEF OnlyTheCancelIsRefused
<1>3. PICK k \in CommandIds : k = SeedIds[i]
  BY Seed
<1>4. CASE runs'[k] = runs[k]
  BY <1>1, <1>2, <1>3, <1>4 DEF OnlyTheCancelIsRefused
<1>5. CASE runs'[k] # runs[k]
  <2>1. /\ submitted[k] # None
        /\ Len(log) \in DOMAIN log /\ IsFirstOf(k, Len(log)) /\ log[Len(log)].open
        /\ \E error : /\ runs'[k] = <<[boot |-> boot, error |-> error]>>
                      /\ submitted[k].type = "PlaceOrder" =>
                            error = PlaceError(submitted[k].order, RestingIds(book))
                      /\ submitted[k].type # "PlaceOrder" => error \in {"None", "OrderNotFound"}
    BY <1>1, <1>5, RunsAre
  <2>2. PICK error : /\ runs'[k] = <<[boot |-> boot, error |-> error]>>
                     /\ submitted[k].type = "PlaceOrder" =>
                           error = PlaceError(submitted[k].order, RestingIds(book))
                     /\ submitted[k].type # "PlaceOrder" => error \in {"None", "OrderNotFound"}
    BY <2>1
  <2>3. n = 1 /\ error # "None"
    <3>1. n \in DOMAIN <<[boot |-> boot, error |-> error]>>
      BY <1>2, <1>3, <2>2
    <3>2. n = 1
      BY ONLY <3>1
    <3>3. runs'[k][n].error = error
      BY ONLY <3>2, <2>2
    <3> QED  BY <3>2, <3>3, <1>2, <1>3
  <2>4. submitted[k] = SeedCommands[i]
    <3>1. PICK m \in DOMAIN SeedIds : k = SeedIds[m] /\ submitted[k] = SeedCommands[m]
      BY <1>1, <1>3, <2>1, Seed DEF SeedSent
    <3> QED  BY <3>1, <1>3, Seed
  <2>5. CASE i = 7
    <3>1. submitted[k].type # "PlaceOrder"
      BY <2>4, <2>5, Seed
    <3>2. error = "OrderNotFound"
      BY <3>1, <2>2, <2>3
    <3>3. runs'[k][1].error = error
      BY <2>2
    <3> QED  BY <3>2, <3>3, <2>3, <2>5, <1>3
  <2>6. CASE i \in 1 .. 6
    <3>1. i \notin RestingIds(book)
      BY <2>1, <2>6, <1>3, SeedNotResting
    <3>2. /\ submitted[k].type = "PlaceOrder" /\ submitted[k].order.order_id = i
          /\ submitted[k].order.price # 0 /\ submitted[k].order.quantity # 0
      BY <2>4, <2>6, Seed
    <3>3. PICK order : order = submitted[k].order
      OBVIOUS
    <3>4. order.order_id \notin RestingIds(book) /\ order.price # 0 /\ order.quantity # 0
      BY <3>1, <3>2, <3>3
    <3>5. PlaceError(order, RestingIds(book)) = "None"
      BY <3>4 DEF PlaceError
    <3> QED  BY <3>2, <3>3, <3>5, <2>2, <2>3
  <2> QED  BY <2>5, <2>6
<1> QED  BY <1>4, <1>5

(* A step of the handler.                                                  *)
LEMMA HandlerStepBoot ==
    ASSUME BootInv, HandlerStep
    PROVE  BootInv'
<1>1. /\ IInv /\ BootTypes /\ SeedSent /\ Running /\ SeedSoFar
      /\ AppendEvent \/ EventCommitted
      /\ phase' = phase /\ tables' = tables /\ seeded' = seeded /\ listening' = listening
      /\ DOMAIN SeedIds = 1 .. 7 /\ Len(SeedIds) = 7
  BY Seed DEF BootInv, HandlerStep, bootVars
<1>2. IInv'
  BY <1>1, AppendEventSound, EventCommittedSound
<1>3. PICK p : Moved(p)
  BY <1>1, HandlerMoves
<1>4. active # None /\ active \in Calls
  BY <1>1 DEF IInv, ActiveSound, AppendEvent, EventCommitted
<1>5. /\ submitted' = submitted /\ boot' = boot
      /\ \/ /\ active' # None => active'.command_id = active.command_id
            /\ reply' = reply
         \/ active' = None /\ reply'.command_id = active.command_id
  BY <1>1, <1>4, HandlerFrame
<1>6. InSeedOrder'
  BY <1>2, <1>3, InSeedOrderKept
<1>7. Running'
  BY <1>1, <1>4, <1>5 DEF Running
<1>8. ASSUME phase = "seed", seeded > 0, IsOk(reply')
      PROVE  Committed(SeedIds[seeded])'
  <2>1. PICK n \in 1 .. 7 : n = seeded
    BY <1>1, <1>8 DEF BootTypes
  <2>2. PICK k : k = SeedIds[n]
    OBVIOUS
  <2>3. /\ k \in CommandIds \ TradeKeys /\ active.command_id = k /\ reply = None
    BY <2>1, <2>2, <1>1, <1>4, <1>8, Seed DEF Running
  <2>4. Committed(k)'
    BY <2>3, <1>1, <1>2, <1>8, OkIsCommitted
  <2>5. SeedIds[seeded]' = k
    BY <2>1, <2>2, <1>1
  <2> QED  BY <2>4, <2>5
<1>9. SeedSoFar'
  BY <1>1, <1>2, <1>3, <1>8, SeedSoFarKept
<1>10. OnlyTheCancelIsRefused'
  BY <1>1, RefusedKept
<1>11. BootTypes' /\ SeedSent'
  BY <1>1, <1>5 DEF BootTypes, SeedSent
<1> QED  BY <1>2, <1>6, <1>7, <1>9, <1>10, <1>11 DEF BootInv

(* A call begins: the seed's next command, or a client's.                  *)
LEMMA CallBoot ==
    ASSUME BootInv, NEW k \in CommandIds, NEW command \in Commands, Call(k, command),
           tables' = tables, listening' = listening, phase' = phase,
           \/ /\ phase = "seed" /\ seeded < Len(SeedIds)
              /\ seeded > 0 => IsOk(reply)
              /\ k = SeedIds[seeded + 1] /\ command = SeedCommands[seeded + 1]
              /\ seeded' = seeded + 1
           \/ phase = "serve" /\ k \in ClientIds /\ seeded' = seeded
    PROVE  BootInv'
<1>1. /\ IInv /\ BootTypes /\ SeedSent /\ SeedSoFar /\ OnlyTheCancelIsRefused
      /\ submitted \in [CommandIds -> Commands \cup {None}]
      /\ DOMAIN SeedIds = 1 .. 7 /\ Len(SeedIds) = 7
  BY Seed DEF BootInv, IInv, LogInv, Types
<1>2. /\ active' = [command_id |-> k, stage |-> "append", part |-> 0,
                    trades |-> << >>, remaining |-> 0, records |-> << >>]
      /\ active'.command_id = k
      /\ submitted[k] \in {None, command}
      /\ submitted' = [submitted EXCEPT ![k] = command]
      /\ reply' = None /\ log' = log /\ runs' = runs /\ boot' = boot
  BY DEF Call
<1>3. IInv'
  BY <1>1, CallSound
<1>4. Moved(Len(log) + 1)
  BY <1>1, <1>2, LogStays
<1>5. InSeedOrder'
  BY <1>3, <1>4, InSeedOrderKept
<1>6. OnlyTheCancelIsRefused'
  BY <1>1, <1>2 DEF OnlyTheCancelIsRefused
<1>7. ~ IsOk(reply')
  BY <1>2 DEF IsOk
<1>8. ASSUME NEW c, Committed(c)
      PROVE  Committed(c)'
  BY <1>1, <1>3, <1>4, <1>8, CommittedStays
<1>9. CASE phase = "serve" /\ k \in ClientIds /\ seeded' = seeded
  <2>1. SeedSoFar'
    BY <1>1, <1>3, <1>4, <1>7, <1>9, SeedSoFarKept
  <2>2. SeedSent'
    BY <1>1, <1>2, <1>9 DEF SeedSent
  <2>3. Running'
    BY <1>2, <1>9 DEF Running
  <2>4. BootTypes'
    BY <1>1, <1>2, <1>9 DEF BootTypes
  <2> QED  BY <2>1, <2>2, <2>3, <2>4, <1>3, <1>5, <1>6 DEF BootInv
<1>10. CASE /\ phase = "seed" /\ seeded < Len(SeedIds)
            /\ seeded > 0 => IsOk(reply)
            /\ k = SeedIds[seeded + 1] /\ command = SeedCommands[seeded + 1]
            /\ seeded' = seeded + 1
  <2>1. seeded \in Nat /\ seeded < 7 /\ seeded + 1 \in 1 .. 7 /\ seeded + 1 > 0
    BY <1>1, <1>10 DEF BootTypes
  <2>2. SeedSoFar'
    <3>1. \A n \in 1 .. seeded : Committed(SeedIds[n])
      <4>1. CASE seeded = 0
        BY <4>1
      <4>2. CASE seeded > 0
        <5>1. /\ \A n \in 1 .. (seeded - 1) : Committed(SeedIds[n])
              /\ Committed(SeedIds[seeded])
          BY <1>1, <1>10, <4>2 DEF SeedSoFar
        <5>2. \A n \in 1 .. seeded : n \in 1 .. (seeded - 1) \/ n = seeded
          BY <2>1
        <5> QED  BY <5>1, <5>2
      <4> QED  BY <2>1, <4>1, <4>2
    <3>2. ASSUME NEW n \in 1 .. seeded
          PROVE  Committed(SeedIds[n])'
      <4>1. PICK c : c = SeedIds[n]
        OBVIOUS
      <4>2. Committed(c)'
        BY <3>1, <4>1, <1>8
      <4> QED  BY <4>1, <4>2
    <3>3. seeded' - 1 = seeded
      BY <2>1, <1>10
    <3>4. \A n \in 1 .. (seeded' - 1) : Committed(SeedIds[n])'
      BY <3>2, <3>3
    <3> QED  BY <3>4, <1>7, <1>10 DEF SeedSoFar
  <2>3. SeedSent'
    <3>1. SUFFICES ASSUME NEW c \in CommandIds, submitted'[c] # None
                   PROVE  \/ c \in ClientIds
                          \/ \E n \in DOMAIN SeedIds : c = SeedIds[n] /\ submitted'[c] = SeedCommands[n]
      BY DEF SeedSent
    <3>2. CASE c = k
      <4>1. submitted'[c] = SeedCommands[seeded + 1]
        BY <3>2, <1>1, <1>2, <1>10
      <4> QED  BY <3>2, <4>1, <2>1, <1>1, <1>10
    <3>3. CASE c # k
      <4>1. submitted'[c] = submitted[c]
        BY <3>3, <1>1, <1>2
      <4> QED  BY <4>1, <3>1, <1>1 DEF SeedSent
    <3> QED  BY <3>2, <3>3
  <2>4. Running'
    BY <1>2, <1>10, <2>1 DEF Running
  <2>5. BootTypes'
    BY <1>1, <1>2, <1>10, <2>1 DEF BootTypes
  <2> QED  BY <2>2, <2>3, <2>4, <2>5, <1>3, <1>5, <1>6 DEF BootInv
<1> QED  BY <1>9, <1>10

LEMMA SeedCommandBoot ==
    ASSUME BootInv, SeedCommand
    PROVE  BootInv'
<1>1. BootTypes /\ Len(SeedIds) = 7
  BY Seed DEF BootInv
<1>2. PICK n \in 1 .. 7 : n = seeded + 1
  <2>1. seeded \in 0 .. 7 /\ seeded < 7
    BY <1>1 DEF SeedCommand, BootTypes
  <2> QED  BY <2>1
<1>3. SeedIds[n] \in CommandIds /\ SeedCommands[n] \in Commands
  BY Seed
<1>4. Call(SeedIds[n], SeedCommands[n])
  BY <1>2 DEF SeedCommand
<1>5. /\ tables' = tables /\ listening' = listening /\ phase' = phase
      /\ phase = "seed" /\ seeded < Len(SeedIds) /\ (seeded > 0 => IsOk(reply))
      /\ seeded' = seeded + 1
  BY DEF SeedCommand, SeedGoesOn
<1>6. PICK k \in CommandIds : k = SeedIds[n]
  BY <1>3
<1>7. PICK command \in Commands : command = SeedCommands[n]
  BY <1>3
<1>8. Call(k, command)
  BY <1>4, <1>6, <1>7
<1> QED  BY <1>2, <1>5, <1>6, <1>7, <1>8, CallBoot

LEMMA ClientCommandBoot ==
    ASSUME BootInv, NEW k \in ClientIds, ClientCommand(k)
    PROVE  BootInv'
<1>1. PICK command \in ClientCommands : Call(k, command)
  BY DEF ClientCommand
<1>2. /\ tables' = tables /\ listening' = listening /\ phase' = phase /\ seeded' = seeded
      /\ phase = "serve"
  BY DEF ClientCommand, bootVars, BootInv, BootTypes
<1>3. k \in CommandIds /\ command \in Commands
  BY Seed
<1> QED  BY <1>1, <1>2, <1>3, CallBoot

(* A call is given up while the process goes on.                           *)
LEMMA GivenUpBoot ==
    ASSUME BootInv, (Drop \/ Fail) /\ UNCHANGED bootVars
    PROVE  BootInv'
<1>1. /\ IInv /\ BootTypes /\ SeedSent /\ SeedSoFar /\ OnlyTheCancelIsRefused
      /\ tables' = tables /\ listening' = listening /\ phase' = phase /\ seeded' = seeded
      /\ boot' = boot
  BY DEF BootInv, bootVars, Drop, Fail
<1>2. \E r : GiveUp(r) /\ ~ IsOk(r)
  <2>1. CASE Drop
    BY <2>1, GivenUpReplies DEF Drop
  <2>2. CASE Fail
    <3>1. PICK k : k = active.command_id
      OBVIOUS
    <3>2. GiveUp(Refused(k, "EventLog"))
      BY <2>2, <3>1 DEF Fail
    <3> QED  BY <3>2, GivenUpReplies
  <2> QED  BY <2>1, <2>2, <1>1
<1>3. PICK r : GiveUp(r) /\ ~ IsOk(r)
  BY <1>2
<1>4. /\ active' = None /\ submitted' = submitted /\ runs' = runs /\ ~ IsOk(reply')
  BY <1>3 DEF GiveUp, Answer
<1>5. IInv'
  BY <1>1, DropSound
<1>6. PICK p : Moved(p)
  BY <1>1, <1>3, GiveUpMoves
<1>7. InSeedOrder' /\ SeedSoFar'
  BY <1>1, <1>4, <1>5, <1>6, InSeedOrderKept, SeedSoFarKept
<1>8. BootTypes' /\ SeedSent' /\ Running' /\ OnlyTheCancelIsRefused'
  BY <1>1, <1>4 DEF BootTypes, SeedSent, Running, OnlyTheCancelIsRefused
<1> QED  BY <1>5, <1>7, <1>8 DEF BootInv

(* The database ends a transaction nobody waits for.                       *)
LEMMA DatabaseStepBoot ==
    ASSUME BootInv, DatabaseStep
    PROVE  BootInv'
<1>1. /\ IInv /\ BootTypes /\ SeedSent /\ Running /\ SeedSoFar /\ OnlyTheCancelIsRefused
      /\ tables' = tables /\ listening' = listening /\ phase' = phase /\ seeded' = seeded
      /\ OrphanEnds
      /\ boot' = boot /\ active' = active /\ submitted' = submitted /\ runs' = runs /\ reply' = reply
  BY DEF BootInv, bootVars, DatabaseStep, OrphanEnds
<1>2. IInv'
  BY <1>1, OrphanEndsSound
<1>3. PICK p : Moved(p)
  BY <1>1, OrphanMoves
<1>4. phase = "seed" /\ seeded > 0 /\ IsOk(reply') => Committed(SeedIds[seeded])'
  <2>1. SUFFICES ASSUME phase = "seed", seeded > 0, IsOk(reply) PROVE Committed(SeedIds[seeded])'
    BY <1>1
  <2>2. PICK c : c = SeedIds[seeded]
    OBVIOUS
  <2>3. Committed(c)
    BY <2>1, <2>2, <1>1 DEF SeedSoFar
  <2>4. Committed(c)'
    BY <2>3, <1>1, <1>2, <1>3, CommittedStays
  <2> QED  BY <2>2, <2>4, <1>1
<1>5. InSeedOrder' /\ SeedSoFar'
  BY <1>1, <1>2, <1>3, <1>4, InSeedOrderKept, SeedSoFarKept
<1>6. BootTypes' /\ SeedSent' /\ Running' /\ OnlyTheCancelIsRefused'
  BY <1>1 DEF BootTypes, SeedSent, Running, OnlyTheCancelIsRefused
<1> QED  BY <1>2, <1>5, <1>6 DEF BootInv

(* The process ends and the next boot begins.                              *)
LEMMA ProcessEndsBoot ==
    ASSUME BootInv, ProcessEnds
    PROVE  BootInv'
<1>1. /\ IInv /\ BootTypes /\ SeedSent /\ OnlyTheCancelIsRefused
      /\ boot \in Nat /\ MaxBoots \in Nat
      /\ StartAgain /\ GiveUp(None) /\ boot < MaxBoots /\ boot' = boot + 1
      /\ phase' = "connect" /\ seeded' = 0 /\ listening' = {} /\ tables' = tables
  BY BootAssumption DEF BootInv, ProcessEnds, StartAgain, IInv, LogInv, Types
<1>2. active' = None /\ submitted' = submitted /\ runs' = runs
  BY <1>1 DEF GiveUp, Answer
<1>3. IInv'
  BY <1>1, StartAgainSound
<1>4. PICK p : Moved(p)
  BY <1>1, GiveUpMoves
<1>5. InSeedOrder'
  BY <1>3, <1>4, InSeedOrderKept
<1>6. 0 \in 0 .. Len(SeedIds)
  BY Seed
<1>7. boot + 1 <= MaxBoots
  BY <1>1
<1>8. BootTypes'
  BY <1>1, <1>6, <1>7 DEF BootTypes
<1>9. SeedSent' /\ Running' /\ OnlyTheCancelIsRefused' /\ SeedSoFar'
  BY <1>1, <1>2 DEF SeedSent, Running, OnlyTheCancelIsRefused, SeedSoFar
<1> QED  BY <1>3, <1>5, <1>8, <1>9 DEF BootInv

(* A step of main that leaves the handler alone.                           *)
LEMMA MainBoot ==
    ASSUME BootInv, UNCHANGED vars, BootTypes',
           \/ phase' = phase /\ seeded' = seeded
           \/ phase' \notin {"seed", "serve"} /\ active = None
           \/ phase' = "seed" /\ seeded' = 0 /\ active = None
           \/ phase = "seed" /\ SeedDone /\ phase' = "serve"
    PROVE  BootInv'
<1>1. /\ IInv /\ BootTypes /\ SeedSent /\ Running /\ SeedSoFar /\ InSeedOrder
      /\ OnlyTheCancelIsRefused
      /\ book' = book /\ log' = log /\ submitted' = submitted /\ active' = active
      /\ reply' = reply /\ runs' = runs /\ boot' = boot
      /\ DOMAIN SeedIds = 1 .. 7 /\ Len(SeedIds) = 7
  BY Seed DEF BootInv, vars
<1>2. IInv'
  BY <1>1, StutterSound
<1>3. \A c : Committed(c)' <=> Committed(c)
  BY <1>1 DEF Committed, IsFirstOf, IsFirstEvent
<1>4. InSeedOrder' /\ SeedSent' /\ OnlyTheCancelIsRefused'
  <2>1. InSeedOrder'
    BY <1>1 DEF InSeedOrder, Before, IsFirstOf, IsFirstEvent
  <2>2. SeedSent'
    BY <1>1 DEF SeedSent
  <2>3. OnlyTheCancelIsRefused'
    BY <1>1 DEF OnlyTheCancelIsRefused
  <2> QED  BY <2>1, <2>2, <2>3
<1>5. Running' /\ SeedSoFar'
  <2>1. CASE phase' = phase /\ seeded' = seeded
    BY <2>1, <1>1, <1>3 DEF Running, SeedSoFar
  <2>2. CASE phase' \notin {"seed", "serve"} /\ active = None
    BY <2>2, <1>1 DEF Running, SeedSoFar
  <2>3. CASE phase' = "seed" /\ seeded' = 0 /\ active = None
    BY <2>3, <1>1 DEF Running, SeedSoFar
  <2>4. CASE phase = "seed" /\ SeedDone /\ phase' = "serve"
    <3>1. active = None /\ seeded = 7 /\ (seeded > 0 => IsOk(reply))
      BY <2>4, <1>1 DEF SeedDone, SeedGoesOn
    <3>2. \A n \in 1 .. 6 : Committed(SeedIds[n])
      BY <2>4, <3>1, <1>1 DEF SeedSoFar
    <3>3. Committed(SeedIds[7])
      BY <2>4, <3>1, <1>1 DEF SeedSoFar
    <3>4. \A n \in 1 .. 7 : n \in 1 .. 6 \/ n = 7
      OBVIOUS
    <3>5. \A n \in 1 .. 7 : Committed(SeedIds[n])
      BY <3>2, <3>3, <3>4
    <3>6. \A n \in 1 .. 7 : Committed(SeedIds[n])'
      BY <3>5, <1>1 DEF Committed, IsFirstOf, IsFirstEvent
    <3> QED  BY <2>4, <3>1, <3>6, <1>1 DEF Running, SeedSoFar
  <2> QED  BY <2>1, <2>2, <2>3, <2>4
<1> QED  BY <1>2, <1>4, <1>5 DEF BootInv

LEMMA CreateTableBoot ==
    ASSUME BootInv, NEW table \in Tables, CreateTable(table)
    PROVE  BootInv'
<1>1. BootTypes /\ Running /\ phase = table
  BY DEF BootInv, CreateTable
<1>2. CASE TableRefused(table)
  BY <1>2, ProcessEndsBoot DEF CreateTable
<1>3. CASE ~ TableRefused(table)
  <2>1. /\ tables' = tables \cup {table}
        /\ phase' = IF table = "event_log" THEN "command_log" ELSE "seed"
        /\ UNCHANGED vars /\ seeded' = seeded /\ listening' = listening
    BY <1>3 DEF CreateTable
  <2>2. phase \notin {"seed", "serve"} /\ seeded = 0 /\ active = None /\ listening = {}
    BY <1>1 DEF BootTypes, Running, Tables
  <2>3. boot' = boot
    BY <2>1 DEF vars
  <2>4. table = "command_log" => tables' = Tables
    BY <1>1, <1>3, <2>1 DEF TableRefused, BootTypes, Tables
  <2>5. BootTypes'
    BY <1>1, <2>1, <2>2, <2>3, <2>4 DEF BootTypes, Tables
  <2>6. \/ phase' \notin {"seed", "serve"} /\ active = None
        \/ phase' = "seed" /\ seeded' = 0 /\ active = None
    BY <2>1, <2>2
  <2> QED  BY <2>1, <2>5, <2>6, MainBoot
<1> QED  BY <1>2, <1>3

LEMMA BootStepSound ==
    ASSUME BootInv, [BootNext]_processVars
    PROVE  BootInv'
<1>1. BootTypes /\ Running
  BY DEF BootInv
<1>2. ASSUME UNCHANGED processVars PROVE BootInv'
  <2>1. UNCHANGED vars /\ UNCHANGED bootVars
    BY <1>2 DEF processVars
  <2>2. boot' = boot /\ phase' = phase /\ seeded' = seeded /\ tables' = tables /\ listening' = listening
    BY <2>1 DEF vars, bootVars
  <2>3. BootTypes'
    BY <1>1, <2>2 DEF BootTypes
  <2> QED  BY <2>1, <2>2, <2>3, MainBoot
<1>3. ASSUME Connect PROVE BootInv'
  <2>1. /\ UNCHANGED vars /\ phase = "connect" /\ phase' = "event_log"
        /\ seeded' = seeded /\ tables' = tables /\ listening' = listening
    BY <1>3 DEF Connect
  <2>2. boot' = boot
    BY <2>1 DEF vars
  <2>3. BootTypes' /\ active = None
    BY <1>1, <2>1, <2>2 DEF BootTypes, Tables, Running
  <2> QED  BY <2>1, <2>3, MainBoot
<1>4. ASSUME SeedDone PROVE BootInv'
  <2>1. /\ UNCHANGED vars /\ phase = "seed" /\ phase' = "serve"
        /\ seeded' = seeded /\ tables' = tables /\ listening' = listening
    BY <1>4 DEF SeedDone
  <2>2. boot' = boot
    BY <2>1 DEF vars
  <2>3. BootTypes'
    BY <1>1, <2>1, <2>2 DEF BootTypes
  <2> QED  BY <2>1, <2>3, <1>4, MainBoot
<1>5. ASSUME NEW server \in Servers, Bind(server) PROVE BootInv'
  <2>1. /\ UNCHANGED vars /\ phase = "serve" /\ phase' = phase
        /\ seeded' = seeded /\ tables' = tables /\ listening' = listening \cup {server}
    BY <1>5 DEF Bind
  <2>2. boot' = boot
    BY <2>1 DEF vars
  <2>3. BootTypes'
    BY <1>1, <2>1, <2>2 DEF BootTypes
  <2> QED  BY <2>1, <2>3, MainBoot
<1>6. ASSUME MainStep PROVE BootInv'
  BY <1>3, <1>4, <1>5, <1>6, CreateTableBoot, SeedCommandBoot, ProcessEndsBoot DEF MainStep, SeedFails
<1>7. ASSUME BootFails \/ ProcessDies PROVE BootInv'
  BY <1>7, ProcessEndsBoot DEF BootFails, ProcessDies
<1>8. ASSUME ClientGone \/ AppendFails PROVE BootInv'
  BY <1>8, GivenUpBoot DEF ClientGone, AppendFails
<1> QED
  BY <1>2, <1>6, <1>7, <1>8, ClientCommandBoot, HandlerStepBoot, DatabaseStepBoot DEF BootNext

LEMMA BootInitSound ==
    ASSUME BootInit
    PROVE  BootInv
<1>1. /\ Init /\ phase = "connect" /\ tables \in {{}, Tables} /\ seeded = 0 /\ listening = {}
      /\ log = << >> /\ active = None /\ boot = 0
      /\ submitted = [k \in CommandIds |-> None] /\ runs = [k \in CommandIds |-> << >>]
  BY DEF BootInit, Init
<1>2. IInv
  BY <1>1, InitSound
<1>3. BootTypes
  <2>1. 0 \in 0 .. Len(SeedIds) /\ 0 <= MaxBoots
    BY Seed, BootAssumption
  <2> QED  BY <2>1, <1>1 DEF BootTypes, Tables
<1>4. SeedSent /\ Running /\ SeedSoFar /\ InSeedOrder
  BY <1>1 DEF SeedSent, Running, SeedSoFar, InSeedOrder
<1>5. OnlyTheCancelIsRefused
  BY <1>1, Seed DEF OnlyTheCancelIsRefused
<1> QED  BY <1>2, <1>3, <1>4, <1>5 DEF BootInv

-------------------------------------------------------------------------------
(* Boot: what holds.                                                       *)

(* Over all boots, the start-up, the seed, the clients and the handler     *)
(* keep this.                                                              *)
THEOREM BootInvariance == BootSpec => []BootInv
<1>1. BootInit => BootInv
  BY BootInitSound
<1>2. BootInv /\ [BootNext]_processVars => BootInv'
  BY BootStepSound
<1> QED  BY <1>1, <1>2, PTL DEF BootSpec

(* A boot seeds and serves with both tables there, a server listens only   *)
(* behind the seed, and the handler's variables keep their types.          *)
THEOREM BootTypeCorrectness == BootSpec => []BootTypeOK
<1>1. BootInv => BootTypeOK
  <2> SUFFICES ASSUME BootInv PROVE BootTypeOK
    OBVIOUS
  <2>1. TypeOK
    BY TypesOfInvariant DEF BootInv
  <2> QED  BY <2>1 DEF BootInv, BootTypes, BootTypeOK
<1> QED  BY <1>1, BootInvariance, PTL

(* No command of the seed but the cancel is ever refused, and that once.   *)
THEOREM OnlyCancelRefused == BootSpec => []OnlyTheCancelIsRefused
<1>1. BootInv => OnlyTheCancelIsRefused
  BY DEF BootInv
<1> QED  BY <1>1, BootInvariance, PTL

LEMMA Prefixed ==
    ASSUME NEW S, NEW s \in Seq(S), NEW t \in Seq(S), Len(s) <= Len(t),
           \A i \in 1 .. Len(s) : s[i] = t[i]
    PROVE  IsPrefix(s, t)
<1>1. Len(s) \in Nat /\ Len(t) \in Nat
  OBVIOUS
<1>2. /\ \A i \in 1 .. Len(s) : s[i] \in S
      /\ \A i \in 1 .. Len(s) : t[i] \in S
  BY <1>1
<1> DEFINE f == SubSeq(s, 1, Len(s))
           g == SubSeq(t, 1, Len(s))
<1>3. /\ f \in Seq(S) /\ Len(f) = Len(s)
      /\ \A i \in 1 .. Len(s) : f[i] = s[i]
  BY <1>1, <1>2, SubSeqProperties
<1>4. /\ g \in Seq(S) /\ Len(g) = Len(s)
      /\ \A i \in 1 .. Len(s) : g[i] = t[i]
  BY <1>1, <1>2, SubSeqProperties
<1> HIDE DEF f, g
<1>5. f = g
  BY <1>3, <1>4, SeqEqual
<1> QED  BY <1>5 DEF IsPrefix, f, g

(* The n-th first event of the log is the seed's n-th command, as long as  *)
(* there is one.                                                           *)
LEMMA SeedFirst ==
    ASSUME BootInv
    PROVE  /\ Len(Commanded) \in Nat /\ Commanded \in Seq(CommandIds)
           /\ \A n \in 1 .. Len(Commanded) : n <= 7 => Commanded[n] = SeedIds[n]
<1> DEFINE P == {i \in DOMAIN log : IsFirstEvent(log[i])}
           A == Ascending(P)
           N == Cardinality(P)
<1>1. /\ InSeedOrder /\ KeysDistinct /\ FirstEventsSent
      /\ log \in Seq(Entries) /\ Len(log) \in Nat /\ DOMAIN log = 1 .. Len(log)
      /\ Len(SeedIds) = 7 /\ DOMAIN SeedIds = 1 .. 7
      /\ \A m, n \in 1 .. 7 : SeedIds[m] = SeedIds[n] => m = n
  BY Seed DEF BootInv, IInv, LogInv, Types
<1>2. /\ N \in Nat
      /\ FirstEvents = At(log, P)
      /\ FirstEvents \in Seq(Entries) /\ DOMAIN FirstEvents = 1 .. N
      /\ \A i \in 1 .. N : A[i] \in P /\ FirstEvents[i] = log[A[i]]
      /\ \A i, j \in 1 .. N : i < j <=> A[i] < A[j]
      /\ \A q \in P : \E i \in 1 .. N : A[i] = q
  <2>1. FirstEvents = At(log, P)
    BY DEF FirstEvents
  <2>2. P \in SUBSET DOMAIN log
    OBVIOUS
  <2> HIDE DEF P
  <2> QED  BY <2>1, <2>2, <1>1, AtPicks
<1>3. \A q \in P : q \in DOMAIN log /\ IsFirstEvent(log[q])
  OBVIOUS
<1>4. \A q \in DOMAIN log : IsFirstEvent(log[q]) => q \in P
  OBVIOUS
<1> HIDE DEF P, A, N
<1>5. /\ Commanded = [i \in 1 .. N |-> log[A[i]].key]
      /\ Commanded \in Seq(CommandIds) /\ Len(Commanded) = N
      /\ \A i \in 1 .. N : Commanded[i] = log[A[i]].key
  <2>1. Commanded = [i \in 1 .. N |-> log[A[i]].key]
    BY <1>2 DEF Commanded
  <2>2. \A i \in 1 .. N : log[A[i]].key \in CommandIds
    BY <1>1, <1>2, <1>3 DEF FirstEventsSent
  <2> QED  BY <2>1, <2>2, <1>2
<1> DEFINE Good(n) == \A i \in 1 .. n : i <= N /\ i <= 7 => Commanded[i] = SeedIds[i]
           T == {n \in Nat : Good(n)}
<1>6. 0 \in T
  OBVIOUS
<1>7. ASSUME NEW n \in T
      PROVE  n + 1 \in T
  <2>1. n \in Nat /\ Good(n)
    BY <1>7
  <2> HIDE DEF T
  <2>2. SUFFICES ASSUME n + 1 <= N, n + 1 <= 7
                 PROVE  Commanded[n + 1] = SeedIds[n + 1]
    <3>1. ASSUME NEW i \in 1 .. (n + 1), i # n + 1 PROVE i \in 1 .. n
      BY <2>1, <3>1
    <3> QED  BY <2>1, <3>1 DEF T
  <2>3. n + 1 \in 1 .. N /\ n + 1 \in 1 .. 7
    BY <2>1, <2>2
  <2>4. PICK e \in DOMAIN log : e = A[n + 1] /\ IsFirstEvent(log[e])
    BY <2>3, <1>2, <1>3
  <2>5. PICK m \in 1 .. 8 : /\ \A l \in 1 .. (m - 1) : Before(SeedIds[l], e)
                            /\ m \in 1 .. 7 => log[e].key = SeedIds[m]
    BY <2>4, <1>1 DEF InSeedOrder
  <2>6. ASSUME NEW l \in 1 .. (m - 1)
        PROVE  \E j \in 1 .. n : Commanded[j] = SeedIds[l]
    <3>1. PICK q \in 1 .. (e - 1) : q \in DOMAIN log /\ IsFirstOf(SeedIds[l], q)
      BY <2>5 DEF Before
    <3>2. PICK j \in 1 .. N : A[j] = q
      BY <3>1, <1>2, <1>4 DEF IsFirstOf
    <3>3. q < e
      BY <3>1, <2>4, <1>1
    <3>4. j < n + 1
      BY <3>2, <3>3, <2>3, <2>4, <1>2
    <3>5. j \in 1 .. n
      BY <3>4, <2>1
    <3> QED  BY <3>1, <3>2, <3>5, <1>5 DEF IsFirstOf
  <2>7. \A j \in 1 .. n : j \in 1 .. N /\ j \in 1 .. 7 /\ Commanded[j] = SeedIds[j]
    BY <2>1, <2>3, <1>2
  <2>8. m <= n + 1
    <3>1. SUFFICES ASSUME ~ (m <= n + 1) PROVE FALSE
      OBVIOUS
    <3>2. n + 1 \in 1 .. (m - 1)
      BY <3>1, <2>1
    <3>3. PICK j \in 1 .. n : Commanded[j] = SeedIds[n + 1]
      BY <3>2, <2>6
    <3>4. j = n + 1
      BY <3>3, <2>3, <2>7, <1>1
    <3> QED  BY <3>4, <2>1
  <2>9. m \in 1 .. 7 /\ log[e].key = SeedIds[m]
    BY <2>3, <2>5, <2>8
  <2>10. m = n + 1
    <3>1. SUFFICES ASSUME m \in 1 .. n PROVE FALSE
      BY <2>1, <2>8, <2>9
    <3>2. m \in 1 .. N /\ Commanded[m] = SeedIds[m]
      BY <3>1, <2>7
    <3>3. log[A[m]].key = log[e].key /\ A[m] \in DOMAIN log
      BY <3>2, <2>9, <1>2, <1>3, <1>5
    <3>4. A[m] = A[n + 1]
      BY <3>3, <2>4, <1>1 DEF KeysDistinct
    <3>5. m < n + 1
      BY <3>1, <2>1
    <3>6. A[m] < A[n + 1]
      BY <3>2, <3>5, <2>3, <1>2
    <3>7. A[m] \in Nat
      BY <3>3, <1>1
    <3> QED  BY <3>4, <3>6, <3>7
  <2> QED  BY <2>3, <2>4, <2>9, <2>10, <1>5
<1>8. T = Nat
  <2>1. T \subseteq Nat
    OBVIOUS
  <2> HIDE DEF T
  <2> QED  BY <1>6, <1>7, <2>1, SetInduction
<1>9. Good(N)
  <2>1. N \in T
    BY <1>2, <1>8
  <2> HIDE DEF Good
  <2> QED  BY <2>1
<1>10. \A n \in 1 .. N : n <= N
  BY <1>2
<1> QED  BY <1>2, <1>5, <1>9, <1>10

LEMMA ListensBehindSeed ==
    ASSUME BootInv, listening # {}
    PROVE  \A i \in DOMAIN SeedIds : Logged(SeedIds[i])
<1>1. \A n \in DOMAIN SeedIds : Committed(SeedIds[n])
  BY DEF BootInv, BootTypes, SeedSoFar
<1>2. ASSUME NEW k, Committed(k) PROVE Logged(k)
  BY <1>2 DEF Committed, Logged, ClosedAt, IsFirstOf
<1> QED  BY <1>1, <1>2

(* However many boots it takes and whatever fails, the seed's commands     *)
(* stand in the log in their order, before any client's, and a server that *)
(* listens has them all behind it.                                         *)
THEOREM SeedFirstInLog == BootSpec => []SeedComesFirst
<1>1. BootInv => SeedComesFirst
  <2> SUFFICES ASSUME BootInv PROVE SeedComesFirst
    OBVIOUS
  <2>1. /\ Len(Commanded) \in Nat /\ Commanded \in Seq(CommandIds)
        /\ \A n \in 1 .. Len(Commanded) : n <= 7 => Commanded[n] = SeedIds[n]
        /\ Len(SeedIds) = 7 /\ DOMAIN SeedIds = 1 .. 7 /\ SeedIds \in Seq(CommandIds)
    BY Seed, SeedFirst, BootAssumption
  <2> HIDE DEF Commanded
  <2>2. CASE Len(Commanded) <= 7
    <3>1. \A n \in 1 .. Len(Commanded) : Commanded[n] = SeedIds[n]
      BY <2>1, <2>2
    <3>2. IsPrefix(Commanded, SeedIds)
      BY <3>1, <2>1, <2>2, Prefixed
    <3> QED  BY <3>2, ListensBehindSeed DEF SeedComesFirst
  <2>3. CASE ~ (Len(Commanded) <= 7)
    <3>1. \A n \in 1 .. Len(SeedIds) : SeedIds[n] = Commanded[n]
      BY <2>1, <2>3
    <3>2. Len(SeedIds) <= Len(Commanded)
      BY <2>1, <2>3
    <3>3. IsPrefix(SeedIds, Commanded)
      BY <3>1, <3>2, <2>1, Prefixed
    <3> QED  BY <3>3, ListensBehindSeed DEF SeedComesFirst
  <2> QED  BY <2>2, <2>3
<1> QED  BY <1>1, BootInvariance, PTL

-------------------------------------------------------------------------------
(* Gateway: the inductive invariant.                                       *)

(* What the APIs let through: neither number is zero, and those of GraphQL *)
(* are as small for the engine as they were for the client.                *)
LetThrough(order) == order.price \in U64 \ {0} /\ order.quantity \in U64 \ {0}

Small(order) == order.price < Half /\ order.quantity < Half

RequestsChecked ==
    \A k \in CommandIds : submitted[k] # None /\ submitted[k].type = "PlaceOrder" =>
        /\ LetThrough(submitted[k].order)
        /\ "graphql" \in via[k] => Small(submitted[k].order)

(* The running call came through the API that asked last, and so did the   *)
(* one that was answered.                                                  *)
PlacedNow == IsOk(reply) /\ reply.result = "OrderPlaced" /\ reply.inserted

AskerSent ==
    /\ active # None => asker \in via[active.command_id]
    /\ PlacedNow => asker \in via[reply.command_id]

GatewayInv ==
    /\ IInv
    /\ asker \in {"grpc", "graphql", None}
    /\ via \in [CommandIds -> SUBSET {"grpc", "graphql"}]
    /\ \A k \in CommandIds : via[k] = {} <=> submitted[k] = None
    /\ RequestsChecked
    /\ ArgumentsCostNoId
    /\ AskerSent

LEMMA CastKeeps ==
    ASSUME NEW i \in I64, i > 0
    PROVE  AsU64(i) = i /\ AsU64(i) \in U64 /\ AsU64(i) < Half /\ AsU64(i) # 0
<1>1. Half \in Nat /\ Half > 0
  BY GatewayAssumption
<1>2. i \in Nat /\ i < Half /\ 2 * Half \in Nat /\ 2 * Half > 0 /\ i < 2 * Half
  BY <1>1 DEF I64
<1>3. i % (2 * Half) = i
  BY <1>2
<1> QED  BY <1>1, <1>2, <1>3 DEF AsU64, U64

(* A request that is let through calls the handler.                        *)
LEMMA ForwardSound ==
    ASSUME GatewayInv, NEW api \in {"grpc", "graphql"}, NEW k \in CommandIds,
           NEW command \in Commands, Forward(api, k, command),
           command.type = "PlaceOrder" =>
               LetThrough(command.order) /\ (api = "graphql" => Small(command.order))
    PROVE  GatewayInv'
<1>1. /\ IInv /\ RequestsChecked /\ ArgumentsCostNoId
      /\ via \in [CommandIds -> SUBSET {"grpc", "graphql"}]
      /\ \A c \in CommandIds : via[c] = {} <=> submitted[c] = None
      /\ submitted \in [CommandIds -> Commands \cup {None}]
      /\ command # None
  BY CommandKinds DEF GatewayInv, IInv, LogInv, Types
<1>2. /\ submitted[k] \in {None, command} /\ submitted' = [submitted EXCEPT ![k] = command]
      /\ runs' = runs /\ asker' = api /\ via' = [via EXCEPT ![k] = @ \cup {api}]
      /\ Call(k, command)
  BY DEF Forward, Call
<1>3. IInv'
  BY <1>1, <1>2, CallSound
<1>4. /\ via' \in [CommandIds -> SUBSET {"grpc", "graphql"}]
      /\ \A c \in CommandIds : via'[c] = {} <=> submitted'[c] = None
  BY <1>1, <1>2
<1>5. RequestsChecked'
  <2>1. ASSUME NEW c \in CommandIds, submitted'[c] # None, submitted'[c].type = "PlaceOrder"
        PROVE  /\ LetThrough(submitted'[c].order)
               /\ "graphql" \in via'[c] => Small(submitted'[c].order)
    <3>1. CASE c # k
      <4>1. submitted'[c] = submitted[c] /\ via'[c] = via[c]
        BY <3>1, <1>1, <1>2
      <4> QED  BY <4>1, <2>1, <1>1 DEF RequestsChecked
    <3>2. CASE c = k
      <4>1. submitted'[k] = command /\ via'[k] = via[k] \cup {api}
        BY <1>1, <1>2
      <4>2. command.type = "PlaceOrder"
        BY <3>2, <4>1, <2>1
      <4>3. "graphql" \in via[k] => Small(command.order)
        <5>1. via[k] # {} => submitted[k] = command
          BY <1>1, <1>2
        <5> QED  BY <5>1, <4>2, <1>1 DEF RequestsChecked
      <4> QED  BY <3>2, <4>1, <4>2, <4>3
    <3> QED  BY <3>1, <3>2
  <2> QED  BY <2>1 DEF RequestsChecked, LetThrough, Small
<1>6. ArgumentsCostNoId'
  BY <1>1, <1>2 DEF ArgumentsCostNoId
<1>7. AskerSent'
  <2>1. active'.command_id = k /\ reply' = None
    BY <1>2 DEF Call
  <2>2. api \in via'[k]
    BY <1>1, <1>2
  <2> QED  BY <2>1, <2>2, <1>2 DEF AskerSent, PlacedNow, IsOk
<1> QED  BY <1>2, <1>3, <1>4, <1>5, <1>6, <1>7 DEF GatewayInv

(* A refused request changes nothing.                                      *)
LEMMA RefusedChangesNothing ==
    ASSUME GatewayInv, UNCHANGED allVars
    PROVE  GatewayInv'
<1>1. /\ UNCHANGED vars /\ asker' = asker /\ via' = via
      /\ submitted' = submitted /\ runs' = runs
  BY DEF allVars, gatewayVars, vars
<1>2. IInv'
  BY <1>1, StutterSound DEF GatewayInv
<1>3. AskerSent'
  BY <1>1 DEF GatewayInv, AskerSent, PlacedNow, IsOk, vars
<1> QED  BY <1>1, <1>2, <1>3 DEF GatewayInv, RequestsChecked, ArgumentsCostNoId, LetThrough, Small

LEMMA RequestSound ==
    ASSUME GatewayInv, Request
    PROVE  GatewayInv'
<1>1. Half \in Nat \ {0} /\ U64 \subseteq Prices /\ U64 \subseteq Quantities
      /\ GrpcNumbers \subseteq U64 /\ GraphqlNumbers \subseteq I64
      /\ U64 \subseteq Nat
  BY GatewayAssumption DEF U64
<1>2. ASSUME NEW r \in GrpcOrders, GrpcPlaceOrder(r), ~ GrpcRefuses(r)
      PROVE  GatewayInv'
  <2>1. /\ r.command_id \in CommandIds /\ r.order_id \in OrderIds
        /\ r.price \in U64 /\ r.quantity \in U64 /\ r.price # 0 /\ r.quantity # 0
    BY <1>1, <1>2 DEF GrpcOrders, GrpcRefuses
  <2> DEFINE order == GrpcOrder(r)
  <2>2. order \in Submitted /\ LetThrough(order)
    BY <1>1, <2>1 DEF GrpcOrder, Submitted, ParseSide, Sides, LetThrough
  <2> HIDE DEF order
  <2>3. PlaceOrder(order) \in Commands
    BY <2>2, GatewayAssumption
  <2>4. PlaceOrder(order).order = order
    BY DEF PlaceOrder
  <2>5. Forward("grpc", r.command_id, PlaceOrder(order))
    BY <1>2 DEF GrpcPlaceOrder, order
  <2> QED  BY <2>1, <2>2, <2>3, <2>4, <2>5, ForwardSound
<1>3. ASSUME NEW r \in GraphqlOrders, GraphqlPlaceOrder(r), ~ GraphqlRefuses(r)
      PROVE  GatewayInv'
  <2>1. /\ r.command_id \in CommandIds /\ r.order_id \in OrderIds /\ r.side \in Sides
        /\ r.price \in I64 /\ r.quantity \in I64 /\ r.price > 0 /\ r.quantity > 0
    <3>1. r.price \in I64 /\ r.quantity \in I64 /\ ~ (r.price <= 0) /\ ~ (r.quantity <= 0)
      BY <1>1, <1>3 DEF GraphqlOrders, GraphqlRefuses
    <3>2. r.price > 0 /\ r.quantity > 0
      BY <3>1, <1>1 DEF I64
    <3> QED  BY <3>1, <3>2, <1>3 DEF GraphqlOrders, GraphqlRefuses
  <2>2. /\ AsU64(r.price) = r.price /\ AsU64(r.price) \in U64 /\ AsU64(r.price) < Half
        /\ AsU64(r.quantity) = r.quantity /\ AsU64(r.quantity) \in U64 /\ AsU64(r.quantity) < Half
        /\ AsU64(r.price) # 0 /\ AsU64(r.quantity) # 0
    BY <2>1, CastKeeps
  <2> DEFINE order == GraphqlOrder(r)
  <2>3. order \in Submitted /\ LetThrough(order) /\ Small(order)
    BY <1>1, <2>1, <2>2 DEF GraphqlOrder, Submitted, LetThrough, Small
  <2> HIDE DEF order
  <2>4. PlaceOrder(order) \in Commands
    BY <2>3, GatewayAssumption
  <2>5. PlaceOrder(order).order = order
    BY DEF PlaceOrder
  <2>6. Forward("graphql", r.command_id, PlaceOrder(order))
    BY <1>3 DEF GraphqlPlaceOrder, order
  <2> QED  BY <2>1, <2>3, <2>4, <2>5, <2>6, ForwardSound
<1>4. ASSUME NEW api \in {"grpc", "graphql"}, NEW k \in CommandIds, NEW id \in OrderIds,
             Forward(api, k, CancelOrder(id))
      PROVE  GatewayInv'
  <2>1. CancelOrder(id) \in Commands
    BY GatewayAssumption
  <2>2. CancelOrder(id).type # "PlaceOrder"
    BY DEF CancelOrder
  <2> QED  BY <2>1, <2>2, <1>4, ForwardSound
<1>5. ASSUME NEW k \in CommandIds \cup {Empty}, NEW id \in OrderIds, GrpcCancelOrder(k, id)
      PROVE  GatewayInv'
  <2>1. CASE k = Empty
    BY <1>5, <2>1, RefusedChangesNothing DEF GrpcCancelOrder
  <2>2. CASE k # Empty
    BY <1>4, <1>5, <2>2 DEF GrpcCancelOrder
  <2> QED  BY <2>1, <2>2
<1>6. ASSUME NEW k \in CommandIds \cup {Empty}, NEW id \in OrderIds \cup {NotU64},
             GraphqlCancelOrder(k, id)
      PROVE  GatewayInv'
  <2>1. CASE k = Empty \/ id = NotU64
    BY <1>6, <2>1, RefusedChangesNothing DEF GraphqlCancelOrder
  <2>2. CASE ~ (k = Empty \/ id = NotU64)
    BY <1>4, <1>6, <2>2 DEF GraphqlCancelOrder
  <2> QED  BY <2>1, <2>2
<1>7. ASSUME NEW r \in GrpcOrders, GrpcPlaceOrder(r)
      PROVE  GatewayInv'
  BY <1>2, <1>7, RefusedChangesNothing DEF GrpcPlaceOrder
<1>8. ASSUME NEW r \in GraphqlOrders, GraphqlPlaceOrder(r)
      PROVE  GatewayInv'
  BY <1>3, <1>8, RefusedChangesNothing DEF GraphqlPlaceOrder
<1> QED  BY <1>5, <1>6, <1>7, <1>8 DEF Request

(* The engine's checks of the numbers do not decide.                       *)
LEMMA ArgumentsStay ==
    ASSUME GatewayInv, AppendEvent \/ EventCommitted
    PROVE  ArgumentsCostNoId'
<1>1. IInv /\ RequestsChecked /\ ArgumentsCostNoId
  BY DEF GatewayInv
<1>2. SUFFICES ASSUME NEW k \in CommandIds, NEW n \in DOMAIN runs'[k]
               PROVE  runs'[k][n].error \notin {"InvalidPrice", "InvalidQuantity"}
  BY DEF ArgumentsCostNoId
<1>3. CASE runs'[k] = runs[k]
  BY <1>1, <1>2, <1>3 DEF ArgumentsCostNoId
<1>4. CASE runs'[k] # runs[k]
  <2>1. submitted[k] # None /\ submitted[k] \in Commands
    BY <1>1, <1>4, RunsAre
  <2>2. PICK error : /\ runs'[k] = <<[boot |-> boot, error |-> error]>>
                     /\ submitted[k].type = "PlaceOrder" =>
                           error = PlaceError(submitted[k].order, RestingIds(book))
                     /\ submitted[k].type # "PlaceOrder" => error \in {"None", "OrderNotFound"}
    BY <1>1, <1>4, RunsAre
  <2>3. runs'[k][n].error = error
    <3>1. n \in DOMAIN <<[boot |-> boot, error |-> error]>>
      BY <1>2, <2>2
    <3>2. n = 1
      BY <3>1
    <3> QED  BY <3>2, <2>2
  <2>4. CASE submitted[k].type = "PlaceOrder"
    <3>1. PICK order : order = submitted[k].order
      OBVIOUS
    <3>2. order.price # 0 /\ order.quantity # 0
      BY <3>1, <2>1, <2>4, <1>1 DEF RequestsChecked, LetThrough
    <3>3. PlaceError(order, RestingIds(book)) \in {"DuplicateOrderId", "None"}
      BY <3>2 DEF PlaceError
    <3> QED  BY <3>1, <3>3, <2>2, <2>3, <2>4
  <2> QED  BY <2>2, <2>3, <2>4
<1> QED  BY <1>3, <1>4

LEMMA GatewayStepSound ==
    ASSUME GatewayInv, [GatewayNext]_allVars
    PROVE  GatewayInv'
<1>1. CASE Request
  BY <1>1, RequestSound
<1>2. CASE UNCHANGED allVars
  BY <1>2, RefusedChangesNothing
<1>3. CASE (AppendEvent \/ EventCommitted \/ Drop \/ Fail \/ OrphanEnds) /\ UNCHANGED gatewayVars
  <2>1. /\ IInv /\ RequestsChecked /\ ArgumentsCostNoId /\ AskerSent
        /\ asker' = asker /\ via' = via
    BY <1>3 DEF GatewayInv, gatewayVars
  <2>2. IInv'
    BY <1>3, <2>1, AppendEventSound, EventCommittedSound, DropSound, OrphanEndsSound
  <2>3. submitted' = submitted
    BY <1>3 DEF AppendEvent, EventCommitted, Drop, Fail, GiveUp, OrphanEnds
  <2>4. ArgumentsCostNoId'
    <3>1. CASE Drop \/ Fail \/ OrphanEnds
      <4>1. runs' = runs
        BY <3>1 DEF Drop, Fail, GiveUp, OrphanEnds
      <4> QED  BY <4>1, <2>1 DEF ArgumentsCostNoId
    <3> QED  BY <3>1, <1>3, ArgumentsStay
  <2>5. AskerSent'
    <3>1. CASE AppendEvent \/ EventCommitted
      <4>1. active # None /\ active \in Calls
        BY <3>1, <2>1 DEF AppendEvent, EventCommitted, IInv, ActiveSound
      <4>2. \/ /\ active' # None => active'.command_id = active.command_id
               /\ reply' = reply
            \/ active' = None /\ reply'.command_id = active.command_id
        BY <3>1, <4>1, HandlerFrame
      <4>3. CASE reply' = reply /\ (active' # None => active'.command_id = active.command_id)
        <5>1. PlacedNow' <=> PlacedNow
          BY <4>3 DEF PlacedNow, IsOk
        <5> QED  BY <4>1, <4>3, <5>1, <2>1 DEF AskerSent
      <4>4. CASE active' = None /\ reply'.command_id = active.command_id
        BY <4>1, <4>4, <2>1 DEF AskerSent
      <4> QED  BY <4>2, <4>3, <4>4
    <3>2. CASE Drop \/ Fail
      <4>1. active' = None /\ ~ IsOk(reply')
        BY <3>2, GivenUpReplies DEF Drop, Fail, GiveUp, Answer
      <4>2. ~ PlacedNow'
        BY <4>1 DEF PlacedNow, IsOk
      <4> QED  BY <4>1, <4>2 DEF AskerSent
    <3>3. CASE OrphanEnds
      <4>1. active' = active /\ reply' = reply
        BY <3>3 DEF OrphanEnds
      <4> QED  BY <4>1, <2>1 DEF AskerSent, PlacedNow, IsOk
    <3> QED  BY <3>1, <3>2, <3>3, <1>3
  <2> QED  BY <2>1, <2>2, <2>3, <2>4, <2>5 DEF GatewayInv, RequestsChecked, LetThrough, Small
<1> QED  BY <1>1, <1>2, <1>3 DEF GatewayNext

LEMMA GatewayInitSound ==
    ASSUME GatewayInit
    PROVE  GatewayInv
<1>1. /\ Init /\ asker = None /\ via = [k \in CommandIds |-> {}]
      /\ submitted = [k \in CommandIds |-> None] /\ runs = [k \in CommandIds |-> << >>]
  BY DEF GatewayInit, Init
<1>2. IInv
  BY <1>1, InitSound
<1>3. AskerSent
  BY <1>1 DEF Init, AskerSent, PlacedNow, IsOk
<1> QED  BY <1>1, <1>2, <1>3 DEF GatewayInv, RequestsChecked, ArgumentsCostNoId

-------------------------------------------------------------------------------
(* Gateway: what holds.                                                    *)

(* Requests of both APIs and the handler's steps keep this.                *)
THEOREM GatewayInvariance == GatewaySpec => []GatewayInv
<1>1. GatewayInit => GatewayInv
  BY GatewayInitSound
<1>2. GatewayInv /\ [GatewayNext]_allVars => GatewayInv'
  BY GatewayStepSound
<1> QED  BY <1>1, <1>2, PTL DEF GatewaySpec

(* The engine gets u64s from both APIs, and a command id stands for a      *)
(* command exactly if it was sent through one of them.                     *)
THEOREM GatewayTypeCorrectness == GatewaySpec => []GatewayTypeOK
<1>1. GatewayInv => GatewayTypeOK
  BY TypesOfInvariant DEF GatewayInv, GatewayTypeOK, RequestsChecked, LetThrough
<1> QED  BY <1>1, GatewayInvariance, PTL

(* No command id is spent on a price or a quantity the engine refuses: the *)
(* APIs have refused it before it is logged.                               *)
THEOREM NoIdForArguments == GatewaySpec => []ArgumentsCostNoId
<1>1. GatewayInv => ArgumentsCostNoId
  BY DEF GatewayInv
<1> QED  BY <1>1, GatewayInvariance, PTL

(* An order that all its requests sent through GraphQL has small numbers.  *)
LEMMA ByGraphqlSmall ==
    ASSUME GatewayInv, NEW k \in CommandIds, submitted[k] # None,
           submitted[k].type = "PlaceOrder", ByGraphql(submitted[k].order.order_id)
    PROVE  Small(submitted[k].order)
<1>1. k \in OrdersOf(submitted[k].order.order_id)
  BY DEF OrdersOf
<1> QED  BY <1>1 DEF ByGraphql, GatewayInv, RequestsChecked

LEMMA TradesShown ==
    ASSUME GatewayInv
    PROVE  ShownAsTraded
<1>1. IInv /\ TradesFollowMatching /\ MatchedTrades /\ Half \in Nat
  BY GatewayAssumption DEF GatewayInv, IInv
<1>2. SUFFICES ASSUME NEW i \in DOMAIN log, ~ IsFirstEvent(log[i]),
                      NEW trade, trade = log[i].event.trade
               PROVE  /\ ByGraphql(trade.maker_order_id) \/ ByGraphql(trade.taker_order_id) =>
                             GraphqlTrade(trade).quantity = trade.quantity
                      /\ ByGraphql(trade.maker_order_id)
                            \/ (ByGraphql(trade.taker_order_id) /\ Buys(trade.taker_order_id)) =>
                             GraphqlTrade(trade).price = trade.price
  BY DEF ShownAsTraded
<1>3. PICK k \in CommandIds : \E n \in DOMAIN Matched(k) : log[i].event = TradeExecuted(Matched(k)[n])
  BY <1>1, <1>2 DEF TradesFollowMatching
<1>4. PICK n \in DOMAIN Matched(k) : log[i].event = TradeExecuted(Matched(k)[n])
  BY <1>3
<1>5. trade = Matched(k)[n]
  BY <1>2, <1>4 DEF TradeExecuted
<1>6. Matched(k) \in Seq(Trade)
  BY <1>1 DEF MatchedTrades
<1> DEFINE taker == submitted[k].order
<1>7. /\ submitted[k] # None /\ submitted[k].type = "PlaceOrder" /\ taker \in LimitOrder
      /\ \E maker \in RunOrders(runs[k][1].boot, Len(log)) :
            TradeBetween(Matched(k)[n], maker, taker)
  BY <1>1, MatchedPlaced
<1>8. PICK maker \in RunOrders(runs[k][1].boot, Len(log)) : TradeBetween(trade, maker, taker)
  BY <1>5, <1>7
<1>9. trade \in Trade
  <2> HIDE DEF Matched
  <2> QED  BY <1>5, <1>6
<1> HIDE DEF Matched
<1>10. Len(log) \in Nat /\ DOMAIN log = 1 .. Len(log)
  BY <1>1 DEF IInv, LogInv, Types
<1>11. PICK j \in 1 .. Len(log) : /\ RanBy(runs, runs[k][1].boot, log[j])
                                  /\ submitted[log[j].key].type = "PlaceOrder"
                                  /\ maker = submitted[log[j].key].order
  BY <1>8 DEF RunOrders
<1>12. PICK c \in CommandIds : /\ c = log[j].key /\ submitted[c] # None
                               /\ submitted[c].type = "PlaceOrder" /\ maker = submitted[c].order
  BY <1>1, <1>10, <1>11, FirstIsSent DEF RanBy
<1>13. maker \in LimitOrder
  <2>1. Len(log) \in 0 .. Len(log)
    BY <1>10
  <2> QED  BY <2>1, <1>1, <1>8, RunOrdersAre
<1>14. /\ ByGraphql(trade.maker_order_id) => maker.price < Half /\ maker.quantity < Half
       /\ ByGraphql(trade.taker_order_id) => taker.price < Half /\ taker.quantity < Half
  BY <1>7, <1>8, <1>12, ByGraphqlSmall DEF TradeBetween, Small
<1>15. ByGraphql(trade.taker_order_id) /\ Buys(trade.taker_order_id) => taker.side = "Bid"
  BY <1>7, <1>8 DEF TradeBetween, OrdersOf, Buys
<1> HIDE DEF taker
<1>16. /\ trade.price \in Nat /\ trade.quantity \in Nat
       /\ maker.price \in Nat /\ maker.quantity \in Nat
       /\ taker.price \in Nat /\ taker.quantity \in Nat
  BY <1>7, <1>9, <1>13, OrdersAssumption DEF LimitOrder, Trade
<1>17. ASSUME NEW q \in Nat, q < Half
       PROVE  AsI64(q) = q
  BY <1>1, <1>17 DEF AsI64, I64
<1>18. GraphqlTrade(trade).price = AsI64(trade.price)
       /\ GraphqlTrade(trade).quantity = AsI64(trade.quantity)
  BY <1>9 DEF GraphqlTrade, Trade
<1>19. ByGraphql(trade.maker_order_id) \/ ByGraphql(trade.taker_order_id) => trade.quantity < Half
  BY <1>1, <1>8, <1>14, <1>16 DEF TradeBetween
<1>20. ByGraphql(trade.maker_order_id)
          \/ (ByGraphql(trade.taker_order_id) /\ Buys(trade.taker_order_id)) => trade.price < Half
  <2>1. ByGraphql(trade.maker_order_id) => trade.price < Half
    BY <1>1, <1>8, <1>14, <1>16 DEF TradeBetween
  <2>2. taker.side = "Bid" => trade.price <= taker.price
    BY <1>8, <1>16 DEF TradeBetween, Crosses, Better
  <2> QED  BY <2>1, <2>2, <1>1, <1>14, <1>15, <1>16
<1> QED  BY <1>16, <1>17, <1>18, <1>19, <1>20

(* A GraphQL client is shown the lots of every trade it had a part in, and *)
(* the price too, unless it sold into a bid of gRPC.                       *)
THEOREM TradesShownAsTraded == GatewaySpec => []ShownAsTraded
<1>1. GatewayInv => ShownAsTraded
  BY TradesShown
<1> QED  BY <1>1, GatewayInvariance, PTL

-------------------------------------------------------------------------------
(* Gateway: the numbers of an answer.                                      *)

(* Two tables with the same lots at every place have the same total.       *)
LEMMA SameQuantity ==
    ASSUME NEW s, NEW t, DOMAIN s = DOMAIN t,
           \A n \in DOMAIN s : s[n].quantity = t[n].quantity
    PROVE  Quantity(s) = Quantity(t)
<1>1. [n \in DOMAIN s |-> s[n].quantity] = [n \in DOMAIN t |-> t[n].quantity]
  OBVIOUS
<1> QED  BY <1>1 DEF Quantity

(* If all records are trades, the fills are those trades as they are shown.*)
LEMMA FillsAre ==
    ASSUME NEW api, NEW records \in Seq(LoggedEvents), NEW trades,
           \A n \in 1 .. Len(records) : records[n] = TradeExecuted(trades[n])
    PROVE  FillsOf(api, records) = [n \in 1 .. Len(records) |-> ShownTrade(api, trades[n])]
<1> DEFINE P == {n \in DOMAIN records : records[n].type = "TradeExecuted"}
<1>1. Len(records) \in Nat /\ DOMAIN records = 1 .. Len(records)
  OBVIOUS
<1>2. P = 1 .. Len(records)
  BY <1>1 DEF TradeExecuted
<1>3. At(records, P) = records
  BY <1>1, <1>2, AtEverything
<1>4. FillsOf(api, records) = [n \in DOMAIN At(records, P) |-> ShownTrade(api, At(records, P)[n].trade)]
  BY DEF FillsOf
<1>5. ASSUME NEW n \in 1 .. Len(records)
      PROVE  records[n].trade = trades[n]
  <2>1. records[n] = TradeExecuted(trades[n])
    OBVIOUS
  <2> QED  BY <2>1 DEF TradeExecuted
<1> HIDE DEF P
<1> QED  BY <1>1, <1>3, <1>4, <1>5

LEMMA AnswersSum ==
    ASSUME GatewayInv, CommandIds \cap TradeKeys = {}
    PROVE  AnswersAddUp
<1>1. SUFFICES ASSUME IsOk(reply), reply.result = "OrderPlaced", reply.inserted,
                      NEW k, k = reply.command_id, NEW order, order = submitted[k].order,
                      NEW answer, answer = PlaceOrderResponse(asker, reply)
               PROVE  /\ Quantity(answer.fills) + answer.remaining_qty = order.quantity
                      /\ asker = "grpc" \/ order.side = "Bid" =>
                             \A n \in DOMAIN answer.fills : Crosses(order, answer.fills[n].price)
  BY DEF AnswersAddUp
<1> DEFINE M == Matched(k)
           N == Len(M)
           R == reply.trades
           rest == reply.remaining_quantity
           F == [n \in 1 .. N |-> ShownTrade(asker, M[n])]
<1>2. /\ IInv /\ ReplySound /\ MatchedTrades /\ RequestsChecked
      /\ asker \in {"grpc", "graphql", None} /\ asker \in via[k]
      /\ via \in [CommandIds -> SUBSET {"grpc", "graphql"}]
      /\ Half \in Nat \ {0}
  BY <1>1, GatewayAssumption DEF GatewayInv, IInv, AskerSent, PlacedNow
<1>3. /\ k \in CommandIds /\ submitted[k] # None /\ submitted[k].type = "PlaceOrder"
      /\ AcceptedByBook(k)
      /\ R \in Seq(LoggedEvents) /\ Len(R) = N
      /\ \A n \in 1 .. Len(R) : Told(k, n, R[n])
      /\ rest = order.quantity - Quantity(M)
  BY <1>1, <1>2 DEF ReplySound
<1>4. M \in Seq(Trade) /\ N \in Nat /\ \A n \in 1 .. N : M[n] \in Trade
  <2>1. M \in Seq(Trade)
    BY <1>2, <1>3 DEF MatchedTrades
  <2> HIDE DEF M
  <2> QED  BY <2>1
<1>5. order \in LimitOrder /\ order.price \in Nat /\ order.quantity \in Nat
      /\ Quantity(M) \in 0 .. order.quantity /\ rest \in 0 .. order.quantity
  <2>1. order \in LimitOrder
    BY <1>1, <1>2, <1>3, MatchedOutcome
  <2>2. Quantity(M) \in 0 .. order.quantity
    BY <1>1, <1>2, <1>3, MatchedLots
  <2>3. order.price \in Nat /\ order.quantity \in Nat
    BY <2>1, OrdersAssumption DEF LimitOrder
  <2>4. rest = order.quantity - Quantity(M)
    BY <1>3
  <2> HIDE DEF M, rest
  <2> QED  BY <2>1, <2>2, <2>3, <2>4
<1>6. asker = "graphql" => order.price < Half /\ order.quantity < Half
  BY <1>1, <1>2, <1>3 DEF RequestsChecked, Small
<1>7. ASSUME NEW n \in 1 .. N
      PROVE  M[n].quantity <= order.quantity /\ Crosses(order, M[n].price)
  <2>1. n \in DOMAIN M
    BY <1>4
  <2>2. \E maker \in RunOrders(runs[k][1].boot, Len(log)) : TradeBetween(M[n], maker, order)
    BY <1>1, <1>2, <1>3, <2>1, MatchedPlaced
  <2> HIDE DEF M
  <2> QED  BY <2>2 DEF TradeBetween
<1>8. ASSUME NEW n \in 1 .. N
      PROVE  R[n] = TradeExecuted(M[n])
  <2>1. <<k, n>> \in TradeKeys
    BY <1>3, <1>4 DEF TradeKeys
  <2>2. Key(k, n) = <<k, n>>
    BY <1>4 DEF Key
  <2>3. Told(k, n, R[n])
    BY <1>3
  <2> QED  BY <2>1, <2>2, <2>3 DEF Told
<1> HIDE DEF M
<1>9. answer.fills = F /\ answer.remaining_qty = (IF asker = "graphql" THEN AsI64(rest) ELSE rest)
  <2>1. FillsOf(asker, R) = F
    <3>1. \A n \in 1 .. Len(R) : R[n] = TradeExecuted(M[n])
      BY <1>3, <1>8
    <3> HIDE DEF R
    <3> QED  BY <1>3, <3>1, FillsAre
  <2> QED  BY <2>1, <1>1 DEF PlaceOrderResponse
<1>10. ASSUME NEW q \in Nat, q < Half
       PROVE  AsI64(q) = q
  BY <1>2, <1>10 DEF AsI64, I64
<1>11. answer.remaining_qty = rest
  <2> HIDE DEF rest
  <2> QED  BY <1>2, <1>5, <1>6, <1>9, <1>10
<1>12. ASSUME NEW n \in 1 .. N
       PROVE  /\ F[n].quantity = M[n].quantity
              /\ asker = "grpc" \/ order.side = "Bid" => Crosses(order, F[n].price)
  <2>1. /\ F[n] = ShownTrade(asker, M[n]) /\ M[n] \in Trade
        /\ M[n].quantity \in Nat /\ M[n].price \in Nat
        /\ M[n].quantity <= order.quantity /\ Crosses(order, M[n].price)
    BY <1>4, <1>7, OrdersAssumption DEF Trade
  <2>2. CASE asker # "graphql"
    BY <2>1, <2>2 DEF ShownTrade
  <2>3. CASE asker = "graphql"
    <3>1. F[n].quantity = AsI64(M[n].quantity) /\ F[n].price = AsI64(M[n].price)
      BY <2>1, <2>3 DEF ShownTrade, GraphqlTrade, Trade
    <3>2. AsI64(M[n].quantity) = M[n].quantity
      BY <2>1, <2>3, <1>2, <1>5, <1>6, <1>10
    <3>3. order.side = "Bid" => AsI64(M[n].price) = M[n].price
      <4>1. order.side = "Bid" => M[n].price <= order.price
        BY <2>1, <1>5 DEF Crosses, Better
      <4> QED  BY <4>1, <2>1, <2>3, <1>2, <1>5, <1>6, <1>10
    <3> QED  BY <3>1, <3>2, <3>3, <2>1, <2>3
  <2> QED  BY <2>2, <2>3
<1>13. Len(F) = N /\ DOMAIN F = 1 .. N
  BY <1>4
<1> HIDE DEF F, N, rest
<1>14. Quantity(answer.fills) = Quantity(M)
  <2>1. DOMAIN M = 1 .. N
    BY <1>4 DEF N
  <2> QED  BY <2>1, <1>9, <1>12, <1>13, SameQuantity
<1>15. Quantity(answer.fills) + answer.remaining_qty = order.quantity
  BY <1>3, <1>5, <1>11, <1>14
<1> QED  BY <1>9, <1>12, <1>13, <1>15

(* As long as no command id is the trade key of another command, fills and *)
(* remainder of an answer are the order's lots, and no fill is worse than  *)
(* its limit, but for what a GraphQL client sells into a bid of gRPC.      *)
THEOREM AnswersSumUp ==
    ASSUME CommandIds \cap TradeKeys = {}
    PROVE  GatewaySpec => []AnswersAddUp
<1>1. GatewayInv => AnswersAddUp
  BY AnswersSum
<1> QED  BY <1>1, GatewayInvariance, PTL
===============================================================================
