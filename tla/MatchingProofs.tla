----------------------------- MODULE MatchingProofs ----------------------------
(***************************************************************************)
(* What one call of place_limit or cancel makes of a sound book, for every *)
(* set of order ids, prices and quantities: the book is sound again, the   *)
(* trades are a sequence, and trades and remainder are the order's lots.   *)
(* The last part is about one round of the loops of place_limit and about  *)
(* cancel: what OrderBookProofs needs to show that they do no more or less.*)
(***************************************************************************)
EXTENDS Matching, AscendingProofs

(* A queue of one side: lots to give, and no price before a better one.    *)
SoundQueue(side, queue) ==
    /\ queue \in Seq(LimitOrder)
    /\ \A i \in DOMAIN queue : queue[i].quantity > 0
    /\ \A i, j \in DOMAIN queue : i < j => ~ Better(side, queue[j].price, queue[i].price)

SoundBook(book) ==
    /\ book \in [Sides -> Seq(LimitOrder)]
    /\ \A side \in Sides : SoundQueue(side, book[side])

(* An order that has lots to match or to rest with.                        *)
Incoming(order) == order \in LimitOrder /\ order.quantity > 0

-------------------------------------------------------------------------------
(* Sets of positions and sequences.                                        *)

(* Positions that include every position before them are the first ones.   *)
LEMMA FirstPositions ==
    ASSUME NEW N \in Nat, NEW D \in SUBSET (1 .. N),
           \A i \in 1 .. N : \A j \in D : i < j => i \in D
    PROVE  Cardinality(D) \in 0 .. N /\ D = 1 .. Cardinality(D)
<1> DEFINE Out == {n \in 1 .. (N + 1) : n \notin D}
<1>1. Out \in SUBSET Nat /\ N + 1 \in Out
  OBVIOUS
<1>2. PICK n \in Out : \A m \in Out : n <= m
  BY <1>1, LeastMember
<1>3. n \in 1 .. (N + 1) /\ n \notin D
  BY <1>2
<1>4. \A i \in 1 .. N : i < n => i \in D
  <2> SUFFICES ASSUME NEW i \in 1 .. N, i < n, i \notin D PROVE FALSE
    OBVIOUS
  <2>1. i \in Out
    OBVIOUS
  <2> QED  BY <1>2, <1>3, <2>1
<1>5. \A j \in D : j < n
  <2> SUFFICES ASSUME NEW j \in D, ~ (j < n) PROVE FALSE
    OBVIOUS
  <2>1. j \in 1 .. N /\ j # n
    BY <1>3
  <2>2. n \in 1 .. N /\ n < j
    BY <1>3, <2>1
  <2> QED  BY <1>3, <2>2
<1>6. D = 1 .. (n - 1)
  <2>1. \A j \in D : j \in 1 .. (n - 1)
    BY <1>3, <1>5
  <2>2. \A i \in 1 .. (n - 1) : i \in 1 .. N /\ i < n
    BY <1>3
  <2> QED  BY <2>1, <2>2, <1>4
<1>7. Cardinality(1 .. (n - 1)) = n - 1
  <2>1. n - 1 \in Nat /\ 1 \in Int /\ n - 1 \in Int
    BY <1>3
  <2>2. Cardinality(1 .. (n - 1)) = IF 1 > n - 1 THEN 0 ELSE (n - 1) - 1 + 1
    BY <2>1, FS_Interval
  <2> QED  BY <2>1, <2>2
<1> QED  BY <1>3, <1>6, <1>7

(* InsertAt keeps the elements before pos and moves the others up by one.  *)
LEMMA InsertAtProperties ==
    ASSUME NEW S, NEW queue \in Seq(S), NEW pos \in 1 .. (Len(queue) + 1), NEW e \in S
    PROVE  /\ InsertAt(queue, pos, e) \in Seq(S)
           /\ Len(InsertAt(queue, pos, e)) = Len(queue) + 1
           /\ \A j \in 1 .. (Len(queue) + 1) :
                 InsertAt(queue, pos, e)[j] = IF j < pos THEN queue[j]
                                              ELSE IF j = pos THEN e ELSE queue[j - 1]
<1> DEFINE front == SubSeq(queue, 1, pos - 1)
           back  == SubSeq(queue, pos, Len(queue))
           half  == front \o <<e>>
<1>1. Len(queue) \in Nat /\ \A i \in 1 .. Len(queue) : queue[i] \in S
  OBVIOUS
<1>2. /\ front \in Seq(S) /\ Len(front) = pos - 1
      /\ \A i \in 1 .. pos - 1 : front[i] = queue[i]
  <2>1. \A i \in 1 .. (pos - 1) : queue[i] \in S
    BY <1>1
  <2>2. \A i \in 1 .. (pos - 1) - 1 + 1 : front[i] = queue[1 + i - 1]
    BY <2>1, <1>1, SubSeqProperties
  <2> QED  BY <2>1, <2>2, <1>1, SubSeqProperties
<1>3. /\ back \in Seq(S) /\ Len(back) = Len(queue) - pos + 1
      /\ \A i \in 1 .. Len(queue) - pos + 1 : back[i] = queue[pos + i - 1]
  <2>1. \A i \in pos .. Len(queue) : queue[i] \in S
    BY <1>1
  <2> QED  BY <2>1, <1>1, SubSeqProperties
<1>4. InsertAt(queue, pos, e) = half \o back
  BY DEF InsertAt
<1>5. <<e>> \in Seq(S) /\ Len(<<e>>) = 1 /\ <<e>>[1] = e
  OBVIOUS
<1>h. HIDE DEF front, back
<1>6. /\ half \in Seq(S) /\ Len(half) = pos
      /\ \A i \in 1 .. pos : half[i] = IF i < pos THEN queue[i] ELSE e
  <2>1. /\ half \in Seq(S) /\ Len(half) = Len(front) + 1
        /\ \A i \in 1 .. Len(front) + 1 :
              half[i] = IF i <= Len(front) THEN front[i] ELSE <<e>>[i - Len(front)]
    BY <1>2, <1>5, ConcatProperties
  <2>2. ASSUME NEW i \in 1 .. pos
        PROVE  half[i] = IF i < pos THEN queue[i] ELSE e
    <3>1. CASE i < pos
      BY <3>1, <2>1, <1>1, <1>2
    <3>2. CASE ~ (i < pos)
      <4>1. i = pos /\ i - Len(front) = 1 /\ ~ (i <= Len(front)) /\ i \in 1 .. Len(front) + 1
        BY <3>2, <1>1, <1>2
      <4> QED  BY <4>1, <2>1, <1>5
    <3> QED  BY <3>1, <3>2
  <2> QED  BY <2>1, <2>2, <1>1, <1>2
<1> HIDE DEF half
<1>7. /\ half \o back \in Seq(S)
      /\ Len(half \o back) = Len(half) + Len(back)
      /\ \A i \in 1 .. Len(half) + Len(back) :
            (half \o back)[i] = IF i <= Len(half) THEN half[i] ELSE back[i - Len(half)]
  BY <1>3, <1>6, ConcatProperties
<1>8. Len(half \o back) = Len(queue) + 1
  BY <1>1, <1>3, <1>6, <1>7
<1>9. ASSUME NEW j \in 1 .. (Len(queue) + 1)
      PROVE  (half \o back)[j] = IF j < pos THEN queue[j] ELSE IF j = pos THEN e ELSE queue[j - 1]
  <2>1. CASE j <= pos
    <3>1. (half \o back)[j] = half[j]
      BY <2>1, <1>1, <1>3, <1>6, <1>7
    <3>2. j \in 1 .. pos
      BY <2>1, <1>1
    <3> QED  BY <2>1, <3>1, <3>2, <1>6
  <2>2. CASE ~ (j <= pos)
    <3>1. (half \o back)[j] = back[j - pos]
      BY <2>2, <1>1, <1>3, <1>6, <1>7
    <3>2. j - pos \in 1 .. Len(queue) - pos + 1 /\ pos + (j - pos) - 1 = j - 1
      BY <2>2, <1>1
    <3>3. back[j - pos] = queue[j - 1]
      BY <3>2, <1>3
    <3> QED  BY <2>2, <3>1, <3>3
  <2> QED  BY <2>1, <2>2
<1> QED  BY <1>4, <1>7, <1>8, <1>9

-------------------------------------------------------------------------------
(* What the makers before a position have to give.                         *)
LEMMA AheadAddsUp ==
    ASSUME NEW queue \in Seq(LimitOrder)
    PROVE  /\ QuantityAhead(queue) \in [1 .. (Len(queue) + 1) -> Nat]
           /\ QuantityAhead(queue)[1] = 0
           /\ \A i \in 1 .. Len(queue) :
                 QuantityAhead(queue)[i + 1] = QuantityAhead(queue)[i] + queue[i].quantity
<1> DEFINE N == Len(queue)
           v == [i \in 1 .. N |-> queue[i].quantity]
           Rule(a) == a = [i \in 1 .. N + 1 |-> IF i = 1 THEN 0 ELSE a[i - 1] + queue[i - 1].quantity]
<1>1. N \in Nat /\ v \in [1 .. N -> Nat]
  <2>1. \A i \in 1 .. N : queue[i] \in LimitOrder
    OBVIOUS
  <2>2. \A i \in 1 .. N : queue[i].quantity \in Nat
    BY <2>1 DEF LimitOrder
  <2> QED  BY <2>2
<1>2. PICK f \in [0 .. N -> Nat] : f[0] = 0 /\ \A n \in 1 .. N : f[n] = f[n - 1] + v[n]
  <2> HIDE DEF v
  <2> QED  BY <1>1, SumsExist
<1>3. \E a : Rule(a)
  <2> DEFINE a == [i \in 1 .. N + 1 |-> f[i - 1]]
  <2>1. ASSUME NEW i \in 1 .. N + 1
        PROVE  a[i] = IF i = 1 THEN 0 ELSE a[i - 1] + queue[i - 1].quantity
    <3>1. CASE i = 1
      BY <1>2, <3>1
    <3>2. CASE i # 1
      <4>1. i - 1 \in 1 .. N /\ i - 1 \in 1 .. N + 1
        BY <3>2, <1>1
      <4>2. f[i - 1] = f[i - 1 - 1] + queue[i - 1].quantity
        BY <4>1, <1>2
      <4>3. a[i - 1] = f[i - 1 - 1]
        BY <4>1
      <4> QED  BY <3>2, <4>2, <4>3
    <3> QED  BY <3>1, <3>2
  <2>2. Rule(a)
    <3>1. a = [i \in 1 .. N + 1 |-> a[i]]
      OBVIOUS
    <3> HIDE DEF a
    <3> QED  BY <2>1, <3>1
  <2> HIDE DEF a, Rule
  <2> QED  BY <2>2
<1> DEFINE A == QuantityAhead(queue)
<1>4. A = CHOOSE a : Rule(a)
  BY DEF QuantityAhead
<1>5. Rule(A)
  <2> HIDE DEF A, Rule
  <2> QED  BY <1>3, <1>4
<1> HIDE DEF A
<1>6. DOMAIN A = 1 .. N + 1 /\ A[1] = 0
  BY <1>1, <1>5
<1>7. \A i \in 1 .. N : A[i + 1] = A[i] + queue[i].quantity
  <2> SUFFICES ASSUME NEW i \in 1 .. N PROVE A[i + 1] = A[i] + queue[i].quantity
    OBVIOUS
  <2>1. i + 1 \in 1 .. N + 1 /\ i + 1 # 1 /\ (i + 1) - 1 = i
    BY <1>1
  <2>2. A[i + 1] = A[(i + 1) - 1] + queue[(i + 1) - 1].quantity
    BY <2>1, <1>5
  <2> QED  BY <2>1, <2>2
<1>8. \A i \in 1 .. N + 1 : A[i] \in Nat
  <2> DEFINE T == {n \in Nat : n <= N => A[n + 1] \in Nat}
  <2>1. 0 \in T
    BY <1>6
  <2>2. ASSUME NEW n \in T
        PROVE  n + 1 \in T
    <3>1. CASE n + 1 <= N
      <4>1. n + 1 \in 1 .. N /\ A[n + 1] \in Nat /\ queue[n + 1].quantity \in Nat
        BY <3>1, <1>1
      <4>2. A[(n + 1) + 1] = A[n + 1] + queue[n + 1].quantity
        BY <4>1, <1>7
      <4>3. A[(n + 1) + 1] \in Nat
        BY <4>1, <4>2
      <4> QED  BY <4>3
    <3>2. CASE ~ (n + 1 <= N)
      BY <3>2
    <3> QED  BY <3>1, <3>2
  <2>3. T \subseteq Nat
    OBVIOUS
  <2>4. T = Nat
    <3> HIDE DEF T
    <3> QED  BY <2>1, <2>2, <2>3, SetInduction
  <2>5. ASSUME NEW i \in 1 .. N + 1
        PROVE  A[i] \in Nat
    <3>1. i - 1 \in Nat /\ i - 1 <= N /\ (i - 1) + 1 = i
      BY <1>1
    <3>2. i - 1 \in T
      <4> HIDE DEF T
      <4> QED  BY <2>4, <3>1
    <3> QED  BY <3>1, <3>2
  <2> QED  BY <2>5
<1>9. A \in [1 .. N + 1 -> Nat]
  <2>1. A = [i \in 1 .. N + 1 |-> A[i]]
    BY <1>5
  <2> QED  BY <2>1, <1>8
<1> QED  BY <1>6, <1>7, <1>9 DEF A

(* It does not shrink.                                                     *)
LEMMA AheadGrows ==
    ASSUME NEW queue \in Seq(LimitOrder),
           NEW i \in 1 .. (Len(queue) + 1), NEW j \in 1 .. (Len(queue) + 1), i <= j
    PROVE  QuantityAhead(queue)[i] <= QuantityAhead(queue)[j]
<1> DEFINE A == QuantityAhead(queue)
           N == Len(queue)
           T == {d \in Nat : i + d <= N + 1 => A[i] <= A[i + d]}
<1>1. N \in Nat /\ \A n \in 1 .. N + 1 : A[n] \in Nat
  BY AheadAddsUp
<1>2. ASSUME NEW n \in 1 .. N
      PROVE  A[n] <= A[n + 1]
  <2>1. queue[n] \in LimitOrder
    OBVIOUS
  <2>2. queue[n].quantity \in Nat
    BY <2>1 DEF LimitOrder
  <2>3. A[n + 1] = A[n] + queue[n].quantity
    BY AheadAddsUp
  <2>4. A[n] \in Nat
    BY <1>1
  <2> QED  BY <2>2, <2>3, <2>4
<1> HIDE DEF A
<1>3. 0 \in T
  BY <1>1
<1>4. ASSUME NEW d \in T
      PROVE  d + 1 \in T
  <2>1. CASE i + (d + 1) <= N + 1
    <3>1. i + d \in 1 .. N /\ i + d <= N + 1 /\ i + (d + 1) = (i + d) + 1
      BY <2>1, <1>1
    <3>2. A[i] <= A[i + d] /\ A[i + d] <= A[(i + d) + 1]
      BY <3>1, <1>2
    <3>3. A[i] \in Nat /\ A[i + d] \in Nat /\ A[(i + d) + 1] \in Nat
      BY <3>1, <1>1
    <3>4. A[i] <= A[(i + d) + 1]
      BY <3>2, <3>3
    <3> QED  BY <3>1, <3>4
  <2>2. CASE ~ (i + (d + 1) <= N + 1)
    BY <2>2
  <2> QED  BY <2>1, <2>2
<1>5. T \subseteq Nat
  OBVIOUS
<1>6. T = Nat
  <2> HIDE DEF T
  <2> QED  BY <1>3, <1>4, <1>5, SetInduction
<1>7. j - i \in Nat /\ i + (j - i) = j /\ j <= N + 1
  BY <1>1
<1>8. j - i \in T
  <2> HIDE DEF T
  <2> QED  BY <1>6, <1>7
<1> QED  BY <1>7, <1>8 DEF A

-------------------------------------------------------------------------------
(* An order against the queue it matches with.                             *)

(* Nothing crosses behind a maker that does not.                           *)
LEMMA CrossingFirst ==
    ASSUME NEW order \in LimitOrder, NEW queue, SoundQueue(Opposite(order.side), queue),
           NEW i \in DOMAIN queue, NEW j \in DOMAIN queue, i < j,
           Crosses(order, queue[j].price)
    PROVE  Crosses(order, queue[i].price)
<1>1. queue \in Seq(LimitOrder) /\ ~ Better(Opposite(order.side), queue[j].price, queue[i].price)
  BY DEF SoundQueue
<1>2. queue[i] \in LimitOrder /\ queue[j] \in LimitOrder
  BY <1>1
<1>3. queue[i].price \in Nat /\ queue[j].price \in Nat /\ order.price \in Nat
  BY <1>2, OrdersAssumption DEF LimitOrder
<1>4. order.side \in {"Bid", "Ask"}
  BY DEF LimitOrder, Sides
<1> QED  BY <1>1, <1>3, <1>4 DEF Crosses, Better, Opposite

(* The crossing makers are the first ones of the queue.                    *)
LEMMA CrossingPrefix ==
    ASSUME NEW order \in LimitOrder, NEW queue, SoundQueue(Opposite(order.side), queue)
    PROVE  LET crossing == {i \in DOMAIN queue : Crosses(order, queue[i].price)}
           IN  /\ Cardinality(crossing) \in 0 .. Len(queue)
               /\ \A i \in 1 .. Len(queue) :
                     Crosses(order, queue[i].price) <=> i <= Cardinality(crossing)
<1> DEFINE C == {i \in DOMAIN queue : Crosses(order, queue[i].price)}
           N == Len(queue)
<1>1. N \in Nat /\ DOMAIN queue = 1 .. N
  BY DEF SoundQueue
<1>2. C \in SUBSET (1 .. N)
  BY <1>1
<1>3. \A i \in 1 .. N : \A j \in C : i < j => i \in C
  BY <1>1, CrossingFirst
<1>4. Cardinality(C) \in 0 .. N /\ C = 1 .. Cardinality(C)
  <2> HIDE DEF C, N
  <2> QED  BY <1>1, <1>2, <1>3, FirstPositions
<1>5. \A i \in 1 .. N : Crosses(order, queue[i].price) <=> i <= Cardinality(C)
  <2>1. \A i \in 1 .. N : i \in C <=> Crosses(order, queue[i].price)
    BY <1>1
  <2>2. \A i \in 1 .. N : i \in C <=> i <= Cardinality(C)
    <3> HIDE DEF C
    <3> QED  BY <1>1, <1>4
  <2> QED  BY <2>1, <2>2
<1> QED  BY <1>4, <1>5

(* A maker gives at most what it has, and something only if the makers     *)
(* before it gave all.                                                     *)
LEMMA FillsSound ==
    ASSUME NEW order \in LimitOrder, NEW queue, SoundQueue(Opposite(order.side), queue)
    PROVE  /\ DOMAIN Fills(order, queue) = DOMAIN queue
           /\ \A i \in DOMAIN queue :
                 /\ Fills(order, queue)[i] \in Nat
                 /\ Fills(order, queue)[i] <= queue[i].quantity
           /\ \A i, j \in DOMAIN queue :
                 i < j /\ Fills(order, queue)[j] > 0 => Fills(order, queue)[i] = queue[i].quantity
<1> DEFINE A == QuantityAhead(queue)
           F == Fills(order, queue)
           N == Len(queue)
<1>1. N \in Nat /\ DOMAIN queue = 1 .. N /\ queue \in Seq(LimitOrder)
  BY DEF SoundQueue
<1>2. \A i \in 1 .. N : queue[i] \in LimitOrder /\ queue[i].quantity \in Nat
  <2>1. \A i \in 1 .. N : queue[i] \in LimitOrder
    BY <1>1
  <2> QED  BY <2>1 DEF LimitOrder
<1>3. \A i \in 1 .. N + 1 : A[i] \in Nat
  BY <1>1, AheadAddsUp
<1>4. \A i \in 1 .. N : A[i + 1] = A[i] + queue[i].quantity
  BY <1>1, AheadAddsUp
<1>5. order.quantity \in Nat
  BY DEF LimitOrder
<1>6. DOMAIN F = DOMAIN queue
  BY DEF Fills
<1>7. \A i \in 1 .. N :
         F[i] = IF Crosses(order, queue[i].price) /\ A[i] < order.quantity
                THEN Smaller(queue[i].quantity, order.quantity - A[i]) ELSE 0
  BY <1>1 DEF Fills
<1>8. \A i, j \in 1 .. N + 1 : i <= j => A[i] <= A[j]
  BY <1>1, AheadGrows
<1> HIDE DEF A, F
<1>9. ASSUME NEW i \in 1 .. N
      PROVE  F[i] \in Nat /\ F[i] <= queue[i].quantity
  <2>1. i \in 1 .. N + 1
    BY <1>1
  <2>2. A[i] \in Nat /\ queue[i].quantity \in Nat
    BY <2>1, <1>2, <1>3
  <2> QED  BY <2>2, <1>5, <1>7 DEF Smaller
<1>10. ASSUME NEW i \in 1 .. N, NEW j \in 1 .. N, i < j, F[j] > 0
       PROVE  F[i] = queue[i].quantity
  <2>1. Crosses(order, queue[j].price) /\ A[j] < order.quantity
    BY <1>7, <1>10
  <2>2. Crosses(order, queue[i].price)
    BY <1>1, <1>10, <2>1, CrossingFirst
  <2>3. i + 1 \in 1 .. N + 1 /\ j \in 1 .. N + 1 /\ i + 1 <= j /\ i \in 1 .. N + 1
    BY <1>1, <1>10
  <2>4. A[i + 1] <= A[j] /\ A[i + 1] = A[i] + queue[i].quantity
    BY <2>3, <1>4, <1>8
  <2>5. A[i] \in Nat /\ A[j] \in Nat /\ A[i + 1] \in Nat /\ queue[i].quantity \in Nat
    BY <2>3, <1>2, <1>3
  <2>6. A[i] < order.quantity /\ queue[i].quantity <= order.quantity - A[i]
    <3>1. PICK a \in Nat, b \in Nat, q \in Nat, c \in Nat :
             /\ a = A[i] /\ b = A[j] /\ q = queue[i].quantity /\ c = order.quantity
             /\ a + q <= b /\ b < c
      BY <2>1, <2>4, <2>5, <1>5
    <3>2. a < c /\ q <= c - a
      BY ONLY <3>1, a \in Nat, b \in Nat, q \in Nat, c \in Nat
    <3> QED  BY ONLY <3>1, <3>2
  <2>7. F[i] = Smaller(queue[i].quantity, order.quantity - A[i])
    BY <2>2, <2>6, <1>7
  <2> QED  BY <2>6, <2>7 DEF Smaller
<1>11. \A i \in DOMAIN queue : F[i] \in Nat /\ F[i] <= queue[i].quantity
  BY <1>1, <1>9
<1>12. \A i, j \in DOMAIN queue : i < j /\ F[j] > 0 => F[i] = queue[i].quantity
  BY <1>1, <1>10
<1> QED  BY <1>6, <1>11, <1>12 DEF F

(* The trades are a sequence: the n-th is with the n-th maker, and every   *)
(* maker behind them gives nothing.                                        *)
LEMMA TradesSound ==
    ASSUME NEW order \in LimitOrder, NEW queue, SoundQueue(Opposite(order.side), queue)
    PROVE  /\ TradesWith(order, queue) \in Seq(Trade)
           /\ Len(TradesWith(order, queue)) \in 0 .. Len(queue)
           /\ \A n \in 1 .. Len(TradesWith(order, queue)) :
                 /\ TradesWith(order, queue)[n] = TradeOf(queue[n], order, queue[n].price,
                                                         Fills(order, queue)[n])
                 /\ Fills(order, queue)[n] > 0
           /\ \A n \in DOMAIN queue :
                 n > Len(TradesWith(order, queue)) => Fills(order, queue)[n] = 0
<1> DEFINE F == Fills(order, queue)
           N == Len(queue)
           D == {j \in DOMAIN queue : F[j] > 0}
           T == TradesWith(order, queue)
           Of(i) == TradeOf(queue[i], order, queue[i].price, F[i])
<1>1. N \in Nat /\ DOMAIN queue = 1 .. N /\ queue \in Seq(LimitOrder)
      /\ \A i \in 1 .. N : queue[i].quantity > 0
  BY DEF SoundQueue
<1>2. \A i \in 1 .. N : F[i] \in Nat /\ F[i] <= queue[i].quantity
  BY <1>1, FillsSound
<1>3. \A i, j \in 1 .. N : i < j /\ F[j] > 0 => F[i] = queue[i].quantity
  BY <1>1, FillsSound
<1>4. T = [i \in D |-> Of(i)]
  BY DEF TradesWith
<1>5. ASSUME NEW i \in 1 .. N
      PROVE  Of(i) \in Trade
  <2>1. queue[i] \in LimitOrder
    BY <1>1
  <2>2. queue[i].order_id \in OrderIds /\ queue[i].price \in Prices /\ order.order_id \in OrderIds
    BY <2>1 DEF LimitOrder
  <2>3. F[i] \in Nat
    BY <1>2
  <2> HIDE DEF F
  <2> QED  BY <2>2, <2>3 DEF TradeOf, Trade
<1> HIDE DEF F, T, Of
<1>6. D \in SUBSET (1 .. N) /\ \A i \in 1 .. N : \A j \in D : i < j => i \in D
  BY <1>1, <1>3
<1>7. Cardinality(D) \in 0 .. N /\ D = 1 .. Cardinality(D)
  <2> HIDE DEF D, N
  <2> QED  BY <1>1, <1>6, FirstPositions
<1> DEFINE m == Cardinality(D)
<1>8. \A i \in 1 .. N : i \in D <=> F[i] > 0
  BY <1>1
<1> HIDE DEF D
<1>9. m \in 0 .. N /\ m \in Nat /\ \A i \in 1 .. m : i \in 1 .. N
  BY <1>1, <1>7
<1>10. T = [i \in 1 .. m |-> Of(i)]
  BY <1>4, <1>7
<1> HIDE DEF m
<1>11. T \in Seq(Trade) /\ Len(T) = m
  <2>1. T \in [1 .. m -> Trade]
    BY <1>5, <1>9, <1>10
  <2> QED  BY <2>1, <1>9
<1>12. ASSUME NEW n \in 1 .. m
       PROVE  T[n] = Of(n) /\ F[n] > 0
  BY <1>7, <1>8, <1>9, <1>10 DEF m
<1>13. ASSUME NEW n \in 1 .. N, n > m
       PROVE  F[n] = 0
  <2>1. n \notin 1 .. m
    BY <1>9, <1>13
  <2>2. ~ (F[n] > 0) /\ F[n] \in Nat
    BY <2>1, <1>2, <1>7, <1>8 DEF m
  <2> QED  BY <2>2
<1>14. \A n \in 1 .. Len(T) : T[n] = Of(n) /\ F[n] > 0
  BY <1>11, <1>12
<1>15. \A n \in DOMAIN queue : n > Len(T) => F[n] = 0
  BY <1>1, <1>11, <1>13
<1>16. Len(T) \in 0 .. Len(queue)
  BY <1>9, <1>11
<1> QED  BY <1>11, <1>14, <1>15, <1>16 DEF T, F, Of

(* What is left of an order is a part of it.                               *)
LEMMA RemainingSound ==
    ASSUME NEW order \in LimitOrder, NEW queue, SoundQueue(Opposite(order.side), queue)
    PROVE  Remaining(order, queue) \in 0 .. order.quantity
<1> DEFINE C == {i \in DOMAIN queue : Crosses(order, queue[i].price)}
<1>1. Cardinality(C) \in 0 .. Len(queue) /\ Len(queue) \in Nat /\ queue \in Seq(LimitOrder)
  BY CrossingPrefix DEF SoundQueue
<1>2. Remaining(order, queue)
        = order.quantity - Smaller(order.quantity, QuantityAhead(queue)[Cardinality(C) + 1])
  BY DEF Remaining
<1> HIDE DEF C
<1>3. QuantityAhead(queue)[Cardinality(C) + 1] \in Nat
  <2>1. Cardinality(C) + 1 \in 1 .. Len(queue) + 1
    BY <1>1
  <2> QED  BY <2>1, <1>1, AheadAddsUp
<1>4. order.quantity \in Nat
  BY DEF LimitOrder
<1> QED  BY <1>2, <1>3, <1>4 DEF Smaller

(* The trades and the remainder are the order's lots: sum is any running   *)
(* sum of the trades.                                                      *)
LEMMA TradesAddUp ==
    ASSUME NEW order \in LimitOrder, NEW queue, SoundQueue(Opposite(order.side), queue),
           NEW sum, sum[0] = 0,
           \A n \in 1 .. Len(TradesWith(order, queue)) :
              sum[n] = sum[n - 1] + TradesWith(order, queue)[n].quantity
    PROVE  sum[Len(TradesWith(order, queue))] = order.quantity - Remaining(order, queue)
<1> DEFINE A  == QuantityAhead(queue)
           F  == Fills(order, queue)
           N  == Len(queue)
           T  == TradesWith(order, queue)
           m  == Len(T)
           c  == Cardinality({i \in DOMAIN queue : Crosses(order, queue[i].price)})
           oq == order.quantity
<1>1. N \in Nat /\ DOMAIN queue = 1 .. N /\ queue \in Seq(LimitOrder)
      /\ \A i \in 1 .. N : queue[i].quantity > 0
  BY DEF SoundQueue
<1>2. \A i \in 1 .. N : queue[i].quantity \in Nat
  <2>1. \A i \in 1 .. N : queue[i] \in LimitOrder
    BY <1>1
  <2> QED  BY <2>1 DEF LimitOrder
<1>3. \A i \in 1 .. N + 1 : A[i] \in Nat
  BY <1>1, AheadAddsUp
<1>4. A[1] = 0 /\ \A i \in 1 .. N : A[i + 1] = A[i] + queue[i].quantity
  BY <1>1, AheadAddsUp
<1>5. oq \in Nat
  BY DEF LimitOrder
<1>6. \A i \in 1 .. N :
         F[i] = IF Crosses(order, queue[i].price) /\ A[i] < oq
                THEN Smaller(queue[i].quantity, oq - A[i]) ELSE 0
  BY <1>1 DEF Fills
<1>7. \A i, j \in 1 .. N + 1 : i <= j => A[i] <= A[j]
  BY <1>1, AheadGrows
<1>8. c \in 0 .. N /\ \A i \in 1 .. N : Crosses(order, queue[i].price) <=> i <= c
  BY CrossingPrefix
<1>9. m \in 0 .. N /\ \A n \in 1 .. m :
         T[n] = TradeOf(queue[n], order, queue[n].price, F[n]) /\ F[n] > 0
  BY TradesSound
<1>10. \A n \in 1 .. N : n > m => F[n] = 0
  BY <1>1, TradesSound
<1>11. Remaining(order, queue) = oq - Smaller(oq, A[c + 1])
  BY DEF Remaining
<1>12. \A n \in 1 .. m : sum[n] = sum[n - 1] + T[n].quantity
  OBVIOUS
<1> HIDE DEF A, F, T, m, c, oq
<1>13. \A n \in 1 .. m : n \in 1 .. N /\ n <= c
  <2> SUFFICES ASSUME NEW n \in 1 .. m PROVE n \in 1 .. N /\ n <= c
    OBVIOUS
  <2>1. n \in 1 .. N
    BY <1>1, <1>9
  <2>2. Crosses(order, queue[n].price)
    BY <2>1, <1>6, <1>9
  <2> QED  BY <2>1, <2>2, <1>8
<1>14. ASSUME NEW n \in 1 .. m
       PROVE  Smaller(oq, A[n + 1]) = Smaller(oq, A[n]) + T[n].quantity
  <2>1. n \in 1 .. N /\ n \in 1 .. N + 1 /\ n + 1 \in 1 .. N + 1
    BY <1>1, <1>13
  <2>2. A[n] \in Nat /\ queue[n].quantity \in Nat /\ A[n + 1] = A[n] + queue[n].quantity
    BY <2>1, <1>2, <1>3, <1>4
  <2>3. A[n] < oq /\ F[n] = Smaller(queue[n].quantity, oq - A[n])
    BY <2>1, <1>6, <1>9
  <2>4. T[n].quantity = F[n]
    <3>1. T[n] = TradeOf(queue[n], order, queue[n].price, F[n])
      BY <1>9
    <3>2. TradeOf(queue[n], order, queue[n].price, F[n]).quantity = F[n]
      BY DEF TradeOf
    <3> QED  BY <3>1, <3>2
  <2>5. PICK a \in Nat, q \in Nat, most \in Nat :
           /\ a = A[n] /\ q = queue[n].quantity /\ most = oq /\ a < most /\ A[n + 1] = a + q
           /\ F[n] = Smaller(q, most - a)
    BY ONLY <2>2, <2>3, <1>5
  <2>6. Smaller(most, a + q) = Smaller(most, a) + Smaller(q, most - a)
    BY ONLY <2>5, a \in Nat, q \in Nat, most \in Nat DEF Smaller
  <2> QED  BY ONLY <2>4, <2>5, <2>6
<1>15. sum[m] = Smaller(oq, A[m + 1])
  <2> DEFINE U == {n \in Nat : n <= m => sum[n] = Smaller(oq, A[n + 1])}
  <2>1. 0 \in U
    BY <1>4, <1>5 DEF Smaller
  <2>2. ASSUME NEW n \in U
        PROVE  n + 1 \in U
    <3>1. CASE n + 1 <= m
      <4>1. n + 1 \in 1 .. m /\ n <= m /\ (n + 1) - 1 = n
        BY <3>1, <1>1, <1>9
      <4>2. sum[n + 1] = sum[n] + T[n + 1].quantity
        BY <4>1, <1>12
      <4>3. sum[n] = Smaller(oq, A[n + 1])
        BY <4>1
      <4>4. Smaller(oq, A[(n + 1) + 1]) = Smaller(oq, A[n + 1]) + T[n + 1].quantity
        BY <4>1, <1>14
      <4> QED  BY <4>2, <4>3, <4>4
    <3>2. CASE ~ (n + 1 <= m)
      BY <3>2
    <3> QED  BY <3>1, <3>2
  <2>3. U \subseteq Nat
    OBVIOUS
  <2>4. m \in Nat /\ m <= m
    BY <1>1, <1>9
  <2>5. m \in U
    <3> HIDE DEF U
    <3> QED  BY <2>1, <2>2, <2>3, <2>4, SetInduction
  <2> QED  BY <2>4, <2>5
<1>16. m <= c
  <2>1. CASE m = 0
    BY <2>1, <1>8
  <2>2. CASE m # 0
    <3>1. m \in 1 .. m
      BY <2>2, <1>1, <1>9
    <3> QED  BY <3>1, <1>13
  <2> QED  BY <2>1, <2>2
<1>17. Smaller(oq, A[m + 1]) = Smaller(oq, A[c + 1])
  <2>1. CASE m = c
    BY <2>1
  <2>2. CASE m # c
    <3>1. m + 1 \in 1 .. N /\ m + 1 <= c /\ m + 1 > m
      BY <2>2, <1>1, <1>8, <1>9, <1>16
    <3>2. F[m + 1] = 0 /\ Crosses(order, queue[m + 1].price)
      BY <3>1, <1>8, <1>10
    <3>3. m + 1 \in 1 .. N + 1 /\ c + 1 \in 1 .. N + 1 /\ m + 1 <= c + 1
      BY <3>1, <1>1, <1>8
    <3>4. A[m + 1] \in Nat /\ A[c + 1] \in Nat /\ A[m + 1] <= A[c + 1]
      BY <3>3, <1>3, <1>7
    <3>5. queue[m + 1].quantity \in Nat /\ queue[m + 1].quantity > 0
      BY <3>1, <1>1, <1>2
    <3>6. F[m + 1] = IF A[m + 1] < oq THEN Smaller(queue[m + 1].quantity, oq - A[m + 1]) ELSE 0
      BY <3>1, <3>2, <1>6
    <3>7. ~ (A[m + 1] < oq)
      BY <3>2, <3>4, <3>5, <3>6, <1>5 DEF Smaller
    <3> QED  BY <3>4, <3>7, <1>5 DEF Smaller
  <2> QED  BY <2>1, <2>2
<1>18. Smaller(oq, A[c + 1]) \in Nat /\ Smaller(oq, A[c + 1]) <= oq
  <2>1. c + 1 \in 1 .. N + 1
    BY <1>1, <1>8
  <2>2. A[c + 1] \in Nat
    BY <2>1, <1>3
  <2> QED  BY <2>2, <1>5 DEF Smaller
<1>19. sum[m] = oq - Remaining(order, queue)
  BY <1>5, <1>11, <1>15, <1>17, <1>18
<1> QED  BY <1>19 DEF m, T, oq

-------------------------------------------------------------------------------
(* The book after a call.                                                  *)

(* Taking orders out of a queue leaves it sound.                           *)
LEMMA AtKeepsSound ==
    ASSUME NEW side \in Sides, NEW queue, SoundQueue(side, queue),
           NEW P \in SUBSET DOMAIN queue
    PROVE  SoundQueue(side, At(queue, P))
<1> DEFINE B == At(queue, P)
           N == Cardinality(P)
           p == Ascending(P)
<1>1. queue \in Seq(LimitOrder)
  BY DEF SoundQueue
<1>2. /\ B \in Seq(LimitOrder) /\ DOMAIN B = 1 .. N
      /\ \A i \in 1 .. N : p[i] \in P /\ B[i] = queue[p[i]]
      /\ \A i, j \in 1 .. N : i < j => p[i] < p[j]
  BY <1>1, AtPicks
<1> HIDE DEF B, N, p
<1>3. ASSUME NEW i \in DOMAIN B
      PROVE  B[i].quantity > 0
  <2>1. p[i] \in DOMAIN queue /\ B[i] = queue[p[i]]
    BY <1>2
  <2> QED  BY <2>1 DEF SoundQueue
<1>4. ASSUME NEW i \in DOMAIN B, NEW j \in DOMAIN B, i < j
      PROVE  ~ Better(side, B[j].price, B[i].price)
  <2>1. /\ p[i] \in DOMAIN queue /\ B[i] = queue[p[i]]
        /\ p[j] \in DOMAIN queue /\ B[j] = queue[p[j]]
        /\ p[i] < p[j]
    BY <1>2, <1>4
  <2>2. ~ Better(side, queue[p[j]].price, queue[p[i]].price)
    BY <2>1 DEF SoundQueue
  <2> QED  BY <2>1, <2>2
<1>5. SoundQueue(side, B)
  BY <1>2, <1>3, <1>4 DEF SoundQueue
<1> QED  BY <1>5 DEF B

(* The makers that have lots left stay, in their order, less their fills.  *)
LEMMA AfterFillsPicks ==
    ASSUME NEW order \in LimitOrder, NEW queue, SoundQueue(Opposite(order.side), queue)
    PROVE  /\ AfterFills(order, queue) \in Seq(LimitOrder)
           /\ Len(AfterFills(order, queue)) \in Nat
           /\ \E p \in [1 .. Len(AfterFills(order, queue)) -> 1 .. Len(queue)] :
                 /\ \A i \in 1 .. Len(AfterFills(order, queue)) :
                       LET fill == Fills(order, queue)[p[i]]
                       IN  /\ fill < queue[p[i]].quantity
                           /\ AfterFills(order, queue)[i]
                                 = [queue[p[i]] EXCEPT !.quantity = queue[p[i]].quantity - fill]
                 /\ \A i, j \in 1 .. Len(AfterFills(order, queue)) : i < j <=> p[i] < p[j]
                 /\ \A n \in 1 .. Len(queue) :
                       Fills(order, queue)[n] < queue[n].quantity =>
                           \E i \in 1 .. Len(AfterFills(order, queue)) : p[i] = n
<1> DEFINE F == Fills(order, queue)
           N == Len(queue)
           R == [i \in DOMAIN queue |-> [queue[i] EXCEPT !.quantity = @ - F[i]]]
           P == {i \in DOMAIN queue : F[i] < queue[i].quantity}
           B == At(R, P)
<1>1. N \in Nat /\ DOMAIN queue = 1 .. N /\ queue \in Seq(LimitOrder)
  BY DEF SoundQueue
<1>2. \A i \in 1 .. N : queue[i] \in LimitOrder
  BY <1>1
<1>3. \A i \in 1 .. N : F[i] \in Nat /\ F[i] <= queue[i].quantity
  BY <1>1, FillsSound
<1>4. B = AfterFills(order, queue)
  BY DEF AfterFills
<1> HIDE DEF F
<1>5. ASSUME NEW i \in 1 .. N
      PROVE  /\ R[i] \in LimitOrder
             /\ R[i] = [queue[i] EXCEPT !.quantity = queue[i].quantity - F[i]]
  <2>1. R[i] = [queue[i] EXCEPT !.quantity = queue[i].quantity - F[i]]
    BY <1>1
  <2>2. queue[i] \in LimitOrder
    BY <1>2
  <2>3. queue[i].quantity \in Nat
    BY <2>2 DEF LimitOrder
  <2>4. queue[i].quantity - F[i] \in Nat
    BY <2>3, <1>3
  <2> DEFINE left == queue[i].quantity - F[i]
  <2>5. R[i] = [queue[i] EXCEPT !.quantity = left] /\ left \in Nat
    BY <2>1, <2>4
  <2> HIDE DEF left, R
  <2>6. R[i] \in LimitOrder
    BY <2>2, <2>5 DEF LimitOrder
  <2> QED  BY <2>1, <2>6
<1>6. R \in Seq(LimitOrder) /\ DOMAIN R = 1 .. N
  <2>1. DOMAIN R = 1 .. N
    BY <1>1
  <2>2. R \in [1 .. N -> LimitOrder]
    <3>1. R = [i \in 1 .. N |-> R[i]]
      BY <1>1
    <3> HIDE DEF R
    <3> QED  BY <3>1, <1>5
  <2> HIDE DEF R, N
  <2> QED  BY <2>1, <2>2, <1>1
<1>7. P \in SUBSET DOMAIN R /\ \A i \in 1 .. N : i \in P <=> F[i] < queue[i].quantity
  BY <1>1, <1>6
<1>8. \A i \in P : i \in 1 .. N
  BY <1>1
<1> DEFINE M == Cardinality(P)
           p == [i \in 1 .. M |-> Ascending(P)[i]]
<1> HIDE DEF R, P
<1>9. /\ B \in Seq(LimitOrder) /\ Len(B) = M /\ M \in Nat
      /\ \A i \in 1 .. M : Ascending(P)[i] \in P /\ B[i] = R[Ascending(P)[i]]
      /\ \A i, j \in 1 .. M : i < j <=> Ascending(P)[i] < Ascending(P)[j]
      /\ \A n \in P : \E i \in 1 .. M : Ascending(P)[i] = n
  BY <1>6, <1>7, AtPicks
<1>10. p \in [1 .. M -> 1 .. N] /\ \A i \in 1 .. M : p[i] = Ascending(P)[i]
  BY <1>8, <1>9
<1> HIDE DEF M, B, N, p
<1>11. ASSUME NEW i \in 1 .. M
       PROVE  /\ F[p[i]] < queue[p[i]].quantity
              /\ B[i] = [queue[p[i]] EXCEPT !.quantity = queue[p[i]].quantity - F[p[i]]]
  <2>1. PICK n \in P : n = p[i] /\ B[i] = R[n]
    BY <1>9, <1>10
  <2>2. n \in 1 .. N
    BY <1>8
  <2>3. F[n] < queue[n].quantity
    BY <2>2, <1>7
  <2>4. R[n] = [queue[n] EXCEPT !.quantity = queue[n].quantity - F[n]]
    BY <2>2, <1>5
  <2> QED  BY <2>1, <2>3, <2>4
<1>12. \A i, j \in 1 .. M : i < j <=> p[i] < p[j]
  BY <1>9, <1>10
<1>13. \A n \in 1 .. N : F[n] < queue[n].quantity => \E i \in 1 .. M : p[i] = n
  BY <1>7, <1>9, <1>10
<1>14. B \in Seq(LimitOrder) /\ Len(B) = M /\ M \in Nat
  BY <1>9
<1>15. Len(AfterFills(order, queue)) = M /\ AfterFills(order, queue) \in Seq(LimitOrder)
  BY <1>4, <1>14
<1>16. \E q \in [1 .. M -> 1 .. N] :
          /\ \A i \in 1 .. M : /\ F[q[i]] < queue[q[i]].quantity
                             /\ AfterFills(order, queue)[i]
                                   = [queue[q[i]] EXCEPT !.quantity = queue[q[i]].quantity - F[q[i]]]
          /\ \A i, j \in 1 .. M : i < j <=> q[i] < q[j]
          /\ \A n \in 1 .. N : F[n] < queue[n].quantity => \E i \in 1 .. M : q[i] = n
  <2>1. /\ p \in [1 .. M -> 1 .. N]
        /\ \A i \in 1 .. M : /\ F[p[i]] < queue[p[i]].quantity
                           /\ AfterFills(order, queue)[i]
                                 = [queue[p[i]] EXCEPT !.quantity = queue[p[i]].quantity - F[p[i]]]
    BY <1>4, <1>10, <1>11
  <2> QED  BY <2>1, <1>12, <1>13
<1> QED  BY <1>14, <1>15, <1>16 DEF F, N

LEMMA AfterFillsSound ==
    ASSUME NEW order \in LimitOrder, NEW queue, SoundQueue(Opposite(order.side), queue)
    PROVE  SoundQueue(Opposite(order.side), AfterFills(order, queue))
<1> DEFINE side == Opposite(order.side)
           F == Fills(order, queue)
           N == Len(queue)
           B == AfterFills(order, queue)
           M == Len(B)
<1>1. N \in Nat /\ DOMAIN queue = 1 .. N /\ queue \in Seq(LimitOrder)
  BY DEF SoundQueue
<1>2. \A i \in 1 .. N : queue[i] \in LimitOrder
  BY <1>1
<1>3. \A i \in 1 .. N : F[i] \in Nat
  BY <1>1, FillsSound
<1>4. \A i, j \in 1 .. N : i < j => ~ Better(side, queue[j].price, queue[i].price)
  BY <1>1 DEF SoundQueue
<1>5. PICK p \in [1 .. M -> 1 .. N] :
         /\ B \in Seq(LimitOrder) /\ M \in Nat
         /\ \A i \in 1 .. M :
               /\ F[p[i]] < queue[p[i]].quantity
               /\ B[i] = [queue[p[i]] EXCEPT !.quantity = queue[p[i]].quantity - F[p[i]]]
         /\ \A i, j \in 1 .. M : i < j <=> p[i] < p[j]
  BY AfterFillsPicks
<1>6. DOMAIN B = 1 .. M
  BY <1>5
<1> HIDE DEF F, B, M, N, side
<1>7. ASSUME NEW i \in 1 .. M
      PROVE  B[i].quantity > 0 /\ B[i].price = queue[p[i]].price
  <2>1. queue[p[i]] \in LimitOrder /\ F[p[i]] \in Nat
    BY <1>2, <1>3
  <2>2. queue[p[i]].quantity \in Nat /\ F[p[i]] < queue[p[i]].quantity
    BY <2>1, <1>5 DEF LimitOrder
  <2>3. PICK left \in Nat : left = queue[p[i]].quantity - F[p[i]] /\ left > 0
    BY <2>1, <2>2
  <2>4. B[i] = [queue[p[i]] EXCEPT !.quantity = left]
    BY <2>3, <1>5
  <2>5. B[i].quantity = left /\ B[i].price = queue[p[i]].price
    BY <2>1, <2>4 DEF LimitOrder
  <2> QED  BY <2>3, <2>5
<1>8. ASSUME NEW i \in 1 .. M, NEW j \in 1 .. M, i < j
      PROVE  ~ Better(side, B[j].price, B[i].price)
  <2>1. p[i] < p[j] /\ p[i] \in 1 .. N /\ p[j] \in 1 .. N
    BY <1>5, <1>8
  <2>2. ~ Better(side, queue[p[j]].price, queue[p[i]].price)
    BY <2>1, <1>4
  <2> QED  BY <2>2, <1>7
<1>9. SoundQueue(side, B)
  BY <1>5, <1>6, <1>7, <1>8 DEF SoundQueue
<1> QED  BY <1>9 DEF side, B

(* An order joins behind all of a better or the same price.                *)
LEMMA EnqueuePlaces ==
    ASSUME NEW order \in LimitOrder, NEW queue, SoundQueue(order.side, queue)
    PROVE  \E pos \in 1 .. (Len(queue) + 1) :
              /\ Enqueue(order, queue) \in Seq(LimitOrder)
              /\ Len(Enqueue(order, queue)) = Len(queue) + 1
              /\ \A j \in 1 .. (Len(queue) + 1) :
                    Enqueue(order, queue)[j] = IF j < pos THEN queue[j]
                                               ELSE IF j = pos THEN order ELSE queue[j - 1]
              /\ \A i \in 1 .. Len(queue) :
                    i < pos <=> ~ Better(order.side, order.price, queue[i].price)
<1> DEFINE side == order.side
           N == Len(queue)
           H == {i \in DOMAIN queue : ~ Better(side, order.price, queue[i].price)}
           pos == Cardinality(H) + 1
           B == InsertAt(queue, pos, order)
<1>1. N \in Nat /\ DOMAIN queue = 1 .. N /\ queue \in Seq(LimitOrder)
  BY DEF SoundQueue
<1>2. \A i, j \in 1 .. N : i < j => ~ Better(side, queue[j].price, queue[i].price)
  BY <1>1 DEF SoundQueue
<1>3. B = Enqueue(order, queue)
  BY DEF Enqueue
<1>4. \A i \in 1 .. N : queue[i].price \in Nat
  <2>1. \A i \in 1 .. N : queue[i] \in LimitOrder
    BY <1>1
  <2> QED  BY <2>1, OrdersAssumption DEF LimitOrder
<1>5. order.price \in Nat
  BY OrdersAssumption DEF LimitOrder
<1>6. H \in SUBSET (1 .. N) /\ \A i \in 1 .. N : i \in H <=> ~ Better(side, order.price, queue[i].price)
  BY <1>1
<1> HIDE DEF side, H
<1>7. ASSUME NEW i \in 1 .. N, NEW j \in H, i < j
      PROVE  i \in H
  <2>1. j \in 1 .. N
    BY <1>6
  <2>2. ~ Better(side, queue[j].price, queue[i].price) /\ ~ Better(side, order.price, queue[j].price)
    BY <2>1, <1>2, <1>6, <1>7
  <2>3. ~ Better(side, order.price, queue[i].price)
    <3>1. queue[i].price \in Nat /\ queue[j].price \in Nat
      BY <2>1, <1>4
    <3> QED  BY <2>2, <3>1, <1>5 DEF Better
  <2> QED  BY <2>3, <1>6
<1>8. Cardinality(H) \in 0 .. N /\ H = 1 .. Cardinality(H)
  <2> HIDE DEF N
  <2> QED  BY <1>1, <1>6, <1>7, FirstPositions
<1>9. PICK p \in 1 .. (Len(queue) + 1) : p = pos /\ H = 1 .. (p - 1)
  BY <1>1, <1>8
<1> HIDE DEF pos
<1>10. /\ InsertAt(queue, p, order) \in Seq(LimitOrder)
       /\ Len(InsertAt(queue, p, order)) = Len(queue) + 1
       /\ \A j \in 1 .. (Len(queue) + 1) :
             InsertAt(queue, p, order)[j] = IF j < p THEN queue[j]
                                            ELSE IF j = p THEN order ELSE queue[j - 1]
  <2>1. order \in LimitOrder /\ queue \in Seq(LimitOrder) /\ p \in 1 .. (Len(queue) + 1)
    BY <1>1, <1>9
  <2> HIDE DEF B, N
  <2> DEFINE L == LimitOrder
             z == InsertAt(queue, p, order)
  <2>2. order \in L /\ queue \in Seq(L)
    BY <2>1
  <2> HIDE DEF L
  <2>3. z \in Seq(L) /\ Len(z) = Len(queue) + 1
    BY ONLY <2>1, <2>2, InsertAtProperties
  <2>4. \A j \in 1 .. (Len(queue) + 1) :
           z[j] = IF j < p THEN queue[j] ELSE IF j = p THEN order ELSE queue[j - 1]
    <3> HIDE DEF z
    <3> TAKE j \in 1 .. (Len(queue) + 1)
    <3>1. InsertAt(queue, p, order)[j] =
             IF j < p THEN queue[j] ELSE IF j = p THEN order ELSE queue[j - 1]
      BY ONLY <2>1, <2>2, j \in 1 .. (Len(queue) + 1), InsertAtProperties
    <3> QED  BY <3>1 DEF z
  <2> HIDE DEF z
  <2>5. z \in Seq(LimitOrder)
    BY <2>3 DEF L
  <2> QED  BY <2>3, <2>4, <2>5 DEF z
<1>11. B = InsertAt(queue, p, order)
  BY <1>9
<1>12. \A i \in 1 .. N : i < p <=> ~ Better(side, order.price, queue[i].price)
  <2>1. \A i \in 1 .. N : i < p <=> i \in H
    BY <1>1, <1>9
  <2> QED  BY <2>1, <1>6
<1> HIDE DEF B
<1> QED  BY <1>3, <1>10, <1>11, <1>12 DEF side

(* An order rests behind all of a better or the same price and before all  *)
(* of a worse.                                                             *)
LEMMA EnqueueSound ==
    ASSUME NEW order, Incoming(order), NEW queue, SoundQueue(order.side, queue)
    PROVE  SoundQueue(order.side, Enqueue(order, queue))
<1> DEFINE side == order.side
           N == Len(queue)
           B == Enqueue(order, queue)
<1>0. order \in LimitOrder /\ order.quantity > 0
  BY DEF Incoming
<1>1. N \in Nat /\ DOMAIN queue = 1 .. N /\ queue \in Seq(LimitOrder)
      /\ \A i \in 1 .. N : queue[i].quantity > 0
  BY DEF SoundQueue
<1>2. \A i, j \in 1 .. N : i < j => ~ Better(side, queue[j].price, queue[i].price)
  BY <1>1 DEF SoundQueue
<1>4. \A i \in 1 .. N : queue[i].price \in Nat
  <2>1. \A i \in 1 .. N : queue[i] \in LimitOrder
    BY <1>1
  <2> QED  BY <2>1, OrdersAssumption DEF LimitOrder
<1>5. order.price \in Nat
  BY <1>0, OrdersAssumption DEF LimitOrder
<1>9. PICK pos \in 1 .. (N + 1) :
         /\ B \in Seq(LimitOrder) /\ Len(B) = N + 1
         /\ \A j \in 1 .. N + 1 : B[j] = IF j < pos THEN queue[j]
                                         ELSE IF j = pos THEN order ELSE queue[j - 1]
         /\ \A i \in 1 .. N : i < pos <=> ~ Better(side, order.price, queue[i].price)
  BY <1>0, EnqueuePlaces
<1>10. /\ B \in Seq(LimitOrder) /\ Len(B) = N + 1
       /\ \A j \in 1 .. N + 1 : B[j] = IF j < pos THEN queue[j]
                                       ELSE IF j = pos THEN order ELSE queue[j - 1]
  BY <1>9
<1> DEFINE H == {i \in 1 .. N : ~ Better(side, order.price, queue[i].price)}
<1>6. \A i \in 1 .. N : (i \in H <=> ~ Better(side, order.price, queue[i].price)) /\ (i \in H <=> i < pos)
  BY <1>9
<1> HIDE DEF H, side
<1> HIDE DEF B
<1>11. DOMAIN B = 1 .. N + 1
  BY <1>10
<1>12. ASSUME NEW i \in 1 .. N + 1
       PROVE  B[i].quantity > 0
  <2>1. CASE i < pos
    BY <2>1, <1>1, <1>9, <1>10
  <2>2. CASE i = pos
    BY <2>2, <1>0, <1>10
  <2>3. CASE i > pos
    <3>1. i - 1 \in 1 .. N /\ B[i] = queue[i - 1]
      BY <2>3, <1>1, <1>9, <1>10
    <3> QED  BY <3>1, <1>1
  <2> QED  BY <2>1, <2>2, <2>3, <1>9
<1>13. ASSUME NEW i \in 1 .. N + 1, NEW j \in 1 .. N + 1, i < j
       PROVE  ~ Better(side, B[j].price, B[i].price)
  <2>1. CASE j < pos
    <3>1. i \in 1 .. N /\ j \in 1 .. N /\ B[i] = queue[i] /\ B[j] = queue[j]
      BY <2>1, <1>1, <1>9, <1>10, <1>13
    <3> QED  BY <3>1, <1>2, <1>13
  <2>2. CASE j = pos
    <3>1. i \in H /\ i \in 1 .. N /\ B[i] = queue[i] /\ B[j] = order
      BY <2>2, <1>1, <1>6, <1>9, <1>10, <1>13
    <3> QED  BY <3>1, <1>6
  <2>3. CASE j > pos
    <3>1. j - 1 \in 1 .. N /\ B[j] = queue[j - 1] /\ j - 1 \notin H
      BY <2>3, <1>1, <1>6, <1>9, <1>10
    <3>2. Better(side, order.price, queue[j - 1].price)
      BY <3>1, <1>6
    <3>3. CASE i = pos
      <4>1. B[i] = order
        BY <3>3, <1>10
      <4>2. queue[j - 1].price \in Nat
        BY <3>1, <1>4
      <4> QED  BY <3>1, <3>2, <4>1, <4>2, <1>5 DEF Better
    <3>4. CASE i < pos
      <4>1. i \in 1 .. N /\ B[i] = queue[i] /\ i < j - 1
        BY <2>3, <3>4, <1>1, <1>9, <1>10
      <4> QED  BY <3>1, <4>1, <1>2
    <3>5. CASE i > pos
      <4>1. i - 1 \in 1 .. N /\ B[i] = queue[i - 1] /\ i - 1 < j - 1
        BY <3>5, <1>1, <1>9, <1>10, <1>13
      <4> QED  BY <3>1, <4>1, <1>2
    <3> QED  BY <3>3, <3>4, <3>5, <1>9
  <2> QED  BY <2>1, <2>2, <2>3, <1>9
<1>14. SoundQueue(side, B)
  BY <1>10, <1>11, <1>12, <1>13 DEF SoundQueue
<1> QED  BY <1>14 DEF side, B

(* Matching and resting leave a sound book.                                *)
LEMMA PlaceKeepsSound ==
    ASSUME NEW book, SoundBook(book), NEW order \in LimitOrder
    PROVE  SoundBook(BookAfterPlace(order, book))
<1> DEFINE other  == Opposite(order.side)
           makers == book[other]
           left   == Remaining(order, makers)
           B      == BookAfterPlace(order, book)
           rest   == [order EXCEPT !.quantity = left]
           Of(s)  == IF s = other THEN AfterFills(order, makers)
                     ELSE IF left > 0 THEN Enqueue(rest, book[s]) ELSE book[s]
<1>1. order.side \in Sides /\ other \in Sides
  BY DEF LimitOrder, Sides, Opposite
<1>2. SoundQueue(other, makers)
  BY <1>1 DEF SoundBook
<1>3. left \in Nat
  <2>1. order.quantity \in Nat
    BY DEF LimitOrder
  <2>2. left \in 0 .. order.quantity
    BY <1>2, RemainingSound
  <2> QED  BY <2>1, <2>2
<1>4. B = [s \in Sides |-> Of(s)]
  BY DEF BookAfterPlace
<1>5. ASSUME NEW s \in Sides
      PROVE  SoundQueue(s, Of(s))
  <2>1. CASE s = other
    BY <2>1, <1>2, AfterFillsSound
  <2>2. CASE s # other /\ left > 0
    <3>1. s = order.side
      BY <2>2, <1>1 DEF Sides, Opposite
    <3> HIDE DEF left
    <3>2. rest \in LimitOrder /\ rest.quantity = left /\ rest.side = order.side
      BY <1>3 DEF LimitOrder
    <3>3. Incoming(rest)
      BY <2>2, <3>2 DEF Incoming
    <3>4. SoundQueue(rest.side, book[s])
      BY <3>1, <3>2 DEF SoundBook
    <3> HIDE DEF rest
    <3>5. SoundQueue(rest.side, Enqueue(rest, book[s]))
      BY <3>3, <3>4, EnqueueSound
    <3> QED  BY <2>2, <3>1, <3>2, <3>5
  <2>3. CASE s # other /\ ~ (left > 0)
    BY <2>3 DEF SoundBook
  <2> QED  BY <2>1, <2>2, <2>3
<1> HIDE DEF B, Of
<1>6. B \in [Sides -> Seq(LimitOrder)] /\ \A s \in Sides : B[s] = Of(s)
  <2>1. \A s \in Sides : Of(s) \in Seq(LimitOrder)
    BY <1>5 DEF SoundQueue
  <2> QED  BY <2>1, <1>4
<1>7. SoundBook(B)
  BY <1>5, <1>6 DEF SoundBook
<1> QED  BY <1>7 DEF B

(* So does a cancel.                                                       *)
LEMMA CancelKeepsSound ==
    ASSUME NEW book, SoundBook(book), NEW id
    PROVE  SoundBook(BookAfterCancel(id, book))
<1> DEFINE B == BookAfterCancel(id, book)
           P(s) == {i \in DOMAIN book[s] : book[s][i].order_id # id}
<1>1. B = [s \in Sides |-> At(book[s], P(s))]
  BY DEF BookAfterCancel
<1>2. ASSUME NEW s \in Sides
      PROVE  SoundQueue(s, At(book[s], P(s)))
  <2>1. SoundQueue(s, book[s])
    BY DEF SoundBook
  <2>2. P(s) \in SUBSET DOMAIN book[s]
    OBVIOUS
  <2> HIDE DEF P
  <2> QED  BY <2>1, <2>2, AtKeepsSound
<1> HIDE DEF B, P
<1>3. B \in [Sides -> Seq(LimitOrder)] /\ \A s \in Sides : B[s] = At(book[s], P(s))
  <2>1. \A s \in Sides : At(book[s], P(s)) \in Seq(LimitOrder)
    BY <1>2 DEF SoundQueue
  <2> QED  BY <2>1, <1>1
<1>4. SoundBook(B)
  BY <1>2, <1>3 DEF SoundBook
<1> QED  BY <1>4 DEF B

(* The empty book is sound, and a cancel leaves it empty.                  *)
LEMMA EmptyBookSound ==
    SoundBook(EmptyBook) /\ \A id : BookAfterCancel(id, EmptyBook) = EmptyBook
<1>1. << >> \in Seq(LimitOrder) /\ DOMAIN << >> = {}
  OBVIOUS
<1>2. EmptyBook \in [Sides -> Seq(LimitOrder)] /\ \A s \in Sides : EmptyBook[s] = << >>
  BY <1>1 DEF EmptyBook
<1>3. SoundBook(EmptyBook)
  <2>1. \A s \in Sides : SoundQueue(s, << >>)
    BY <1>1 DEF SoundQueue
  <2> QED  BY <2>1, <1>2 DEF SoundBook
<1>4. ASSUME NEW id
      PROVE  BookAfterCancel(id, EmptyBook) = EmptyBook
  <2>1. \A s \in Sides : {i \in DOMAIN EmptyBook[s] : EmptyBook[s][i].order_id # id} = {}
    BY <1>1, <1>2
  <2>2. \A s \in Sides : At(EmptyBook[s], {}) = << >>
    BY AtNothing
  <2>3. BookAfterCancel(id, EmptyBook) = [s \in Sides |-> << >>]
    BY <2>1, <2>2 DEF BookAfterCancel
  <2> QED  BY <2>3 DEF EmptyBook
<1> QED  BY <1>3, <1>4

(* What an accepted order is answered: a sequence of trades, and a         *)
(* remainder that is a part of it.                                         *)
LEMMA OutcomeSound ==
    ASSUME NEW book, SoundBook(book), NEW order \in LimitOrder
    PROVE  /\ PlaceOutcome(order, book).trades \in Seq(Trade)
           /\ PlaceOutcome(order, book).remaining_quantity \in Nat
<1> DEFINE makers == book[Opposite(order.side)]
<1>1. Opposite(order.side) \in Sides /\ order.quantity \in Nat
  BY DEF LimitOrder, Sides, Opposite
<1>2. SoundQueue(Opposite(order.side), makers)
  BY <1>1 DEF SoundBook
<1>3. /\ PlaceOutcome(order, book).trades = TradesWith(order, makers)
      /\ PlaceOutcome(order, book).remaining_quantity = Remaining(order, makers)
  BY DEF PlaceOutcome, Accepted
<1>4. TradesWith(order, makers) \in Seq(Trade)
  BY <1>2, TradesSound
<1>5. Remaining(order, makers) \in 0 .. order.quantity
  BY <1>2, RemainingSound
<1>6. Remaining(order, makers) \in Nat
  BY <1>1, <1>5
<1> QED  BY <1>3, <1>4, <1>6

-------------------------------------------------------------------------------
(* Where the orders of a book and the trades with them come from.          *)

(* rests is what may be left of order.                                     *)
LeftOf(rests, order) ==
    /\ rests.order_id = order.order_id
    /\ rests.price = order.price
    /\ rests.quantity <= order.quantity

(* Whatever rests is what is left of one of these orders.                  *)
Placed(book, orders) ==
    \A s \in Sides : \A i \in DOMAIN book[s] : \E order \in orders : LeftOf(book[s][i], order)

(* A maker that stays is what is left of a maker.                          *)
LEMMA AfterFillsLeft ==
    ASSUME NEW order \in LimitOrder, NEW queue, SoundQueue(Opposite(order.side), queue),
           NEW i \in DOMAIN AfterFills(order, queue)
    PROVE  \E j \in DOMAIN queue : LeftOf(AfterFills(order, queue)[i], queue[j])
<1> DEFINE F == Fills(order, queue)
           N == Len(queue)
           B == AfterFills(order, queue)
<1>1. N \in Nat /\ DOMAIN queue = 1 .. N /\ queue \in Seq(LimitOrder)
  BY DEF SoundQueue
<1>2. i \in 1 .. Len(B)
  BY AfterFillsPicks
<1>3. PICK j \in 1 .. N :
         /\ F[j] < queue[j].quantity
         /\ B[i] = [queue[j] EXCEPT !.quantity = queue[j].quantity - F[j]]
  <2>1. PICK p \in [1 .. Len(B) -> 1 .. N] :
           /\ B \in Seq(LimitOrder) /\ Len(B) \in Nat
           /\ \A n \in 1 .. Len(B) :
                 /\ F[p[n]] < queue[p[n]].quantity
                 /\ B[n] = [queue[p[n]] EXCEPT !.quantity = queue[p[n]].quantity - F[p[n]]]
           /\ \A n, m \in 1 .. Len(B) : n < m <=> p[n] < p[m]
    BY AfterFillsPicks
  <2> HIDE DEF B, F, N
  <2>2. p[i] \in 1 .. N
    BY <1>2
  <2> QED  BY <2>1, <2>2, <1>2
<1>4. F[j] \in Nat
  BY <1>1, FillsSound
<1> HIDE DEF F, B
<1>5. queue[j] \in LimitOrder /\ queue[j].quantity \in Nat
  <2>1. queue[j] \in LimitOrder
    BY <1>1
  <2> QED  BY <2>1 DEF LimitOrder
<1>6. PICK left : left = queue[j].quantity - F[j] /\ left <= queue[j].quantity
  BY <1>4, <1>5
<1>7. B[i] = [queue[j] EXCEPT !.quantity = left]
  BY <1>3, <1>6
<1>8. B[i].order_id = queue[j].order_id /\ B[i].price = queue[j].price /\ B[i].quantity = left
  BY <1>5, <1>7 DEF LimitOrder
<1> QED  BY <1>1, <1>6, <1>8 DEF LeftOf, B

(* In the queue an order joins, every other order was there.               *)
LEMMA EnqueueLeft ==
    ASSUME NEW order \in LimitOrder, NEW queue, SoundQueue(order.side, queue),
           NEW i \in DOMAIN Enqueue(order, queue)
    PROVE  \/ Enqueue(order, queue)[i] = order
           \/ \E j \in DOMAIN queue : Enqueue(order, queue)[i] = queue[j]
<1> DEFINE N == Len(queue)
           B == Enqueue(order, queue)
<1>1. N \in Nat /\ DOMAIN queue = 1 .. N
  BY DEF SoundQueue
<1>2. PICK pos \in 1 .. (N + 1) :
         /\ B \in Seq(LimitOrder) /\ Len(B) = N + 1
         /\ \A j \in 1 .. (N + 1) : B[j] = IF j < pos THEN queue[j]
                                           ELSE IF j = pos THEN order ELSE queue[j - 1]
  BY EnqueuePlaces
<1>3. i \in 1 .. (N + 1)
  BY <1>2
<1> HIDE DEF B
<1>4. i < pos => i \in 1 .. N
  BY <1>1, <1>3
<1>5. ~ (i < pos) /\ i # pos => i - 1 \in 1 .. N
  BY <1>1, <1>3
<1>6. B[i] = order \/ \E j \in DOMAIN queue : B[i] = queue[j]
  BY <1>1, <1>2, <1>3, <1>4, <1>5
<1> QED  BY <1>6 DEF B

(* A call of place_limit adds no order to the book but its own.            *)
LEMMA PlacePlaces ==
    ASSUME NEW book, SoundBook(book), NEW order \in LimitOrder,
           NEW orders \in SUBSET LimitOrder, Placed(book, orders)
    PROVE  Placed(BookAfterPlace(order, book), orders \cup {order})
<1> DEFINE other  == Opposite(order.side)
           makers == book[other]
           left   == Remaining(order, makers)
           B      == BookAfterPlace(order, book)
           rest   == [order EXCEPT !.quantity = left]
           Of(s)  == IF s = other THEN AfterFills(order, makers)
                     ELSE IF left > 0 THEN Enqueue(rest, book[s]) ELSE book[s]
<1>1. order.side \in Sides /\ other \in Sides /\ order.quantity \in Nat
  BY DEF LimitOrder, Sides, Opposite
<1>2. SoundQueue(other, makers)
  BY <1>1 DEF SoundBook
<1>3. left \in 0 .. order.quantity
  BY <1>2, RemainingSound
<1>4. left \in Nat /\ left <= order.quantity
  BY <1>1, <1>3
<1>5. \A s \in Sides : B[s] = Of(s)
  BY DEF BookAfterPlace
<1>6. rest \in LimitOrder /\ LeftOf(rest, order) /\ rest.side = order.side
  <2> HIDE DEF left
  <2>1. rest \in LimitOrder /\ rest.order_id = order.order_id /\ rest.price = order.price
        /\ rest.quantity = left /\ rest.side = order.side
    BY <1>4 DEF LimitOrder
  <2> QED  BY <2>1, <1>4 DEF LeftOf
<1> HIDE DEF rest, left, B
<1>7. ASSUME NEW s \in Sides, NEW i \in DOMAIN Of(s)
      PROVE  \E o \in orders \cup {order} : LeftOf(Of(s)[i], o)
  <2>1. CASE s = other
    <3>1. PICK j \in DOMAIN makers : LeftOf(AfterFills(order, makers)[i], makers[j])
      BY <2>1, <1>2, AfterFillsLeft
    <3>2. PICK o \in orders : LeftOf(makers[j], o)
      BY <1>1 DEF Placed
    <3>3. LeftOf(Of(s)[i], o)
      <4>1. LeftOf(AfterFills(order, makers)[i], makers[j]) /\ LeftOf(makers[j], o)
        BY <3>1, <3>2
      <4>2. /\ AfterFills(order, makers)[i] \in LimitOrder /\ makers[j] \in LimitOrder
            /\ o \in LimitOrder
        <5>1. SoundQueue(other, AfterFills(order, makers))
          BY <1>2, AfterFillsSound
        <5>2. i \in DOMAIN AfterFills(order, makers)
          BY <2>1
        <5>3. AfterFills(order, makers) \in Seq(LimitOrder) /\ makers \in Seq(LimitOrder)
          BY <5>1, <1>2 DEF SoundQueue
        <5> HIDE DEF makers
        <5> QED  BY <5>2, <5>3
      <4>3. LeftOf(AfterFills(order, makers)[i], o)
        <5> HIDE DEF makers
        <5>1. /\ AfterFills(order, makers)[i].quantity \in Nat /\ makers[j].quantity \in Nat
              /\ o.quantity \in Nat
          BY <4>2 DEF LimitOrder
        <5> QED  BY <5>1, <4>1 DEF LeftOf
      <4> QED  BY <4>3, <2>1
    <3> QED  BY <3>3
  <2>2. CASE s # other /\ left > 0
    <3>0. s = order.side
      BY <2>2, <1>1 DEF Sides, Opposite
    <3>1. Of(s) = Enqueue(rest, book[s]) /\ SoundQueue(rest.side, book[s])
      BY <3>0, <2>2, <1>6 DEF SoundBook
    <3>2. \/ Of(s)[i] = rest
          \/ \E j \in DOMAIN book[s] : Of(s)[i] = book[s][j]
      BY <3>1, <1>6, EnqueueLeft
    <3> HIDE DEF Of
    <3>3. CASE Of(s)[i] = rest
      BY <3>3, <1>6
    <3>4. ASSUME NEW j \in DOMAIN book[s], Of(s)[i] = book[s][j]
          PROVE  \E o \in orders \cup {order} : LeftOf(Of(s)[i], o)
      BY <3>4 DEF Placed
    <3> QED  BY <3>2, <3>3, <3>4
  <2>3. CASE s # other /\ ~ (left > 0)
    <3>1. Of(s) = book[s]
      BY <2>3
    <3> HIDE DEF Of
    <3> QED  BY <3>1 DEF Placed
  <2> QED  BY <2>1, <2>2, <2>3
<1> HIDE DEF Of
<1> QED  BY <1>5, <1>7 DEF Placed, B

(* A cancel adds none.                                                     *)
LEMMA CancelPlaces ==
    ASSUME NEW book, SoundBook(book), NEW id, NEW orders, Placed(book, orders)
    PROVE  Placed(BookAfterCancel(id, book), orders)
<1> DEFINE P(s) == {i \in DOMAIN book[s] : book[s][i].order_id # id}
           B == BookAfterCancel(id, book)
<1>1. \A s \in Sides : B[s] = At(book[s], P(s))
  BY DEF BookAfterCancel
<1>2. ASSUME NEW s \in Sides, NEW i \in DOMAIN At(book[s], P(s))
      PROVE  \E j \in DOMAIN book[s] : At(book[s], P(s))[i] = book[s][j]
  <2>1. book[s] \in Seq(LimitOrder) /\ P(s) \in SUBSET DOMAIN book[s]
    BY DEF SoundBook
  <2> DEFINE Q == P(s)
  <2>2. Q \in SUBSET DOMAIN book[s]
    BY <2>1
  <2> HIDE DEF P, Q
  <2>3. DOMAIN At(book[s], Q) = 1 .. Cardinality(Q)
    BY ONLY <2>1, <2>2, AtPicks
  <2>4. \A n \in 1 .. Cardinality(Q) :
           Ascending(Q)[n] \in Q /\ At(book[s], Q)[n] = book[s][Ascending(Q)[n]]
    BY ONLY <2>1, <2>2, AtPicks
  <2>5. \A n \in DOMAIN At(book[s], Q) : \E j \in DOMAIN book[s] : At(book[s], Q)[n] = book[s][j]
    BY ONLY <2>2, <2>3, <2>4
  <2> QED  BY <2>5 DEF Q
<1> HIDE DEF P, B
<1>3. \A s \in Sides : \A i \in DOMAIN B[s] : \E order \in orders : LeftOf(B[s][i], order)
  BY <1>1, <1>2 DEF Placed
<1> QED  BY <1>3 DEF Placed, B

(* Each trade is with one of them, at its price, and good enough for the   *)
(* order that takes.                                                       *)
TradeBetween(trade, maker, taker) ==
    /\ trade.maker_order_id = maker.order_id
    /\ trade.taker_order_id = taker.order_id
    /\ trade.price = maker.price
    /\ trade.quantity <= maker.quantity
    /\ trade.quantity <= taker.quantity
    /\ Crosses(taker, trade.price)

LEMMA TradesPlaced ==
    ASSUME NEW book, SoundBook(book), NEW order \in LimitOrder,
           NEW orders \in SUBSET LimitOrder, Placed(book, orders),
           NEW n \in DOMAIN PlaceOutcome(order, book).trades
    PROVE  \E maker \in orders : TradeBetween(PlaceOutcome(order, book).trades[n], maker, order)
<1> DEFINE side   == Opposite(order.side)
           queue  == book[side]
           F      == Fills(order, queue)
           T      == TradesWith(order, queue)
           A      == QuantityAhead(queue)
<1>1. side \in Sides /\ order.quantity \in Nat
  BY DEF LimitOrder, Sides, Opposite
<1>2. SoundQueue(side, queue) /\ queue \in Seq(LimitOrder) /\ Len(queue) \in Nat
  BY <1>1 DEF SoundBook, SoundQueue
<1>3. PlaceOutcome(order, book).trades = T
  BY DEF PlaceOutcome, Accepted
<1>4. /\ T \in Seq(Trade) /\ Len(T) \in 0 .. Len(queue)
      /\ \A i \in 1 .. Len(T) : T[i] = TradeOf(queue[i], order, queue[i].price, F[i]) /\ F[i] > 0
  BY <1>2, TradesSound
<1>5. n \in 1 .. Len(T) /\ n \in 1 .. Len(queue) /\ DOMAIN queue = 1 .. Len(queue)
  <2>1. n \in 1 .. Len(T)
    BY <1>3, <1>4
  <2> HIDE DEF T, queue
  <2> QED  BY <2>1, <1>2, <1>4
<1>6. F[n] \in Nat /\ F[n] <= queue[n].quantity
  BY <1>2, <1>5, FillsSound
<1>7. Crosses(order, queue[n].price) /\ F[n] <= order.quantity
  <2>1. F[n] = IF Crosses(order, queue[n].price) /\ A[n] < order.quantity
               THEN Smaller(queue[n].quantity, order.quantity - A[n]) ELSE 0
    BY <1>5 DEF Fills
  <2>2. A[n] \in Nat
    <3>1. A \in [1 .. (Len(queue) + 1) -> Nat]
      BY <1>2, AheadAddsUp
    <3>2. n \in 1 .. (Len(queue) + 1)
      <4> HIDE DEF queue, T
      <4> QED  BY <1>2, <1>5
    <3> QED  BY <3>1, <3>2
  <2>3. queue[n].quantity \in Nat /\ F[n] > 0
    <3>1. queue[n] \in LimitOrder
      BY <1>2, <1>5
    <3> QED  BY <3>1, <1>4, <1>5 DEF LimitOrder
  <2> HIDE DEF F, A, queue, T
  <2> QED  BY <2>1, <2>2, <2>3, <1>1 DEF Smaller
<1>8. PICK maker \in orders : LeftOf(queue[n], maker)
  BY <1>1, <1>5 DEF Placed
<1>9. maker.quantity \in Nat /\ queue[n].quantity \in Nat
  <2>1. queue[n] \in LimitOrder /\ maker \in LimitOrder
    BY <1>2, <1>5
  <2> QED  BY <2>1 DEF LimitOrder
<1>10. /\ T[n].maker_order_id = queue[n].order_id /\ T[n].taker_order_id = order.order_id
       /\ T[n].price = queue[n].price /\ T[n].quantity = F[n]
  <2>1. T[n] = TradeOf(queue[n], order, queue[n].price, F[n])
    BY <1>4, <1>5
  <2> HIDE DEF T, F, queue
  <2> QED  BY <2>1 DEF TradeOf
<1>11. TradeBetween(T[n], maker, order)
  <2> HIDE DEF T, F, queue
  <2> QED  BY <1>1, <1>6, <1>7, <1>8, <1>9, <1>10 DEF TradeBetween, LeftOf
<1> QED  BY <1>3, <1>11

-------------------------------------------------------------------------------
(* The lots of one order, in a queue, in a book and in what it trades.     *)

RestingOf(id, queue) ==
    [i \in DOMAIN queue |-> IF queue[i].order_id = id THEN queue[i].quantity ELSE 0]

LotsResting(id, book) == Total(RestingOf(id, book["Bid"])) + Total(RestingOf(id, book["Ask"]))

MadeBy(id, trades) ==
    [n \in DOMAIN trades |-> IF trades[n].maker_order_id = id THEN trades[n].quantity ELSE 0]

LEMMA RestingTypes ==
    ASSUME NEW id, NEW queue \in Seq(LimitOrder)
    PROVE  /\ RestingOf(id, queue) \in Seq(Nat) /\ Len(RestingOf(id, queue)) = Len(queue)
           /\ \A i \in 1 .. Len(queue) :
                 /\ queue[i] \in LimitOrder /\ queue[i].quantity \in Nat
                 /\ RestingOf(id, queue)[i]
                       = IF queue[i].order_id = id THEN queue[i].quantity ELSE 0
           /\ Total(RestingOf(id, queue)) \in Nat
<1> DEFINE N == Len(queue)
           v == RestingOf(id, queue)
<1>1. N \in Nat /\ DOMAIN queue = 1 .. N /\ \A i \in 1 .. N : queue[i] \in LimitOrder
  OBVIOUS
<1>2. \A i \in 1 .. N : queue[i].quantity \in Nat
  BY <1>1 DEF LimitOrder
<1>3. v = [i \in 1 .. N |-> IF queue[i].order_id = id THEN queue[i].quantity ELSE 0]
  BY <1>1 DEF RestingOf
<1> HIDE DEF v, N
<1>4. v \in [1 .. N -> Nat]
  BY <1>2, <1>3
<1>5. v \in Seq(Nat) /\ Len(v) = N
  BY <1>1, <1>4
<1>6. Total(v) \in Nat
  BY <1>5, TotalSums, TotalIs
<1> QED  BY <1>1, <1>2, <1>3, <1>5, <1>6 DEF v, N

LEMMA MadeByTypes ==
    ASSUME NEW id, NEW trades \in Seq(Trade)
    PROVE  /\ MadeBy(id, trades) \in Seq(Nat) /\ Len(MadeBy(id, trades)) = Len(trades)
           /\ \A n \in 1 .. Len(trades) :
                 /\ trades[n].quantity \in Nat
                 /\ MadeBy(id, trades)[n]
                       = IF trades[n].maker_order_id = id THEN trades[n].quantity ELSE 0
           /\ Total(MadeBy(id, trades)) \in Nat
<1> DEFINE N == Len(trades)
           v == MadeBy(id, trades)
<1>1. N \in Nat /\ DOMAIN trades = 1 .. N /\ \A i \in 1 .. N : trades[i] \in Trade
  OBVIOUS
<1>2. \A i \in 1 .. N : trades[i].quantity \in Nat
  BY <1>1 DEF Trade
<1>3. v = [i \in 1 .. N |-> IF trades[i].maker_order_id = id THEN trades[i].quantity ELSE 0]
  BY <1>1 DEF MadeBy
<1> HIDE DEF v, N
<1>4. v \in [1 .. N -> Nat]
  BY <1>2, <1>3
<1>5. v \in Seq(Nat) /\ Len(v) = N
  BY <1>1, <1>4
<1>6. Total(v) \in Nat
  BY <1>5, TotalSums, TotalIs
<1> QED  BY <1>1, <1>2, <1>3, <1>5, <1>6 DEF v, N

(* Orders taken out leave no more.                                         *)
LEMMA AtRests ==
    ASSUME NEW id, NEW queue \in Seq(LimitOrder), NEW P \in SUBSET DOMAIN queue
    PROVE  Total(RestingOf(id, At(queue, P))) <= Total(RestingOf(id, queue))
<1> DEFINE B == At(queue, P)
           M == Len(B)
           v == RestingOf(id, queue)
           w == RestingOf(id, B)
           f == [i \in 1 .. M |-> Ascending(P)[i]]
<1>1. /\ B \in Seq(LimitOrder) /\ M = Cardinality(P) /\ M \in Nat
      /\ \A i \in 1 .. M : Ascending(P)[i] \in P /\ B[i] = queue[Ascending(P)[i]]
      /\ \A i, j \in 1 .. M : i < j <=> Ascending(P)[i] < Ascending(P)[j]
  BY AtPicks
<1>2. DOMAIN queue = 1 .. Len(queue)
  OBVIOUS
<1> HIDE DEF B, M
<1>3. f \in [1 .. M -> 1 .. Len(queue)] /\ \A i \in 1 .. M : f[i] = Ascending(P)[i]
  BY <1>1, <1>2
<1> HIDE DEF f
<1>4. /\ v \in Seq(Nat) /\ Len(v) = Len(queue)
      /\ \A i \in 1 .. Len(queue) : v[i] = IF queue[i].order_id = id THEN queue[i].quantity ELSE 0
      /\ \A i \in 1 .. Len(queue) : queue[i].quantity \in Nat
  BY RestingTypes
<1>5. /\ w \in Seq(Nat) /\ Len(w) = M
      /\ \A i \in 1 .. M : w[i] = IF B[i].order_id = id THEN B[i].quantity ELSE 0
  BY <1>1, RestingTypes DEF M
<1> HIDE DEF v, w
<1>6. \A i \in 1 .. M : w[i] <= v[f[i]]
  <2> SUFFICES ASSUME NEW i \in 1 .. M PROVE w[i] <= v[f[i]]
    OBVIOUS
  <2>1. PICK n \in 1 .. Len(queue) : n = f[i] /\ B[i] = queue[n]
    BY <1>1, <1>3
  <2>2. v[n] = (IF queue[n].order_id = id THEN queue[n].quantity ELSE 0) /\ queue[n].quantity \in Nat
    BY <1>4
  <2>3. w[i] = IF queue[n].order_id = id THEN queue[n].quantity ELSE 0
    BY <2>1, <1>5
  <2> QED  BY <2>1, <2>2, <2>3
<1>7. \A i, j \in 1 .. M : i < j => f[i] < f[j]
  BY <1>1, <1>3
<1>8. Total(w) <= Total(v)
  BY <1>3, <1>4, <1>5, <1>6, <1>7, TotalSelected
<1> QED  BY <1>8 DEF v, w, B

(* An order that joins brings its lots.                                    *)
LEMMA EnqueueRests ==
    ASSUME NEW id, NEW order \in LimitOrder, NEW queue, SoundQueue(order.side, queue)
    PROVE  Total(RestingOf(id, Enqueue(order, queue)))
             = Total(RestingOf(id, queue)) + (IF order.order_id = id THEN order.quantity ELSE 0)
<1> DEFINE B == Enqueue(order, queue)
           N == Len(queue)
           v == RestingOf(id, B)
           w == RestingOf(id, queue)
<1>1. queue \in Seq(LimitOrder) /\ N \in Nat
  BY DEF SoundQueue
<1>2. PICK pos \in 1 .. (N + 1) :
         /\ B \in Seq(LimitOrder) /\ Len(B) = N + 1
         /\ \A j \in 1 .. (N + 1) : B[j] = IF j < pos THEN queue[j]
                                           ELSE IF j = pos THEN order ELSE queue[j - 1]
         /\ \A i \in 1 .. N : i < pos <=> ~ Better(order.side, order.price, queue[i].price)
  BY EnqueuePlaces
<1> HIDE DEF B
<1>3. /\ w \in Seq(Nat) /\ Len(w) = N
      /\ \A i \in 1 .. N : w[i] = IF queue[i].order_id = id THEN queue[i].quantity ELSE 0
  BY <1>1, RestingTypes
<1>4. /\ v \in Seq(Nat) /\ Len(v) = N + 1
      /\ \A i \in 1 .. N + 1 : v[i] = IF B[i].order_id = id THEN B[i].quantity ELSE 0
  BY <1>2, RestingTypes
<1> HIDE DEF v, w, N
<1>5. ASSUME NEW j \in 1 .. N
      PROVE  w[j] = IF j < pos THEN v[j] ELSE v[j + 1]
  <2>1. CASE j < pos
    <3>1. j \in 1 .. N + 1 /\ B[j] = queue[j]
      BY <2>1, <1>1, <1>2
    <3> QED  BY <2>1, <3>1, <1>3, <1>4
  <2>2. CASE ~ (j < pos)
    <3>1. j + 1 \in 1 .. N + 1 /\ ~ (j + 1 < pos) /\ j + 1 # pos /\ (j + 1) - 1 = j
      BY <2>2, <1>1
    <3>2. B[j + 1] = queue[j]
      BY <3>1, <1>2
    <3> QED  BY <2>2, <3>1, <3>2, <1>3, <1>4
  <2> QED  BY <2>1, <2>2
<1>6. pos \in 1 .. Len(v) /\ Len(w) = Len(v) - 1
  BY <1>1, <1>3, <1>4
<1>7. Total(v) = Total(w) + v[pos]
  BY <1>3, <1>4, <1>5, <1>6, TotalWithout
<1>8. v[pos] = IF order.order_id = id THEN order.quantity ELSE 0
  <2>1. B[pos] = order
    BY <1>2
  <2> QED  BY <2>1, <1>4
<1> QED  BY <1>7, <1>8 DEF v, w, B

(* What the makers trade and what they keep is no more than they had.      *)
LEMMA MakersRest ==
    ASSUME NEW id, NEW order \in LimitOrder, NEW queue, SoundQueue(Opposite(order.side), queue)
    PROVE  Total(MadeBy(id, TradesWith(order, queue))) + Total(RestingOf(id, AfterFills(order, queue)))
             <= Total(RestingOf(id, queue))
<1> DEFINE N == Len(queue)
           F == Fills(order, queue)
           T == TradesWith(order, queue)
           B == AfterFills(order, queue)
           M == Len(B)
           u == RestingOf(id, queue)
           v == [i \in 1 .. N |-> IF queue[i].order_id = id THEN F[i] ELSE 0]
           w == [i \in 1 .. N |-> IF queue[i].order_id = id THEN queue[i].quantity - F[i] ELSE 0]
           t == MadeBy(id, T)
           r == RestingOf(id, B)
<1>1. queue \in Seq(LimitOrder) /\ N \in Nat /\ DOMAIN queue = 1 .. N
  BY DEF SoundQueue
<1>2. /\ u \in Seq(Nat) /\ Len(u) = N /\ Total(u) \in Nat
      /\ \A i \in 1 .. N : u[i] = IF queue[i].order_id = id THEN queue[i].quantity ELSE 0
      /\ \A i \in 1 .. N : queue[i] \in LimitOrder /\ queue[i].quantity \in Nat
  BY <1>1, RestingTypes
<1>3. \A i \in 1 .. N : F[i] \in Nat /\ F[i] <= queue[i].quantity
  BY <1>1, FillsSound
<1>4. /\ T \in Seq(Trade) /\ Len(T) \in 0 .. N
      /\ \A n \in 1 .. Len(T) : T[n] = TradeOf(queue[n], order, queue[n].price, F[n])
  BY TradesSound
<1>5. PICK p \in [1 .. M -> 1 .. N] :
         /\ B \in Seq(LimitOrder) /\ M \in Nat
         /\ \A i \in 1 .. M :
               /\ F[p[i]] < queue[p[i]].quantity
               /\ B[i] = [queue[p[i]] EXCEPT !.quantity = queue[p[i]].quantity - F[p[i]]]
         /\ \A i, j \in 1 .. M : i < j <=> p[i] < p[j]
  BY AfterFillsPicks
<1> HIDE DEF F, T, B, u
<1>6. /\ r \in Seq(Nat) /\ Len(r) = M /\ Total(r) \in Nat
      /\ \A i \in 1 .. M : r[i] = IF B[i].order_id = id THEN B[i].quantity ELSE 0
  BY <1>5, RestingTypes
<1>7. /\ t \in Seq(Nat) /\ Len(t) = Len(T) /\ Total(t) \in Nat
      /\ \A n \in 1 .. Len(T) : t[n] = IF T[n].maker_order_id = id THEN T[n].quantity ELSE 0
  BY <1>4, MadeByTypes
<1> HIDE DEF M, N, r, t
<1>8. /\ v \in Seq(Nat) /\ Len(v) = N
      /\ \A i \in 1 .. N : v[i] = IF queue[i].order_id = id THEN F[i] ELSE 0
  <2>1. v \in [1 .. N -> Nat]
    BY <1>3
  <2> QED  BY <2>1, <1>1
<1>9. /\ w \in Seq(Nat) /\ Len(w) = N
      /\ \A i \in 1 .. N : w[i] = IF queue[i].order_id = id THEN queue[i].quantity - F[i] ELSE 0
  <2>1. \A i \in 1 .. N : queue[i].quantity - F[i] \in Nat
    BY <1>2, <1>3
  <2>2. w \in [1 .. N -> Nat]
    BY <2>1
  <2> QED  BY <2>2, <1>1
<1> HIDE DEF v, w
<1>10. \A i \in 1 .. N : u[i] = v[i] + w[i]
  <2> SUFFICES ASSUME NEW i \in 1 .. N PROVE u[i] = v[i] + w[i]
    OBVIOUS
  <2>1. PICK q \in Nat, f \in Nat : q = queue[i].quantity /\ f = F[i] /\ f <= q
    BY <1>2, <1>3
  <2>2. u[i] = IF queue[i].order_id = id THEN q ELSE 0
    BY <2>1, <1>2
  <2>3. v[i] = IF queue[i].order_id = id THEN f ELSE 0
    BY <2>1, <1>8
  <2>4. w[i] = IF queue[i].order_id = id THEN q - f ELSE 0
    BY <2>1, <1>9
  <2> QED  BY <2>1, <2>2, <2>3, <2>4
<1>11. Total(u) = Total(v) + Total(w)
  <2>1. u \in Seq(Nat) /\ v \in Seq(Nat) /\ w \in Seq(Nat) /\ Len(v) = Len(u) /\ Len(w) = Len(u)
    BY <1>2, <1>8, <1>9
  <2>2. \A i \in 1 .. Len(u) : u[i] = v[i] + w[i]
    BY <1>2, <1>10
  <2> QED  BY ONLY <2>1, <2>2, TotalAdds
<1>12. Total(t) <= Total(v)
  <2> DEFINE f == [n \in 1 .. Len(T) |-> n]
  <2>1. \A n \in 1 .. Len(T) : n \in 1 .. N
    BY <1>1, <1>4
  <2>2. f \in [1 .. Len(T) -> 1 .. N] /\ \A n \in 1 .. Len(T) : f[n] = n
    BY <2>1
  <2> HIDE DEF f
  <2>3. \A n \in 1 .. Len(T) : t[n] <= v[f[n]]
    <3> SUFFICES ASSUME NEW n \in 1 .. Len(T) PROVE t[n] <= v[n]
      BY <2>2
    <3>1. T[n].maker_order_id = queue[n].order_id /\ T[n].quantity = F[n]
      <4>1. T[n] = TradeOf(queue[n], order, queue[n].price, F[n])
        BY <1>4
      <4>2. /\ TradeOf(queue[n], order, queue[n].price, F[n]).maker_order_id = queue[n].order_id
            /\ TradeOf(queue[n], order, queue[n].price, F[n]).quantity = F[n]
        BY DEF TradeOf
      <4> QED  BY <4>1, <4>2
    <3>2. n \in 1 .. N /\ F[n] \in Nat
      BY <2>1, <1>3
    <3>3. t[n] = v[n] /\ t[n] \in Nat
      <4>1. t[n] = IF T[n].maker_order_id = id THEN T[n].quantity ELSE 0
        BY <1>7
      <4>2. v[n] = IF queue[n].order_id = id THEN F[n] ELSE 0
        BY ONLY <3>2, <1>8
      <4>3. CASE queue[n].order_id = id
        BY ONLY <4>1, <4>2, <4>3, <3>1, <3>2
      <4>4. CASE queue[n].order_id # id
        BY ONLY <4>1, <4>2, <4>4, <3>1
      <4> QED  BY <4>3, <4>4
    <3> QED  BY <3>3
  <2>4. \A i, j \in 1 .. Len(T) : i < j => f[i] < f[j]
    BY <2>2
  <2> QED  BY <2>2, <2>3, <2>4, <1>7, <1>8, TotalSelected
<1>13. Total(r) <= Total(w)
  <2>1. \A i \in 1 .. M : r[i] <= w[p[i]]
    <3> SUFFICES ASSUME NEW i \in 1 .. M PROVE r[i] <= w[p[i]]
      OBVIOUS
    <3>1. PICK n \in 1 .. N : n = p[i]
      BY <1>5
    <3>2. PICK left \in Nat : left = queue[n].quantity - F[n]
      <4>1. PICK q \in Nat, filled \in Nat : q = queue[n].quantity /\ filled = F[n] /\ filled <= q
        BY <1>2, <1>3
      <4>2. q - filled \in Nat
        BY ONLY <4>1, q \in Nat, filled \in Nat
      <4> QED  BY ONLY <4>1, <4>2
    <3>3. B[i] = [queue[n] EXCEPT !.quantity = left] /\ queue[n] \in LimitOrder
      BY <3>1, <3>2, <1>2, <1>5
    <3>4. B[i].order_id = queue[n].order_id /\ B[i].quantity = left
      BY <3>3 DEF LimitOrder
    <3>5. r[i] = w[n] /\ r[i] \in Nat
      <4>1. r[i] = IF B[i].order_id = id THEN B[i].quantity ELSE 0
        BY <1>6
      <4>2. w[n] = IF queue[n].order_id = id THEN left ELSE 0
        BY <3>2, <1>9
      <4>3. CASE queue[n].order_id = id
        BY <4>1, <4>2, <4>3, <3>4
      <4>4. CASE queue[n].order_id # id
        BY <4>1, <4>2, <4>4, <3>4
      <4> QED  BY <4>3, <4>4
    <3> QED  BY <3>1, <3>5
  <2>2. \A i, j \in 1 .. M : i < j => p[i] < p[j]
    BY <1>5
  <2> QED  BY <2>1, <2>2, <1>5, <1>6, <1>9, TotalSelected
<1>14. Total(v) \in Nat /\ Total(w) \in Nat
  BY <1>8, <1>9, TotalSums, TotalIs
<1>15. Total(t) + Total(r) <= Total(u)
  <2>1. Total(t) + Total(r) <= Total(v) + Total(w)
    BY <1>6, <1>7, <1>12, <1>13, <1>14, Arithmetic
  <2> QED  BY <2>1, <1>11
<1> QED  BY <1>15 DEF t, r, u, T, B

LEMMA RestingInBook ==
    ASSUME NEW id, NEW book, SoundBook(book)
    PROVE  /\ \A s \in Sides : Total(RestingOf(id, book[s])) \in Nat
           /\ LotsResting(id, book) \in Nat
           /\ \A s \in Sides : LotsResting(id, book) = Total(RestingOf(id, book[Opposite(s)]))
                                                     + Total(RestingOf(id, book[s]))
<1>1. \A s \in Sides : Total(RestingOf(id, book[s])) \in Nat
  BY RestingTypes DEF SoundBook, SoundQueue
<1>2. PICK bids \in Nat, asks \in Nat :
         bids = Total(RestingOf(id, book["Bid"])) /\ asks = Total(RestingOf(id, book["Ask"]))
  BY <1>1 DEF Sides
<1>3. LotsResting(id, book) = bids + asks
  BY <1>2 DEF LotsResting
<1>4. ASSUME NEW s \in Sides
      PROVE  LotsResting(id, book) = Total(RestingOf(id, book[Opposite(s)]))
                                   + Total(RestingOf(id, book[s]))
  <2>1. CASE s = "Bid"
    <3>1. Opposite(s) = "Ask"
      BY <2>1 DEF Opposite
    <3>2. bids + asks = asks + bids
      OBVIOUS
    <3> QED  BY <2>1, <3>1, <3>2, <1>2, <1>3
  <2>2. CASE s = "Ask"
    <3>1. Opposite(s) = "Bid"
      BY <2>2 DEF Opposite
    <3> QED  BY <2>2, <3>1, <1>2, <1>3
  <2> QED  BY <2>1, <2>2 DEF Sides
<1>5. LotsResting(id, book) \in Nat
  BY <1>3
<1> QED  BY <1>1, <1>4, <1>5

(* An order that is placed takes from the makers what it trades with them, *)
(* and adds what remains of it.                                            *)
LEMMA PlaceRests ==
    ASSUME NEW id, NEW book, SoundBook(book), NEW order \in LimitOrder
    PROVE  Total(MadeBy(id, PlaceOutcome(order, book).trades))
             + LotsResting(id, BookAfterPlace(order, book))
             <= LotsResting(id, book)
                  + (IF order.order_id = id THEN PlaceOutcome(order, book).remaining_quantity ELSE 0)
<1> DEFINE side   == order.side
           other  == Opposite(side)
           makers == book[other]
           left   == Remaining(order, makers)
           B      == BookAfterPlace(order, book)
           rest   == [order EXCEPT !.quantity = left]
           T      == TradesWith(order, makers)
           mine   == IF order.order_id = id THEN left ELSE 0
<1>1. side \in Sides /\ other \in Sides /\ side # other /\ order.quantity \in Nat
  BY DEF LimitOrder, Sides, Opposite
<1>2. SoundQueue(other, makers) /\ SoundQueue(side, book[side])
  BY <1>1 DEF SoundBook
<1>3. left \in Nat
  <2>1. left \in 0 .. order.quantity
    BY <1>2, RemainingSound
  <2> HIDE DEF left
  <2> QED  BY <2>1, <1>1
<1>4. PlaceOutcome(order, book).trades = T /\ PlaceOutcome(order, book).remaining_quantity = left
  BY DEF PlaceOutcome, Accepted
<1>5. /\ B[other] = AfterFills(order, makers)
      /\ B[side] = IF left > 0 THEN Enqueue(rest, book[side]) ELSE book[side]
  BY <1>1 DEF BookAfterPlace
<1>6. SoundBook(B)
  BY PlaceKeepsSound
<1>7. PICK t \in Nat, r2 \in Nat, r \in Nat, q2 \in Nat, q \in Nat :
         /\ t = Total(MadeBy(id, T))
         /\ r = Total(RestingOf(id, makers)) /\ r2 = Total(RestingOf(id, B[other]))
         /\ q = Total(RestingOf(id, book[side])) /\ q2 = Total(RestingOf(id, B[side]))
  <2>1. Total(MadeBy(id, T)) \in Nat
    BY <1>2, TradesSound, MadeByTypes
  <2>2. Total(RestingOf(id, makers)) \in Nat /\ Total(RestingOf(id, B[other])) \in Nat
    BY <1>1, <1>6, RestingInBook
  <2>3. Total(RestingOf(id, book[side])) \in Nat /\ Total(RestingOf(id, B[side])) \in Nat
    BY <1>1, <1>6, RestingInBook
  <2> QED  BY <2>1, <2>2, <2>3
<1>8. t + r2 <= r
  BY <1>2, <1>5, <1>7, MakersRest
<1> HIDE DEF left, B
<1>9. q2 = q + mine
  <2>1. CASE left > 0
    <3>1. rest \in LimitOrder /\ rest.quantity = left /\ rest.side = side /\ rest.order_id = order.order_id
      BY <1>3 DEF LimitOrder
    <3>2. SoundQueue(rest.side, book[side])
      BY <3>1, <1>2
    <3> HIDE DEF rest, side
    <3>3. Total(RestingOf(id, Enqueue(rest, book[side])))
            = Total(RestingOf(id, book[side])) + (IF rest.order_id = id THEN rest.quantity ELSE 0)
      BY <3>1, <3>2, EnqueueRests
    <3> QED  BY <2>1, <3>1, <3>3, <1>5, <1>7
  <2>2. CASE ~ (left > 0)
    <3>1. left = 0
      BY <2>2, <1>3
    <3>2. q2 = q /\ mine = 0
      BY <2>2, <3>1, <1>5, <1>7
    <3> QED  BY <3>2
  <2> QED  BY <2>1, <2>2
<1>10. LotsResting(id, book) = r + q /\ LotsResting(id, B) = r2 + q2
  BY <1>1, <1>6, <1>7, RestingInBook
<1>11. mine \in Nat
  BY <1>3
<1>12. t + (r2 + q2) <= (r + q) + mine
  <2> HIDE DEF mine
  <2> QED  BY <1>8, <1>9, <1>11
<1>13. Total(MadeBy(id, T)) + LotsResting(id, B) <= LotsResting(id, book) + mine
  BY <1>7, <1>10, <1>12
<1> QED  BY <1>4, <1>13 DEF B

LEMMA CancelRests ==
    ASSUME NEW id, NEW book, SoundBook(book), NEW canceled
    PROVE  LotsResting(id, BookAfterCancel(canceled, book)) <= LotsResting(id, book)
<1> DEFINE B == BookAfterCancel(canceled, book)
           P(s) == {i \in DOMAIN book[s] : book[s][i].order_id # canceled}
<1>1. \A s \in Sides : B[s] = At(book[s], P(s)) /\ book[s] \in Seq(LimitOrder) /\ P(s) \in SUBSET DOMAIN book[s]
  BY DEF BookAfterCancel, SoundBook
<1>2. SoundBook(B)
  BY CancelKeepsSound
<1> HIDE DEF B, P
<1>3. \A s \in Sides : Total(RestingOf(id, B[s])) <= Total(RestingOf(id, book[s]))
  BY <1>1, AtRests
<1>4. PICK b2 \in Nat, b \in Nat, a2 \in Nat, a \in Nat :
         /\ b2 = Total(RestingOf(id, B["Bid"])) /\ b = Total(RestingOf(id, book["Bid"]))
         /\ a2 = Total(RestingOf(id, B["Ask"])) /\ a = Total(RestingOf(id, book["Ask"]))
  <2>1. /\ \A s \in Sides : Total(RestingOf(id, B[s])) \in Nat
        /\ \A s \in Sides : Total(RestingOf(id, book[s])) \in Nat
    BY <1>2, RestingInBook
  <2> QED  BY <2>1 DEF Sides
<1>5. b2 <= b /\ a2 <= a
  BY <1>3, <1>4 DEF Sides
<1>6. b2 + a2 <= b + a
  BY <1>5
<1> QED  BY <1>4, <1>6 DEF LotsResting, B

LEMMA NothingRests ==
    ASSUME NEW id
    PROVE  LotsResting(id, EmptyBook) = 0
<1>1. RestingOf(id, << >>) = << >>
  BY DEF RestingOf
<1>2. EmptyBook["Bid"] = << >> /\ EmptyBook["Ask"] = << >>
  BY DEF EmptyBook, Sides
<1> QED  BY <1>1, <1>2, TotalOfNone DEF LotsResting

-------------------------------------------------------------------------------
(* One round of the loops of place_limit.                                  *)

(* What is ahead behind the head is ahead of its tail, and the head.       *)
LEMMA AheadBehindHead ==
    ASSUME NEW queue \in Seq(LimitOrder), queue # << >>
    PROVE  \A i \in 1 .. Len(queue) :
              QuantityAhead(queue)[i + 1] = queue[1].quantity + QuantityAhead(Tail(queue))[i]
<1> DEFINE N == Len(queue)
           rest == Tail(queue)
           A == QuantityAhead(queue)
           B == QuantityAhead(rest)
           q == queue[1].quantity
<1>1. /\ N \in Nat /\ N > 0 /\ rest \in Seq(LimitOrder) /\ Len(rest) = N - 1
      /\ \A i \in 1 .. N - 1 : rest[i] = queue[i + 1]
      /\ \A i \in 1 .. N : queue[i].quantity \in Nat
  <2>1. \A i \in 1 .. N : queue[i] \in LimitOrder
    OBVIOUS
  <2> QED  BY <2>1, HeadTailProperties DEF LimitOrder
<1>2. A[1] = 0 /\ \A i \in 1 .. N : A[i + 1] = A[i] + queue[i].quantity
  BY AheadAddsUp
<1>3. /\ B \in [1 .. N -> Nat] /\ B[1] = 0
      /\ \A i \in 1 .. N - 1 : B[i + 1] = B[i] + rest[i].quantity
  <2> HIDE DEF N, rest
  <2>1. /\ B \in [1 .. (Len(rest) + 1) -> Nat] /\ B[1] = 0
        /\ \A i \in 1 .. Len(rest) : B[i + 1] = B[i] + rest[i].quantity
    BY <1>1, AheadAddsUp
  <2>2. Len(rest) + 1 = N
    BY <1>1
  <2> QED  BY <2>1, <2>2, <1>1
<1> HIDE DEF N, rest, A, B
<1> DEFINE M == {k \in Nat : k + 1 <= N => A[(k + 1) + 1] = q + B[k + 1]}
<1>4. 0 \in M
  <2>1. A[1 + 1] = A[1] + queue[1].quantity
    BY <1>1, <1>2
  <2> QED  BY <2>1, <1>1, <1>2, <1>3
<1>5. ASSUME NEW k \in M
      PROVE  k + 1 \in M
  <2> SUFFICES ASSUME (k + 1) + 1 <= N PROVE A[((k + 1) + 1) + 1] = q + B[(k + 1) + 1]
    OBVIOUS
  <2>1. PICK n \in 1 .. N - 1 : n = k + 1
    BY <1>1
  <2>2. A[n + 1] = q + B[n] /\ n \in 1 .. N /\ n + 1 \in 1 .. N
    BY <2>1, <1>1
  <2>3. A[(n + 1) + 1] = A[n + 1] + queue[n + 1].quantity
    BY <2>2, <1>2
  <2>4. B[n + 1] = B[n] + queue[n + 1].quantity
    BY <2>1, <1>1, <1>3
  <2>5. B[n] \in Nat /\ queue[n + 1].quantity \in Nat /\ q \in Nat
    BY <2>2, <1>1, <1>3
  <2>6. A[(n + 1) + 1] = q + B[n + 1]
    BY ONLY <2>2, <2>3, <2>4, <2>5
  <2> QED  BY <2>1, <2>6
<1>6. M = Nat
  <2>1. M \subseteq Nat
    OBVIOUS
  <2> HIDE DEF M
  <2> QED  BY <1>4, <1>5, <2>1, SetInduction
<1>7. \A k \in Nat : k + 1 <= N => A[(k + 1) + 1] = q + B[k + 1]
  BY <1>6
<1> HIDE DEF M
<1>8. ASSUME NEW i \in 1 .. N
      PROVE  A[i + 1] = q + B[i]
  <2>1. PICK k \in Nat : i = k + 1
    <3>1. i - 1 \in Nat /\ i = (i - 1) + 1
      BY <1>1
    <3> QED  BY <3>1
  <2>2. k + 1 <= N
    BY <2>1, <1>1
  <2> QED  BY ONLY <2>1, <2>2, <1>7
<1> QED  BY <1>8 DEF N, rest, A, B

(* t holds the makers of the queue with lots left, in their order; g says  *)
(* where they were.                                                        *)
KeepsLots(order, queue, t, g) ==
    /\ g \in [1 .. Len(t) -> 1 .. Len(queue)]
    /\ \A i, j \in 1 .. Len(t) : i < j => g[i] < g[j]
    /\ \A i \in 1 .. Len(t) :
          /\ Fills(order, queue)[g[i]] < queue[g[i]].quantity
          /\ t[i] = [queue[g[i]] EXCEPT !.quantity = queue[g[i]].quantity
                                                     - Fills(order, queue)[g[i]]]
    /\ \A n \in 1 .. Len(queue) : Fills(order, queue)[n] < queue[n].quantity =>
          \E i \in 1 .. Len(t) : g[i] = n

(* Such a queue is what AfterFills makes.                                  *)
LEMMA AfterFillsIs ==
    ASSUME NEW order \in LimitOrder, NEW queue, SoundQueue(Opposite(order.side), queue),
           NEW t \in Seq(LimitOrder), NEW g, KeepsLots(order, queue, t, g)
    PROVE  AfterFills(order, queue) = t
<1> DEFINE F == Fills(order, queue)
           N == Len(queue)
           s == [i \in DOMAIN queue |-> [queue[i] EXCEPT !.quantity = queue[i].quantity - F[i]]]
           P == {i \in DOMAIN queue : F[i] < queue[i].quantity}
<1>1. queue \in Seq(LimitOrder) /\ N \in Nat /\ DOMAIN queue = 1 .. N
  BY DEF SoundQueue
<1>t. /\ g \in [1 .. Len(t) -> 1 .. Len(queue)]
      /\ \A i, j \in 1 .. Len(t) : i < j => g[i] < g[j]
      /\ \A i \in 1 .. Len(t) :
            /\ Fills(order, queue)[g[i]] < queue[g[i]].quantity
            /\ t[i] = [queue[g[i]] EXCEPT !.quantity = queue[g[i]].quantity
                                                       - Fills(order, queue)[g[i]]]
      /\ \A n \in 1 .. Len(queue) : Fills(order, queue)[n] < queue[n].quantity =>
            \E i \in 1 .. Len(t) : g[i] = n
  BY DEF KeepsLots
<1>2. AfterFills(order, queue) = At(s, P)
  BY DEF AfterFills
<1>3. \A i \in 1 .. N : F[i] \in Nat /\ F[i] <= queue[i].quantity
  BY <1>1, FillsSound
<1>4. \A i \in 1 .. N : queue[i] \in LimitOrder
  BY <1>1
<1> HIDE DEF F, N
<1>5. s \in [1 .. N -> LimitOrder] /\ \A i \in 1 .. N :
          s[i] = [queue[i] EXCEPT !.quantity = queue[i].quantity - F[i]]
  <2>1. ASSUME NEW i \in 1 .. N
        PROVE  [queue[i] EXCEPT !.quantity = queue[i].quantity - F[i]] \in LimitOrder
    <3>1. queue[i] \in LimitOrder /\ queue[i].quantity - F[i] \in Nat
      BY <1>3, <1>4 DEF LimitOrder
    <3> QED  BY ONLY <3>1 DEF LimitOrder
  <2> QED  BY <1>1, <2>1
<1>6. P \in SUBSET (1 .. N) /\ \A n \in 1 .. N : n \in P <=> F[n] < queue[n].quantity
  BY <1>1
<1> HIDE DEF s, P
<1>7. s \in Seq(LimitOrder) /\ DOMAIN s = 1 .. N
  BY <1>1, <1>5
<1>8. g \in [1 .. Len(t) -> P]
  <2>1. \A i \in 1 .. Len(t) : g[i] \in P
    BY <1>t, <1>6 DEF F, N
  <2> QED  BY <1>t, <2>1
<1>9. \A n \in P : \E i \in 1 .. Len(t) : g[i] = n
  BY <1>t, <1>6 DEF F, N
<1>10. \A i \in 1 .. Len(t) : t[i] = s[g[i]]
  <2> TAKE i \in 1 .. Len(t)
  <2>1. g[i] \in 1 .. N
    BY <1>8, <1>6
  <2> QED  BY <2>1, <1>t, <1>5 DEF F
<1>11. At(s, P) = t
  <2>1. P \in SUBSET DOMAIN s
    BY <1>6, <1>7
  <2>2. t \in Seq(LimitOrder)
    OBVIOUS
  <2>3. \A i, j \in 1 .. Len(t) : i < j => g[i] < g[j]
    BY <1>t
  <2>4. s \in Seq(LimitOrder)
    BY <1>7
  <2>5. PicksAt(s, P, t, g)
    BY <2>3, <1>8, <1>9, <1>10 DEF PicksAt
  <2> QED  BY ONLY <2>1, <2>2, <2>4, <2>5, AtIs
<1> QED  BY <1>2, <1>11

(* An order that gets nothing leaves the queue as it is.                   *)
LEMMA NothingFilled ==
    ASSUME NEW order \in LimitOrder, NEW queue, SoundQueue(Opposite(order.side), queue),
           \A i \in DOMAIN queue : Fills(order, queue)[i] = 0
    PROVE  AfterFills(order, queue) = queue /\ TradesWith(order, queue) = << >>
<1> DEFINE F == Fills(order, queue)
           N == Len(queue)
           g == [i \in 1 .. N |-> i]
<1>1. queue \in Seq(LimitOrder) /\ N \in Nat /\ DOMAIN queue = 1 .. N
  BY DEF SoundQueue
<1>2. \A i \in 1 .. N : F[i] = 0 /\ queue[i] \in LimitOrder /\ queue[i].quantity > 0
  BY <1>1 DEF SoundQueue
<1>3. g \in [1 .. Len(queue) -> 1 .. Len(queue)] /\ \A i \in 1 .. N : g[i] = i
  OBVIOUS
<1> HIDE DEF F, g
<1>4. \A i \in 1 .. N : queue[i] = [queue[i] EXCEPT !.quantity = queue[i].quantity - F[i]]
  <2> TAKE i \in 1 .. N
  <2>1. queue[i] \in LimitOrder /\ queue[i].quantity - F[i] = queue[i].quantity
    BY <1>2 DEF LimitOrder
  <2> QED  BY <2>1 DEF LimitOrder
<1>5. AfterFills(order, queue) = queue
  <2>1. \A i, j \in 1 .. Len(queue) : i < j => g[i] < g[j]
    BY <1>3
  <2>2. \A i \in 1 .. Len(queue) :
           /\ Fills(order, queue)[g[i]] < queue[g[i]].quantity
           /\ queue[i] = [queue[g[i]] EXCEPT !.quantity = queue[g[i]].quantity
                                                          - Fills(order, queue)[g[i]]]
    BY <1>2, <1>3, <1>4 DEF F
  <2>3. \A n \in 1 .. Len(queue) : \E i \in 1 .. Len(queue) : g[i] = n
    BY <1>3
  <2>4. KeepsLots(order, queue, queue, g)
    BY <1>3, <2>1, <2>2, <2>3 DEF KeepsLots
  <2> QED  BY <1>1, <2>4, AfterFillsIs
<1>6. TradesWith(order, queue) = << >>
  <2> DEFINE T == TradesWith(order, queue)
  <2>1. /\ T \in Seq(Trade) /\ Len(T) \in 0 .. N
        /\ \A n \in 1 .. Len(T) : F[n] > 0
    BY TradesSound DEF F
  <2> HIDE DEF T
  <2>2. Len(T) = 0
    <3> SUFFICES ASSUME Len(T) # 0 PROVE FALSE
      OBVIOUS
    <3>1. 1 \in 1 .. Len(T) /\ 1 \in 1 .. N
      BY <2>1, <1>1
    <3> QED  BY <3>1, <2>1, <1>2
  <2>3. T = << >>
    BY <2>1, <2>2
  <2> QED  BY <2>3 DEF T
<1> QED  BY <1>5, <1>6

(* An order without lots gets nothing.                                     *)
LEMMA NoLotsNoFills ==
    ASSUME NEW order \in LimitOrder, NEW queue, SoundQueue(Opposite(order.side), queue),
           order.quantity = 0
    PROVE  /\ AfterFills(order, queue) = queue /\ TradesWith(order, queue) = << >>
           /\ Remaining(order, queue) = 0
<1>1. \A i \in DOMAIN queue : Fills(order, queue)[i] = 0
  <2> TAKE i \in DOMAIN queue
  <2>1. queue \in Seq(LimitOrder) /\ i \in 1 .. Len(queue) + 1
    BY DEF SoundQueue
  <2>2. QuantityAhead(queue)[i] \in Nat
    BY <2>1, AheadAddsUp
  <2>3. ~ (QuantityAhead(queue)[i] < order.quantity)
    BY <2>2
  <2> QED  BY <2>3 DEF Fills
<1>2. Remaining(order, queue) \in 0 .. 0
  BY RemainingSound
<1> QED  BY <1>1, <1>2, NothingFilled

(* Neither does an order that no price crosses.                            *)
LEMMA NoneCrossesNoFills ==
    ASSUME NEW order \in LimitOrder, NEW queue, SoundQueue(Opposite(order.side), queue),
           \A i \in DOMAIN queue : ~ Crosses(order, queue[i].price)
    PROVE  /\ AfterFills(order, queue) = queue /\ TradesWith(order, queue) = << >>
           /\ Remaining(order, queue) = order.quantity
<1>1. \A i \in DOMAIN queue : Fills(order, queue)[i] = 0
  BY DEF Fills
<1> DEFINE crossing == {i \in DOMAIN queue : Crosses(order, queue[i].price)}
<1>2. crossing = {}
  OBVIOUS
<1>3. Remaining(order, queue)
        = order.quantity - Smaller(order.quantity, QuantityAhead(queue)[Cardinality(crossing) + 1])
  BY DEF Remaining
<1>4. Cardinality(crossing) + 1 = 1
  <2>1. Cardinality(crossing) = 0
    <3> HIDE DEF crossing
    <3> QED  BY <1>2, FS_EmptySet
  <2> QED  BY ONLY <2>1
<1>5. QuantityAhead(queue)[1] = 0
  BY AheadAddsUp DEF SoundQueue
<1>6. order.quantity \in Nat
  BY DEF LimitOrder
<1>7. Remaining(order, queue) = order.quantity
  BY <1>3, <1>4, <1>5, <1>6 DEF Smaller
<1> QED  BY <1>1, <1>7, NothingFilled

(* What is behind the head of a queue.                                     *)
LEMMA TailSound ==
    ASSUME NEW side, NEW queue, SoundQueue(side, queue), queue # << >>
    PROVE  /\ SoundQueue(side, Tail(queue))
           /\ Len(queue) \in Nat /\ Len(queue) > 0 /\ DOMAIN queue = 1 .. Len(queue)
           /\ Len(Tail(queue)) = Len(queue) - 1
           /\ DOMAIN Tail(queue) = 1 .. Len(queue) - 1
           /\ \A i \in 1 .. Len(queue) - 1 :
                 i + 1 \in 1 .. Len(queue) /\ Tail(queue)[i] = queue[i + 1]
           /\ \A i \in 1 .. Len(queue) :
                 queue[i] \in LimitOrder /\ queue[i].quantity \in Nat /\ queue[i].quantity > 0
<1> DEFINE rest == Tail(queue)
<1>1. queue \in Seq(LimitOrder)
  BY DEF SoundQueue
<1>2. /\ Len(queue) \in Nat /\ Len(queue) > 0 /\ DOMAIN queue = 1 .. Len(queue)
      /\ rest \in Seq(LimitOrder) /\ Len(rest) = Len(queue) - 1
      /\ \A i \in 1 .. Len(queue) - 1 : rest[i] = queue[i + 1]
  BY <1>1, HeadTailProperties
<1>3. DOMAIN rest = 1 .. Len(queue) - 1
  BY <1>2
<1>4. \A i \in 1 .. Len(queue) - 1 : i + 1 \in 1 .. Len(queue)
  BY <1>2
<1>5. \A i \in 1 .. Len(queue) :
         queue[i] \in LimitOrder /\ queue[i].quantity \in Nat /\ queue[i].quantity > 0
  <2> TAKE i \in 1 .. Len(queue)
  <2>1. queue[i] \in LimitOrder
    BY <1>1
  <2> QED  BY <2>1, <1>2 DEF SoundQueue, LimitOrder
<1> HIDE DEF rest
<1>6. SoundQueue(side, rest)
  <2>1. \A i \in DOMAIN rest : rest[i].quantity > 0
    BY <1>2, <1>3, <1>4, <1>5
  <2>2. ASSUME NEW i \in DOMAIN rest, NEW j \in DOMAIN rest, i < j
        PROVE  ~ Better(side, rest[j].price, rest[i].price)
    <3>1. PICK m \in 1 .. Len(queue), n \in 1 .. Len(queue) : m = i + 1 /\ n = j + 1 /\ m < n
      BY <2>2, <1>3, <1>4, <1>2
    <3>2. rest[i] = queue[m] /\ rest[j] = queue[n]
      BY <3>1, <1>2, <1>3
    <3>3. ~ Better(side, queue[n].price, queue[m].price)
      BY <3>1, <1>2 DEF SoundQueue
    <3> QED  BY <3>2, <3>3
  <2> QED  BY <1>2, <2>1, <2>2 DEF SoundQueue
<1> QED  BY <1>2, <1>3, <1>4, <1>5, <1>6 DEF rest

(* The order with fewer lots crosses the same prices.                      *)
LEMMA WithLots ==
    ASSUME NEW order \in LimitOrder, NEW left \in Nat,
           NEW less, less = [order EXCEPT !.quantity = left]
    PROVE  /\ less \in LimitOrder /\ less.quantity = left
           /\ less.order_id = order.order_id /\ less.side = order.side
           /\ less.price = order.price
           /\ \A p : Crosses(less, p) <=> Crosses(order, p)
<1>1. /\ less \in LimitOrder /\ less.quantity = left
      /\ less.order_id = order.order_id /\ less.side = order.side /\ less.price = order.price
  BY DEF LimitOrder
<1>2. \A p : Crosses(less, p) <=> Crosses(order, p)
  BY <1>1 DEF Crosses
<1> QED  BY <1>1, <1>2

(* A head that crosses and has no more lots than the order gives them all, *)
(* and the rest of the queue trades with the rest of the order.            *)
LEMMA HeadExhaustedFills ==
    ASSUME NEW order \in LimitOrder, NEW queue, SoundQueue(Opposite(order.side), queue),
           queue # << >>, Crosses(order, queue[1].price), queue[1].quantity <= order.quantity,
           NEW less, less = [order EXCEPT !.quantity = order.quantity - queue[1].quantity]
    PROVE  /\ less \in LimitOrder /\ SoundQueue(Opposite(less.side), Tail(queue))
           /\ Fills(order, queue)[1] = queue[1].quantity
           /\ \A i \in 1 .. Len(queue) - 1 :
                 Fills(order, queue)[i + 1] = Fills(less, Tail(queue))[i]
           /\ Remaining(order, queue) = Remaining(less, Tail(queue))
<1> DEFINE rest == Tail(queue)
           N == Len(queue)
           A == QuantityAhead(queue)
           B == QuantityAhead(rest)
<1>1. PICK q \in Nat, lots \in Nat : q = queue[1].quantity /\ lots = order.quantity /\ q > 0 /\ q <= lots
  <2>1. 1 \in 1 .. Len(queue)
    BY TailSound
  <2>2. queue[1].quantity \in Nat /\ queue[1].quantity > 0
    BY <2>1, TailSound
  <2>3. order.quantity \in Nat
    BY DEF LimitOrder
  <2> QED  BY <2>2, <2>3
<1>2. /\ SoundQueue(Opposite(order.side), rest)
      /\ N \in Nat /\ N > 0 /\ DOMAIN queue = 1 .. N
      /\ Len(rest) = N - 1 /\ DOMAIN rest = 1 .. N - 1
      /\ \A i \in 1 .. N - 1 : i + 1 \in 1 .. N /\ rest[i] = queue[i + 1]
      /\ \A i \in 1 .. N : queue[i] \in LimitOrder /\ queue[i].quantity \in Nat
  BY TailSound
<1>3. /\ less \in LimitOrder /\ less.quantity = lots - q /\ less.side = order.side
      /\ \A p : Crosses(less, p) <=> Crosses(order, p)
  <2>1. PICK left \in Nat : left = lots - q
    BY <1>1
  <2>2. less = [order EXCEPT !.quantity = left]
    BY <1>1, <2>1
  <2>3. /\ less \in LimitOrder /\ less.quantity = left /\ less.side = order.side
        /\ \A p : Crosses(less, p) <=> Crosses(order, p)
    <3>1. order \in LimitOrder /\ left \in Nat
      OBVIOUS
    <3> QED  BY ONLY <3>1, <2>2, WithLots
  <2> QED  BY <2>1, <2>3
<1>4. queue \in Seq(LimitOrder) /\ rest \in Seq(LimitOrder)
  BY <1>2 DEF SoundQueue
<1>5. A[1] = 0
  BY <1>4, AheadAddsUp
<1>6. B \in [1 .. N -> Nat] /\ B[1] = 0
  <2>1. B \in [1 .. (Len(rest) + 1) -> Nat] /\ B[1] = 0
    BY <1>4, AheadAddsUp
  <2>2. Len(rest) + 1 = N
    BY <1>2
  <2> QED  BY <2>1, <2>2
<1>7. \A i \in 1 .. N : A[i + 1] = q + B[i]
  BY <1>1, <1>4, AheadBehindHead
<1>8. Fills(order, queue)[1] = q
  <2>1. 1 \in DOMAIN queue
    BY <1>2
  <2>2. Fills(order, queue)[1] = IF Crosses(order, queue[1].price) /\ 0 < lots
                                 THEN Smaller(q, lots - 0) ELSE 0
    BY <2>1, <1>1, <1>5 DEF Fills
  <2> QED  BY <2>2, <1>1 DEF Smaller
<1>9. ASSUME NEW i \in 1 .. N - 1
      PROVE  Fills(order, queue)[i + 1] = Fills(less, rest)[i]
  <2>1. i + 1 \in DOMAIN queue /\ i \in DOMAIN rest /\ rest[i] = queue[i + 1] /\ i \in 1 .. N
    BY <1>2
  <2>2. PICK b \in Nat, a \in Nat, m \in Nat :
           b = B[i] /\ a = A[i + 1] /\ a = q + b /\ m = queue[i + 1].quantity
    <3>1. B[i] \in Nat /\ A[i + 1] = q + B[i]
      BY <2>1, <1>6, <1>7
    <3>2. queue[i + 1].quantity \in Nat
      BY <2>1, <1>2
    <3> QED  BY <3>1, <3>2
  <2>3. Fills(order, queue)[i + 1]
          = IF Crosses(order, queue[i + 1].price) /\ a < lots THEN Smaller(m, lots - a) ELSE 0
    BY <2>1, <2>2, <1>1 DEF Fills
  <2>4. Fills(less, rest)[i]
          = IF Crosses(less, rest[i].price) /\ b < less.quantity
            THEN Smaller(rest[i].quantity, less.quantity - b) ELSE 0
    BY <2>1, <2>2 DEF Fills
  <2>5. Fills(less, rest)[i]
          = IF Crosses(order, queue[i + 1].price) /\ b < lots - q THEN Smaller(m, (lots - q) - b) ELSE 0
    BY <2>1, <2>2, <2>4, <1>3
  <2>6. (a < lots <=> b < lots - q) /\ lots - a = (lots - q) - b
    BY ONLY <2>2, <1>1
  <2> QED  BY <2>3, <2>5, <2>6
<1>10. Remaining(order, queue) = Remaining(less, rest)
  <2> DEFINE C == {i \in DOMAIN queue : Crosses(order, queue[i].price)}
             D == {i \in DOMAIN rest : Crosses(less, rest[i].price)}
  <2>1. PICK c \in 0 .. N : c = Cardinality(C) /\ \A i \in 1 .. N : Crosses(order, queue[i].price) <=> i <= c
    BY CrossingPrefix
  <2>2. PICK d \in 0 .. N - 1 : d = Cardinality(D) /\ \A i \in 1 .. N - 1 : Crosses(less, rest[i].price) <=> i <= d
    <3>1. SoundQueue(Opposite(less.side), rest) /\ less \in LimitOrder
      BY <1>2, <1>3
    <3>2. /\ Cardinality(D) \in 0 .. Len(rest)
          /\ \A i \in 1 .. Len(rest) : Crosses(less, rest[i].price) <=> i <= Cardinality(D)
      BY <3>1, CrossingPrefix
    <3> QED  BY <3>2, <1>2
  <2>3. Remaining(order, queue) = lots - Smaller(lots, A[c + 1])
    BY <2>1, <1>1 DEF Remaining
  <2>4. Remaining(less, rest) = (lots - q) - Smaller(lots - q, B[d + 1])
    BY <2>2, <1>3 DEF Remaining
  <2> HIDE DEF C, D
  <2>5. c \in 1 .. N
    <3>1. 1 \in 1 .. N /\ Crosses(order, queue[1].price)
      BY <1>2
    <3>2. 1 <= c
      BY <3>1, <2>1
    <3> QED  BY <3>2, <2>1, <1>2
  <2>6. d = c - 1
    <3>1. \A i \in 1 .. N - 1 : i <= d <=> i + 1 <= c
      BY <2>1, <2>2, <1>2, <1>3
    <3>2. CASE d > c - 1
      <4>1. d \in 1 .. N - 1 /\ d <= d /\ ~ (d + 1 <= c)
        BY <3>2, <2>2, <2>5, <1>2
      <4> QED  BY <4>1, <3>1
    <3>3. CASE d < c - 1
      <4>1. c - 1 \in 1 .. N - 1 /\ ~ (c - 1 <= d) /\ (c - 1) + 1 <= c
        BY <3>3, <2>2, <2>5, <1>2
      <4> QED  BY <4>1, <3>1
    <3> QED  BY <3>2, <3>3, <2>2, <2>5
  <2>7. PICK b \in Nat : b = B[c] /\ A[c + 1] = q + b /\ B[d + 1] = b
    <3>1. B[c] \in Nat /\ A[c + 1] = q + B[c] /\ d + 1 = c
      BY <2>5, <2>6, <1>6, <1>7, <1>2
    <3> QED  BY <3>1
  <2>8. lots - Smaller(lots, q + b) = (lots - q) - Smaller(lots - q, b)
    <3>1. \A k, m, n \in Nat : k <= m => m - Smaller(m, k + n) = (m - k) - Smaller(m - k, n)
      BY ONLY TRUE DEF Smaller
    <3>2. q \in Nat /\ lots \in Nat /\ b \in Nat /\ q <= lots
      BY <1>1
    <3> QED  BY ONLY <3>1, <3>2
  <2> QED  BY <2>3, <2>4, <2>7, <2>8
<1> QED  BY <1>1, <1>2, <1>3, <1>8, <1>9, <1>10

(* What AfterFills makes holds the makers with lots left.                  *)
LEMMA AfterFillsKeeps ==
    ASSUME NEW order \in LimitOrder, NEW queue, SoundQueue(Opposite(order.side), queue)
    PROVE  /\ AfterFills(order, queue) \in Seq(LimitOrder)
           /\ \E g : KeepsLots(order, queue, AfterFills(order, queue), g)
<1> DEFINE t == AfterFills(order, queue)
<1>0. /\ t \in Seq(LimitOrder)
      /\ \E p \in [1 .. Len(t) -> 1 .. Len(queue)] :
            /\ \A i \in 1 .. Len(t) :
                  LET fill == Fills(order, queue)[p[i]]
                  IN  /\ fill < queue[p[i]].quantity
                      /\ t[i] = [queue[p[i]] EXCEPT !.quantity = queue[p[i]].quantity - fill]
            /\ \A i, j \in 1 .. Len(t) : i < j <=> p[i] < p[j]
            /\ \A n \in 1 .. Len(queue) :
                  Fills(order, queue)[n] < queue[n].quantity => \E i \in 1 .. Len(t) : p[i] = n
  BY AfterFillsPicks
<1>1. PICK p \in [1 .. Len(t) -> 1 .. Len(queue)] :
         /\ \A i \in 1 .. Len(t) :
               /\ Fills(order, queue)[p[i]] < queue[p[i]].quantity
               /\ t[i] = [queue[p[i]] EXCEPT !.quantity = queue[p[i]].quantity
                                                          - Fills(order, queue)[p[i]]]
         /\ \A i, j \in 1 .. Len(t) : i < j <=> p[i] < p[j]
         /\ \A n \in 1 .. Len(queue) : Fills(order, queue)[n] < queue[n].quantity =>
               \E i \in 1 .. Len(t) : p[i] = n
  <2> HIDE DEF t
  <2> QED  BY <1>0
<1> HIDE DEF t
<1>2. KeepsLots(order, queue, t, p)
  BY <1>1 DEF KeepsLots
<1> QED  BY <1>0, <1>2 DEF t

(* So the queue it leaves and the trades are those of the rest, after it.  *)
LEMMA HeadExhausted ==
    ASSUME NEW order \in LimitOrder, NEW queue, SoundQueue(Opposite(order.side), queue),
           queue # << >>, Crosses(order, queue[1].price), queue[1].quantity <= order.quantity,
           NEW less, less = [order EXCEPT !.quantity = order.quantity - queue[1].quantity]
    PROVE  /\ AfterFills(order, queue) = AfterFills(less, Tail(queue))
           /\ TradesWith(order, queue)
                = <<TradeOf(queue[1], order, queue[1].price, queue[1].quantity)>>
                    \o TradesWith(less, Tail(queue))
<1>0. PICK rest : rest = Tail(queue)
  OBVIOUS
<1> DEFINE N == Len(queue)
           F == Fills(order, queue)
           G == Fills(less, rest)
<1>1. /\ less \in LimitOrder /\ SoundQueue(Opposite(less.side), rest)
      /\ F[1] = queue[1].quantity /\ \A i \in 1 .. N - 1 : F[i + 1] = G[i]
  <2>1. /\ less \in LimitOrder /\ SoundQueue(Opposite(less.side), Tail(queue))
    BY HeadExhaustedFills
  <2>2. Fills(order, queue)[1] = queue[1].quantity
    BY HeadExhaustedFills
  <2>3. \A i \in 1 .. Len(queue) - 1 : Fills(order, queue)[i + 1] = Fills(less, Tail(queue))[i]
    BY HeadExhaustedFills
  <2> QED  BY <2>1, <2>2, <2>3, <1>0
<1>2. /\ N \in Nat /\ N > 0 /\ DOMAIN queue = 1 .. N
      /\ Len(rest) = N - 1 /\ DOMAIN rest = 1 .. N - 1
      /\ \A i \in 1 .. N - 1 : i + 1 \in 1 .. N /\ rest[i] = queue[i + 1]
      /\ \A i \in 1 .. N : queue[i] \in LimitOrder /\ queue[i].quantity \in Nat /\ queue[i].quantity > 0
  BY <1>0, TailSound
<1>3. AfterFills(order, queue) = AfterFills(less, rest)
  <2> DEFINE t == AfterFills(less, rest)
  <2>k. t \in Seq(LimitOrder) /\ \E g : KeepsLots(less, rest, t, g)
    BY ONLY <1>1, AfterFillsKeeps
  <2>1. PICK p \in [1 .. Len(t) -> 1 .. Len(rest)] :
           /\ t \in Seq(LimitOrder)
           /\ \A i \in 1 .. Len(t) :
                 /\ G[p[i]] < rest[p[i]].quantity
                 /\ t[i] = [rest[p[i]] EXCEPT !.quantity = rest[p[i]].quantity - G[p[i]]]
           /\ \A i, j \in 1 .. Len(t) : i < j => p[i] < p[j]
           /\ \A n \in 1 .. Len(rest) : G[n] < rest[n].quantity => \E i \in 1 .. Len(t) : p[i] = n
    <3> HIDE DEF t
    <3> QED  BY <2>k DEF KeepsLots
  <2> DEFINE g == [i \in 1 .. Len(t) |-> p[i] + 1]
  <2> HIDE DEF t, N, F, G
  <2>2. \A i \in 1 .. Len(t) : g[i] = p[i] + 1 /\ p[i] \in 1 .. N - 1 /\ g[i] \in 1 .. N
    BY <2>1, <1>2
  <2>3. g \in [1 .. Len(t) -> 1 .. N]
    BY <2>2
  <2> HIDE DEF g
  <2>4. ASSUME NEW i \in 1 .. Len(t), NEW j \in 1 .. Len(t), i < j
        PROVE  g[i] < g[j]
    <3>1. p[i] < p[j]
      BY <2>1, <2>4
    <3> QED  BY <3>1, <2>2, <1>2
  <2>5. ASSUME NEW i \in 1 .. Len(t)
        PROVE  /\ F[g[i]] < queue[g[i]].quantity
               /\ t[i] = [queue[g[i]] EXCEPT !.quantity = queue[g[i]].quantity - F[g[i]]]
    <3>1. PICK n \in 1 .. N - 1 : n = p[i] /\ g[i] = n + 1
      BY <2>2
    <3>2. rest[n] = queue[n + 1] /\ F[n + 1] = G[n]
      BY <1>1, <1>2
    <3>3. G[n] < rest[n].quantity /\ t[i] = [rest[n] EXCEPT !.quantity = rest[n].quantity - G[n]]
      BY <2>1, <3>1
    <3> QED  BY <3>1, <3>2, <3>3
  <2>6. ASSUME NEW n \in 1 .. N, F[n] < queue[n].quantity
        PROVE  \E i \in 1 .. Len(t) : g[i] = n
    <3>1. n # 1
      BY <2>6, <1>1, <1>2
    <3>2. PICK m \in 1 .. N - 1 : n = m + 1
      <4>1. n - 1 \in 1 .. N - 1 /\ n = (n - 1) + 1
        BY <3>1, <1>2
      <4> QED  BY <4>1
    <3>3. G[m] < rest[m].quantity
      BY <2>6, <3>2, <1>1, <1>2
    <3>4. PICK i \in 1 .. Len(t) : p[i] = m
      BY <3>3, <2>1, <1>2
    <3> QED  BY <3>2, <3>4, <2>2
  <2>7. KeepsLots(order, queue, t, g)
    BY <2>3, <2>4, <2>5, <2>6 DEF KeepsLots, N, F
  <2>8. t \in Seq(LimitOrder)
    BY <2>1
  <2> QED  BY <2>7, <2>8, AfterFillsIs DEF t
<1>4. TradesWith(order, queue)
        = <<TradeOf(queue[1], order, queue[1].price, queue[1].quantity)>> \o TradesWith(less, rest)
  <2> DEFINE T == TradesWith(order, queue)
             U == TradesWith(less, rest)
             x == TradeOf(queue[1], order, queue[1].price, queue[1].quantity)
  <2>1. /\ T \in Seq(Trade) /\ Len(T) \in 0 .. N
        /\ \A n \in 1 .. Len(T) : T[n] = TradeOf(queue[n], order, queue[n].price, F[n]) /\ F[n] > 0
        /\ \A n \in 1 .. N : n > Len(T) => F[n] = 0
    BY <1>2, TradesSound
  <2>2. /\ U \in Seq(Trade) /\ Len(U) \in 0 .. N - 1
        /\ \A n \in 1 .. Len(U) : U[n] = TradeOf(rest[n], less, rest[n].price, G[n]) /\ G[n] > 0
        /\ \A n \in 1 .. N - 1 : n > Len(U) => G[n] = 0
    <3>1. /\ U \in Seq(Trade) /\ Len(U) \in 0 .. Len(rest)
          /\ \A n \in 1 .. Len(U) : U[n] = TradeOf(rest[n], less, rest[n].price, G[n]) /\ G[n] > 0
          /\ \A n \in DOMAIN rest : n > Len(U) => G[n] = 0
      BY ONLY <1>1, TradesSound
    <3> QED  BY <3>1, <1>2
  <2> HIDE DEF T, U, F, G, N
  <2>3. Len(T) >= 1 /\ T[1] = x
    <3>1. 1 \in 1 .. N /\ F[1] > 0
      BY <1>1, <1>2
    <3>2. Len(T) >= 1
      BY <3>1, <2>1, <1>2
    <3>3. 1 \in 1 .. Len(T)
      BY <3>2, <2>1
    <3> QED  BY <3>2, <3>3, <2>1, <1>1
  <2>4. PICK u \in 0 .. N - 1 : u = Len(U)
    BY <2>2
  <2>5. PICK k \in 1 .. N : k = Len(T)
    BY <2>1, <2>3, <1>2
  <2>6. k = u + 1
    <3>1. CASE u + 1 < k
      <4>1. u + 1 \in 1 .. N - 1 /\ u + 1 > u /\ (u + 1) + 1 \in 1 .. k
        BY <3>1, <1>2
      <4>2. G[u + 1] = 0 /\ F[(u + 1) + 1] > 0
        BY <4>1, <2>1, <2>2, <2>4, <2>5
      <4> QED  BY <4>1, <4>2, <1>1
    <3>2. CASE u + 1 > k
      <4>1. u \in 1 .. N - 1 /\ u \in 1 .. u /\ u + 1 \in 1 .. N
        BY <3>2, <1>2
      <4>2. G[u] > 0 /\ F[u + 1] = 0
        BY <3>2, <4>1, <2>1, <2>2, <2>4, <2>5
      <4> QED  BY <4>1, <4>2, <1>1
    <3> QED  BY <3>1, <3>2, <1>2
  <2>7. ASSUME NEW n \in 1 .. u
        PROVE  T[n + 1] = U[n]
    <3>1. n \in 1 .. N - 1 /\ n + 1 \in 1 .. k
      BY <2>6, <1>2
    <3>2. T[n + 1] = TradeOf(queue[n + 1], order, queue[n + 1].price, F[n + 1])
      BY <3>1, <2>1, <2>5
    <3>3. U[n] = TradeOf(rest[n], less, rest[n].price, G[n])
      BY <2>2, <2>4
    <3>4. rest[n] = queue[n + 1] /\ F[n + 1] = G[n]
      BY <3>1, <1>1, <1>2
    <3>5. less.order_id = order.order_id
      BY DEF LimitOrder
    <3> QED  BY <3>2, <3>3, <3>4, <3>5 DEF TradeOf
  <2> HIDE DEF x
  <2>8. <<x>> \in Seq(Trade) /\ Len(<<x>>) = 1 /\ <<x>>[1] = x
    <3>1. 1 \in 1 .. Len(T) /\ T[1] \in Trade
      BY <2>1, <2>3
    <3> QED  BY <3>1, <2>3
  <2>9. /\ <<x>> \o U \in Seq(Trade) /\ Len(<<x>> \o U) = 1 + u
        /\ \A i \in 1 .. 1 + u :
              (<<x>> \o U)[i] = IF i <= 1 THEN <<x>>[i] ELSE U[i - 1]
    <3>1. /\ <<x>> \o U \in Seq(Trade)
          /\ Len(<<x>> \o U) = Len(<<x>>) + Len(U)
          /\ \A i \in 1 .. Len(<<x>>) + Len(U) :
                (<<x>> \o U)[i] = IF i <= Len(<<x>>) THEN <<x>>[i] ELSE U[i - Len(<<x>>)]
      BY <2>2, <2>8, ConcatProperties
    <3> QED  BY ONLY <3>1, <2>4, <2>8
  <2>10. ASSUME NEW i \in 1 .. k
         PROVE  T[i] = (<<x>> \o U)[i]
    <3>1. CASE i = 1
      BY <3>1, <2>3, <2>6, <2>8, <2>9
    <3>2. CASE i # 1
      <4>1. PICK n \in 1 .. u : i = n + 1
        <5>1. i - 1 \in 1 .. u /\ i = (i - 1) + 1
          BY <3>2, <2>6
        <5> QED  BY <5>1
      <4>2. i \in 1 .. 1 + u /\ ~ (i <= 1) /\ i - 1 = n
        BY <4>1, <2>6
      <4>3. (<<x>> \o U)[i] = U[n]
        BY <4>2, <2>9
      <4> QED  BY <4>1, <4>3, <2>7
    <3> QED  BY <3>1, <3>2
  <2> DEFINE V == <<x>> \o U
  <2>11. V \in Seq(Trade) /\ Len(V) = k /\ \A i \in 1 .. k : T[i] = V[i]
    BY <2>6, <2>9, <2>10
  <2> HIDE DEF V
  <2>12. T = V
    BY <2>1, <2>5, <2>11
  <2> QED  BY <2>12 DEF V, T, U, x
<1> QED  BY <1>0, <1>3, <1>4

(* A head that crosses and has more lots than the order takes it all.      *)
LEMMA HeadReduced ==
    ASSUME NEW order \in LimitOrder, NEW queue, SoundQueue(Opposite(order.side), queue),
           queue # << >>, Crosses(order, queue[1].price),
           0 < order.quantity, order.quantity < queue[1].quantity
    PROVE  /\ AfterFills(order, queue)
                = [queue EXCEPT ![1].quantity = queue[1].quantity - order.quantity]
           /\ TradesWith(order, queue)
                = <<TradeOf(queue[1], order, queue[1].price, order.quantity)>>
           /\ Remaining(order, queue) = 0
<1> DEFINE N == Len(queue)
           F == Fills(order, queue)
           A == QuantityAhead(queue)
<1>1. /\ N \in Nat /\ N > 0 /\ DOMAIN queue = 1 .. N /\ queue \in Seq(LimitOrder)
      /\ \A i \in 1 .. N : queue[i] \in LimitOrder /\ queue[i].quantity \in Nat /\ queue[i].quantity > 0
  BY TailSound DEF SoundQueue
<1>2. PICK q \in Nat, lots \in Nat : q = queue[1].quantity /\ lots = order.quantity /\ 0 < lots /\ lots < q
  <2>1. 1 \in 1 .. N
    BY <1>1
  <2>2. queue[1].quantity \in Nat
    BY <2>1, <1>1
  <2>3. order.quantity \in Nat
    BY DEF LimitOrder
  <2> QED  BY <2>2, <2>3
<1>3. A \in [1 .. (N + 1) -> Nat] /\ A[1] = 0 /\ A[1 + 1] = A[1] + queue[1].quantity
  <2>1. 1 \in 1 .. Len(queue)
    BY <1>1
  <2> QED  BY <2>1, <1>1, AheadAddsUp
<1>4. \A i \in 1 .. (N + 1) : i # 1 => q <= A[i] /\ A[i] \in Nat
  <2> TAKE i \in 1 .. (N + 1)
  <2> SUFFICES ASSUME i # 1 PROVE q <= A[i] /\ A[i] \in Nat
    OBVIOUS
  <2>1. 1 + 1 \in 1 .. (N + 1) /\ 1 + 1 <= i
    BY <1>1
  <2>2. A[1 + 1] <= A[i]
    BY <1>1, <2>1, AheadGrows
  <2> QED  BY <2>2, <1>2, <1>3
<1>5. F[1] = lots
  <2>1. 1 \in DOMAIN queue
    BY <1>1
  <2>2. F[1] = IF Crosses(order, queue[1].price) /\ 0 < lots THEN Smaller(q, lots - 0) ELSE 0
    BY <2>1, <1>2, <1>3 DEF Fills
  <2> QED  BY <2>2, <1>2 DEF Smaller
<1>6. \A i \in 1 .. N : i # 1 => F[i] = 0
  <2> TAKE i \in 1 .. N
  <2> SUFFICES ASSUME i # 1 PROVE F[i] = 0
    OBVIOUS
  <2>1. i \in DOMAIN queue /\ i \in 1 .. (N + 1)
    BY <1>1
  <2>2. ~ (A[i] < order.quantity)
    BY <2>1, <1>2, <1>4
  <2> QED  BY <2>1, <2>2 DEF Fills
<1>7. Remaining(order, queue) = 0
  <2> DEFINE C == {i \in DOMAIN queue : Crosses(order, queue[i].price)}
  <2>1. PICK c \in 0 .. N : c = Cardinality(C) /\ \A i \in 1 .. N : Crosses(order, queue[i].price) <=> i <= c
    BY CrossingPrefix
  <2>2. Remaining(order, queue) = lots - Smaller(lots, A[c + 1])
    BY <2>1, <1>2 DEF Remaining
  <2>3. 1 <= c
    <3>1. 1 \in 1 .. N
      BY <1>1
    <3> QED  BY <3>1, <2>1
  <2>4. c + 1 \in 1 .. (N + 1) /\ c + 1 # 1
    BY <2>1, <2>3, <1>1
  <2>5. PICK a \in Nat : a = A[c + 1] /\ lots <= a
    BY <2>4, <1>2, <1>4
  <2> QED  BY <2>2, <2>5 DEF Smaller
<1>8. TradesWith(order, queue) = <<TradeOf(queue[1], order, queue[1].price, lots)>>
  <2> DEFINE T == TradesWith(order, queue)
             x == TradeOf(queue[1], order, queue[1].price, lots)
  <2>1. /\ T \in Seq(Trade) /\ Len(T) \in 0 .. N
        /\ \A n \in 1 .. Len(T) : T[n] = TradeOf(queue[n], order, queue[n].price, F[n]) /\ F[n] > 0
        /\ \A n \in 1 .. N : n > Len(T) => F[n] = 0
    BY <1>1, TradesSound
  <2> HIDE DEF T, F, x
  <2>2. Len(T) = 1
    <3>1. CASE Len(T) = 0
      <4>1. 1 \in 1 .. N /\ 1 > Len(T)
        BY <3>1, <1>1
      <4> QED  BY <4>1, <2>1, <1>2, <1>5
    <3>2. CASE Len(T) > 1
      <4>1. 2 \in 1 .. Len(T) /\ 2 \in 1 .. N /\ 2 # 1
        BY <3>2, <2>1, <1>1
      <4> QED  BY <4>1, <2>1, <1>6
    <3>3. PICK k \in Nat : k = Len(T)
      BY <2>1
    <3>4. ~ (k = 0) /\ ~ (k > 1)
      BY <3>1, <3>2, <3>3
    <3> QED  BY ONLY <3>3, <3>4
  <2>3. T[1] = x
    <3>1. 1 \in 1 .. Len(T)
      BY <2>2
    <3> QED  BY <3>1, <2>1, <1>5 DEF x
  <2>4. T = <<x>>
    BY <2>1, <2>2, <2>3
  <2> QED  BY <2>4 DEF T, x
<1>9. AfterFills(order, queue) = [queue EXCEPT ![1].quantity = q - lots]
  <2>1. PICK left \in Nat : left = q - lots
    BY <1>2
  <2> DEFINE t == [queue EXCEPT ![1].quantity = left]
             g == [i \in 1 .. N |-> i]
  <2>2. [queue[1] EXCEPT !.quantity = left] \in LimitOrder
    <3>1. queue[1] \in LimitOrder
      BY <1>1
    <3> QED  BY <3>1 DEF LimitOrder
  <2>3. t = [queue EXCEPT ![1] = [queue[1] EXCEPT !.quantity = left]]
    OBVIOUS
  <2>4. /\ t \in Seq(LimitOrder) /\ Len(t) = N
        /\ \A i \in 1 .. N : t[i] = IF i = 1 THEN [queue[1] EXCEPT !.quantity = left] ELSE queue[i]
    BY <2>2, <2>3, <1>1
  <2>5. g \in [1 .. N -> 1 .. N] /\ \A i \in 1 .. N : g[i] = i
    OBVIOUS
  <2> HIDE DEF t, g, F, N
  <2>6. ASSUME NEW i \in 1 .. N
        PROVE  /\ F[i] < queue[i].quantity
               /\ t[i] = [queue[i] EXCEPT !.quantity = queue[i].quantity - F[i]]
    <3>1. CASE i = 1
      BY <3>1, <1>2, <1>5, <2>1, <2>4
    <3>2. CASE i # 1
      <4>1. F[i] = 0 /\ t[i] = queue[i] /\ queue[i] \in LimitOrder
             /\ queue[i].quantity \in Nat /\ queue[i].quantity > 0
        BY <3>2, <1>1, <1>6, <2>4
      <4>2. queue[i].quantity - F[i] = queue[i].quantity
        BY <4>1
      <4>3. queue[i] = [queue[i] EXCEPT !.quantity = queue[i].quantity]
        BY <4>1 DEF LimitOrder
      <4> QED  BY <4>1, <4>2, <4>3
    <3> QED  BY <3>1, <3>2
  <2>7. KeepsLots(order, queue, t, g)
    <3>1. g \in [1 .. Len(t) -> 1 .. Len(queue)]
      BY <2>4, <2>5 DEF N
    <3>2. \A i, j \in 1 .. Len(t) : i < j => g[i] < g[j]
      BY <2>4, <2>5
    <3>3. \A i \in 1 .. Len(t) :
             /\ Fills(order, queue)[g[i]] < queue[g[i]].quantity
             /\ t[i] = [queue[g[i]] EXCEPT !.quantity = queue[g[i]].quantity
                                                        - Fills(order, queue)[g[i]]]
      BY <2>4, <2>5, <2>6 DEF F
    <3>4. \A n \in 1 .. Len(queue) : \E i \in 1 .. Len(t) : g[i] = n
      BY <2>4, <2>5 DEF N
    <3> QED  BY <3>1, <3>2, <3>3, <3>4 DEF KeepsLots
  <2>8. t \in Seq(LimitOrder)
    BY <2>4
  <2> QED  BY <2>1, <2>7, <2>8, AfterFillsIs DEF t
<1> QED  BY <1>2, <1>7, <1>8, <1>9

(* Two books that agree on both sides are the same.                        *)
LEMMA SameQueues ==
    ASSUME NEW b, NEW c, b = [s \in Sides |-> b[s]], c = [s \in Sides |-> c[s]],
           NEW side \in Sides, b[side] = c[side], b[Opposite(side)] = c[Opposite(side)]
    PROVE  b = c
<1>1. \A s \in Sides : s = side \/ s = Opposite(side)
  BY DEF Sides, Opposite
<1>2. \A s \in Sides : b[s] = c[s]
  BY <1>1
<1> QED  BY <1>2

(* The two sides once an order is placed.                                  *)
LEMMA PlacedSides ==
    ASSUME NEW order \in LimitOrder, NEW book, SoundBook(book)
    PROVE  LET other == Opposite(order.side)
               left  == Remaining(order, book[other])
               after == BookAfterPlace(order, book)
           IN  /\ order.side \in Sides /\ other \in Sides /\ order.side # other
               /\ SoundQueue(other, book[other]) /\ SoundQueue(order.side, book[order.side])
               /\ after = [s \in Sides |-> after[s]]
               /\ book = [s \in Sides |-> book[s]]
               /\ after[other] = AfterFills(order, book[other])
               /\ left \in Nat
               /\ left > 0 => after[order.side] = Enqueue([order EXCEPT !.quantity = left], book[order.side])
               /\ left = 0 => after[order.side] = book[order.side]
<1> DEFINE other == Opposite(order.side)
           left  == Remaining(order, book[other])
           after == BookAfterPlace(order, book)
<1>1. order.side \in Sides /\ other \in Sides /\ order.side # other /\ order.quantity \in Nat
  BY DEF LimitOrder, Sides, Opposite
<1>2. SoundQueue(other, book[other]) /\ SoundQueue(order.side, book[order.side])
  BY <1>1 DEF SoundBook
<1>3. left \in Nat
  <2>1. left \in 0 .. order.quantity
    BY <1>2, RemainingSound
  <2> HIDE DEF left
  <2> QED  BY <2>1, <1>1
<1>4. after = [s \in Sides |-> IF s = other THEN AfterFills(order, book[other])
                               ELSE IF left > 0 THEN Enqueue([order EXCEPT !.quantity = left], book[s])
                               ELSE book[s]]
  BY DEF BookAfterPlace
<1> HIDE DEF left, after, other
<1>5. after = [s \in Sides |-> after[s]] /\ after[other] = AfterFills(order, book[other])
  BY <1>1, <1>4
<1>6. left > 0 => after[order.side] = Enqueue([order EXCEPT !.quantity = left], book[order.side])
  BY <1>1, <1>4
<1>7. left = 0 => after[order.side] = book[order.side]
  BY <1>1, <1>4
<1>8. book = [s \in Sides |-> book[s]]
  BY DEF SoundBook
<1> QED  BY <1>1, <1>2, <1>3, <1>5, <1>6, <1>7, <1>8 DEF left, after, other

(* An order without lots changes nothing.                                  *)
LEMMA PlaceNothing ==
    ASSUME NEW order \in LimitOrder, NEW book, SoundBook(book), order.quantity = 0
    PROVE  BookAfterPlace(order, book) = book /\ PlaceOutcome(order, book) = Accepted(0, << >>)
<1>1. PICK other, makers, after :
         /\ other = Opposite(order.side) /\ makers = book[other]
         /\ after = BookAfterPlace(order, book)
  OBVIOUS
<1>2. /\ order.side \in Sides
      /\ SoundQueue(other, makers)
      /\ after = [s \in Sides |-> after[s]] /\ book = [s \in Sides |-> book[s]]
      /\ after[other] = AfterFills(order, makers)
      /\ Remaining(order, makers) = 0 => after[order.side] = book[order.side]
  BY <1>1, PlacedSides
<1>3. /\ AfterFills(order, makers) = makers /\ TradesWith(order, makers) = << >>
      /\ Remaining(order, makers) = 0
  BY <1>1, <1>2, NoLotsNoFills
<1>4. after[order.side] = book[order.side] /\ after[Opposite(order.side)] = book[Opposite(order.side)]
  BY <1>1, <1>2, <1>3
<1>5. after = book
  BY <1>2, <1>4, SameQueues
<1> QED  BY <1>1, <1>3, <1>5 DEF PlaceOutcome

(* A round that exhausts the best maker: placing what is left of the order *)
(* on what is left of the book comes to the same, after the trade.         *)
PlacesAs(order, book, trade, less, rest) ==
    /\ less \in LimitOrder
    /\ BookAfterPlace(order, book) = BookAfterPlace(less, rest)
    /\ PlaceOutcome(order, book)
         = Accepted(PlaceOutcome(less, rest).remaining_quantity,
                    <<trade>> \o PlaceOutcome(less, rest).trades)

(* So it is with one round of FillMaker.                                   *)
LEMMA PlaceAfterExhausted ==
    ASSUME NEW order \in LimitOrder, NEW book, SoundBook(book),
           NEW makers, makers = book[Opposite(order.side)], makers # << >>,
           Crosses(order, makers[1].price), makers[1].quantity <= order.quantity,
           NEW less, less = [order EXCEPT !.quantity = order.quantity - makers[1].quantity],
           NEW rest, SoundBook(rest),
           rest[Opposite(order.side)] = Tail(makers), rest[order.side] = book[order.side]
    PROVE  PlacesAs(order, book, TradeOf(makers[1], order, makers[1].price, makers[1].quantity),
                    less, rest)
<1>1. PICK side, other, after, final, left :
         /\ side = order.side /\ other = Opposite(side)
         /\ after = BookAfterPlace(order, book) /\ final = BookAfterPlace(less, rest)
         /\ left = Remaining(order, makers)
  OBVIOUS
<1>2. /\ side \in Sides /\ SoundQueue(other, makers)
      /\ after = [s \in Sides |-> after[s]]
      /\ after[other] = AfterFills(order, makers)
      /\ left \in Nat
      /\ left > 0 => after[side] = Enqueue([order EXCEPT !.quantity = left], book[side])
      /\ left = 0 => after[side] = book[side]
  BY <1>1, PlacedSides
<1>3. /\ less \in LimitOrder /\ Remaining(order, makers) = Remaining(less, Tail(makers))
      /\ less.side = side
  <2>1. less \in LimitOrder /\ Remaining(order, makers) = Remaining(less, Tail(makers))
    BY <1>1, <1>2, HeadExhaustedFills
  <2>2. less.side = side
    BY <1>1 DEF LimitOrder
  <2> QED  BY <2>1, <2>2
<1>4. /\ AfterFills(order, makers) = AfterFills(less, Tail(makers))
      /\ TradesWith(order, makers)
           = <<TradeOf(makers[1], order, makers[1].price, makers[1].quantity)>>
               \o TradesWith(less, Tail(makers))
  BY <1>1, <1>2, HeadExhausted
<1>5. rest[other] = Tail(makers) /\ rest[side] = book[side]
  BY <1>1
<1>6. /\ final = [s \in Sides |-> final[s]]
      /\ final[other] = AfterFills(less, rest[other])
      /\ left > 0 => final[side] = Enqueue([less EXCEPT !.quantity = left], rest[side])
      /\ left = 0 => final[side] = rest[side]
  <2>1. left = Remaining(less, rest[other]) /\ other = Opposite(less.side)
    BY <1>1, <1>3, <1>5
  <2>2. less \in LimitOrder /\ SoundBook(rest)
    BY <1>3
  <2>3. /\ final = [s \in Sides |-> final[s]]
        /\ final[Opposite(less.side)] = AfterFills(less, rest[Opposite(less.side)])
    BY ONLY <2>2, <1>1, PlacedSides
  <2>4. Remaining(less, rest[Opposite(less.side)]) = 0 => final[less.side] = rest[less.side]
    BY ONLY <2>2, <1>1, PlacedSides
  <2>5. Remaining(less, rest[Opposite(less.side)]) > 0 =>
           final[less.side] = Enqueue([less EXCEPT !.quantity = Remaining(less, rest[Opposite(less.side)])],
                                      rest[less.side])
    BY ONLY <2>2, <1>1, PlacedSides
  <2> QED  BY ONLY <2>1, <2>3, <2>4, <2>5, <1>3
<1>7. [less EXCEPT !.quantity = left] = [order EXCEPT !.quantity = left]
  BY <1>2 DEF LimitOrder
<1>8. after[other] = final[other]
  BY <1>2, <1>4, <1>5, <1>6
<1>9. after[side] = final[side]
  <2>1. CASE left > 0
    BY <2>1, <1>2, <1>5, <1>6, <1>7
  <2>2. CASE left = 0
    BY <2>2, <1>2, <1>5, <1>6
  <2> QED  BY <2>1, <2>2, <1>2
<1>10. after = final
  <2>1. side \in Sides /\ after[Opposite(side)] = final[Opposite(side)]
    BY <1>1, <1>2, <1>8
  <2>2. after = [s \in Sides |-> after[s]] /\ final = [s \in Sides |-> final[s]]
    BY <1>2, <1>6
  <2> QED  BY ONLY <2>1, <2>2, <1>9, SameQueues
<1>11. PlaceOutcome(less, rest) = Accepted(left, TradesWith(less, Tail(makers)))
  BY <1>1, <1>3, <1>5 DEF PlaceOutcome
<1>12. PlaceOutcome(order, book) = Accepted(left, TradesWith(order, makers))
  BY <1>1 DEF PlaceOutcome
<1>13. /\ PlaceOutcome(less, rest).remaining_quantity = left
       /\ PlaceOutcome(less, rest).trades = TradesWith(less, Tail(makers))
  BY <1>11 DEF Accepted
<1> QED  BY <1>1, <1>3, <1>4, <1>10, <1>12, <1>13 DEF PlacesAs

(* A round that fills the order leaves the book that placing it leaves.    *)
LEMMA PlaceWhatIsReduced ==
    ASSUME NEW order \in LimitOrder, NEW book, SoundBook(book),
           NEW makers, makers = book[Opposite(order.side)], makers # << >>,
           Crosses(order, makers[1].price),
           0 < order.quantity, order.quantity < makers[1].quantity,
           NEW rest, SoundBook(rest),
           rest[Opposite(order.side)]
               = [makers EXCEPT ![1].quantity = makers[1].quantity - order.quantity],
           rest[order.side] = book[order.side]
    PROVE  /\ BookAfterPlace(order, book) = rest
           /\ PlaceOutcome(order, book)
                = Accepted(0, <<TradeOf(makers[1], order, makers[1].price, order.quantity)>>)
<1>1. PICK side, other, after :
         /\ side = order.side /\ other = Opposite(side)
         /\ after = BookAfterPlace(order, book)
  OBVIOUS
<1>2. /\ side \in Sides /\ SoundQueue(other, makers)
      /\ after = [s \in Sides |-> after[s]]
      /\ after[other] = AfterFills(order, makers)
      /\ Remaining(order, makers) = 0 => after[side] = book[side]
  <2>1. order \in LimitOrder /\ SoundBook(book) /\ makers = book[Opposite(order.side)]
    OBVIOUS
  <2> QED  BY ONLY <1>1, <2>1, PlacedSides
<1>3. /\ AfterFills(order, makers)
           = [makers EXCEPT ![1].quantity = makers[1].quantity - order.quantity]
      /\ TradesWith(order, makers)
           = <<TradeOf(makers[1], order, makers[1].price, order.quantity)>>
      /\ Remaining(order, makers) = 0
  BY <1>1, <1>2, HeadReduced
<1>4. after[side] = rest[side] /\ after[Opposite(side)] = rest[Opposite(side)]
  BY <1>1, <1>2, <1>3
<1>5. rest = [s \in Sides |-> rest[s]]
  BY DEF SoundBook
<1>6. after = rest
  BY ONLY <1>2, <1>4, <1>5, SameQueues
<1> QED  BY <1>1, <1>3, <1>6 DEF PlaceOutcome

(* An order that crosses nothing joins its side as it is.                  *)
LEMMA PlaceJoins ==
    ASSUME NEW order \in LimitOrder, NEW book, SoundBook(book), order.quantity > 0,
           \A i \in DOMAIN book[Opposite(order.side)] :
              ~ Crosses(order, book[Opposite(order.side)][i].price),
           NEW rest, rest = [s \in Sides |-> rest[s]],
           rest[Opposite(order.side)] = book[Opposite(order.side)],
           rest[order.side] = Enqueue(order, book[order.side])
    PROVE  /\ BookAfterPlace(order, book) = rest
           /\ PlaceOutcome(order, book) = Accepted(order.quantity, << >>)
<1>1. PICK side, other, makers, after :
         /\ side = order.side /\ other = Opposite(side) /\ makers = book[other]
         /\ after = BookAfterPlace(order, book)
  OBVIOUS
<1>2. /\ side \in Sides /\ SoundQueue(other, makers)
      /\ after = [s \in Sides |-> after[s]]
      /\ after[other] = AfterFills(order, makers)
      /\ Remaining(order, makers) > 0 =>
            after[side] = Enqueue([order EXCEPT !.quantity = Remaining(order, makers)], book[side])
  BY <1>1, PlacedSides
<1>3. \A i \in DOMAIN makers : ~ Crosses(order, makers[i].price)
  BY <1>1
<1>4. /\ AfterFills(order, makers) = makers /\ TradesWith(order, makers) = << >>
      /\ Remaining(order, makers) = order.quantity
  BY <1>1, <1>2, <1>3, NoneCrossesNoFills
<1>5. [order EXCEPT !.quantity = order.quantity] = order
  BY DEF LimitOrder
<1>6. after[side] = rest[side] /\ after[Opposite(side)] = rest[Opposite(side)]
  BY <1>1, <1>2, <1>4, <1>5
<1>7. after = rest
  BY <1>2, <1>6, SameQueues
<1> QED  BY <1>1, <1>4, <1>7 DEF PlaceOutcome

-------------------------------------------------------------------------------
(* An order that rests and one that is canceled.                           *)

(* The place of an order between those it waits for and those that wait    *)
(* for it.                                                                 *)
LEMMA EnqueueBetween ==
    ASSUME NEW order \in LimitOrder, NEW front \in Seq(LimitOrder), NEW back \in Seq(LimitOrder),
           NEW queue, queue = front \o back, SoundQueue(order.side, queue),
           \A i \in DOMAIN front : ~ Better(order.side, order.price, front[i].price),
           \A i \in DOMAIN back : Better(order.side, order.price, back[i].price)
    PROVE  Enqueue(order, queue) = front \o (<<order>> \o back)
<1>1. PICK f \in Nat, b \in Nat, n \in Nat : f = Len(front) /\ b = Len(back) /\ n = f + b
  OBVIOUS
<1>2. /\ queue \in Seq(LimitOrder) /\ Len(queue) = n
      /\ \A i \in 1 .. n : queue[i] = IF i <= f THEN front[i] ELSE back[i - f]
      /\ DOMAIN front = 1 .. f /\ DOMAIN back = 1 .. b
  BY <1>1, JoinOf
<1>3. PICK new : new = Enqueue(order, queue)
  OBVIOUS
<1>4. PICK pos \in 1 .. (n + 1) :
         /\ new \in Seq(LimitOrder) /\ Len(new) = n + 1
         /\ \A j \in 1 .. (n + 1) : new[j] = IF j < pos THEN queue[j]
                                             ELSE IF j = pos THEN order ELSE queue[j - 1]
         /\ \A i \in 1 .. n : i < pos <=> ~ Better(order.side, order.price, queue[i].price)
  <2>1. \E pos \in 1 .. (Len(queue) + 1) :
           /\ Enqueue(order, queue) \in Seq(LimitOrder)
           /\ Len(Enqueue(order, queue)) = Len(queue) + 1
           /\ \A j \in 1 .. (Len(queue) + 1) :
                 Enqueue(order, queue)[j] = IF j < pos THEN queue[j]
                                            ELSE IF j = pos THEN order ELSE queue[j - 1]
           /\ \A i \in 1 .. Len(queue) :
                 i < pos <=> ~ Better(order.side, order.price, queue[i].price)
    BY ONLY order \in LimitOrder, SoundQueue(order.side, queue), EnqueuePlaces
  <2>2. Len(queue) = n
    BY <1>2
  <2> QED  BY ONLY <2>1, <2>2, <1>3
<1>5. \A i \in 1 .. n : i < pos <=> i <= f
  <2> SUFFICES ASSUME NEW i \in 1 .. n PROVE i < pos <=> i <= f
    OBVIOUS
  <2>1. CASE i <= f
    <3>1. i \in 1 .. f /\ queue[i] = front[i]
      BY <2>1, <1>2
    <3> QED  BY <2>1, <3>1, <1>2, <1>4
  <2>2. CASE ~ (i <= f)
    <3>1. i - f \in 1 .. b /\ queue[i] = back[i - f]
      BY <2>2, <1>1, <1>2
    <3> QED  BY <2>2, <3>1, <1>2, <1>4
  <2> QED  BY <2>1, <2>2
<1>6. pos = f + 1
  <2>1. CASE pos > f + 1
    <3>1. f + 1 \in 1 .. n /\ f + 1 < pos /\ ~ (f + 1 <= f)
      BY <2>1, <1>1
    <3> QED  BY <3>1, <1>5
  <2>2. CASE pos < f + 1
    <3>1. pos \in 1 .. n /\ ~ (pos < pos) /\ pos <= f
      BY <2>2, <1>1
    <3> QED  BY <3>1, <1>5
  <2> QED  BY <2>1, <2>2
<1>7. PICK t : t = front \o (<<order>> \o back)
  OBVIOUS
<1>8. /\ t \in Seq(LimitOrder) /\ Len(t) = n + 1
      /\ \A i \in 1 .. f : t[i] = front[i]
      /\ t[f + 1] = order
      /\ \A i \in 1 .. b : t[(f + i) + 1] = back[i]
  BY <1>1, <1>7, MiddleOf
<1>9. ASSUME NEW j \in 1 .. (n + 1)
      PROVE  new[j] = t[j]
  <2>1. CASE j <= f
    <3>1. j < pos /\ j \in 1 .. n /\ j \in 1 .. f
      BY <2>1, <1>1, <1>6
    <3> QED  BY <2>1, <3>1, <1>2, <1>4, <1>8
  <2>2. CASE j = f + 1
    BY <2>2, <1>4, <1>6, <1>8
  <2>3. CASE j > f + 1
    <3>1. PICK i \in 1 .. b : j = (f + i) + 1
      <4>1. j - (f + 1) \in 1 .. b /\ j = (f + (j - (f + 1))) + 1
        BY <2>3, <1>1
      <4> QED  BY <4>1
    <3>2. ~ (j < pos) /\ j # pos /\ j - 1 \in 1 .. n /\ ~ (j - 1 <= f) /\ (j - 1) - f = i
      BY <2>3, <3>1, <1>1, <1>6
    <3>3. t[j] = back[i]
      BY <3>1, <1>8
    <3>4. queue[j - 1] = back[i]
      BY <3>2, <1>2
    <3>5. new[j] = queue[j - 1]
      BY <3>2, <1>4
    <3> QED  BY <3>3, <3>4, <3>5
  <2> QED  BY <2>1, <2>2, <2>3
<1>10. new = t
  BY <1>4, <1>8, <1>9
<1> QED  BY <1>3, <1>7, <1>10

(* The positions a cancel keeps.                                           *)
Others(queue, id) == {i \in DOMAIN queue : queue[i].order_id # id}

(* A cancel of an id that no order of the queue has.                       *)
LEMMA CancelNone ==
    ASSUME NEW queue \in Seq(LimitOrder), NEW id, \A i \in DOMAIN queue : queue[i].order_id # id
    PROVE  At(queue, Others(queue, id)) = queue
<1>1. Others(queue, id) = 1 .. Len(queue)
  BY DEF Others
<1> QED  BY <1>1, AtEverything

(* A cancel of the one order with the id closes the gap it leaves.         *)
LEMMA CancelOne ==
    ASSUME NEW front \in Seq(LimitOrder), NEW back \in Seq(LimitOrder), NEW order \in LimitOrder,
           NEW id, order.order_id = id,
           \A i \in DOMAIN front : front[i].order_id # id,
           \A i \in DOMAIN back : back[i].order_id # id,
           NEW queue, queue = front \o (<<order>> \o back)
    PROVE  JoinedFrom(At(queue, Others(queue, id)), front, back)
<1>1. PICK f \in Nat, b \in Nat, n \in Nat : f = Len(front) /\ b = Len(back) /\ n = f + b
  OBVIOUS
<1> DEFINE P == {i \in DOMAIN queue : queue[i].order_id # id}
<1>2. P = {i \in DOMAIN queue : queue[i].order_id # id}
  OBVIOUS
<1> HIDE DEF P
<1>3. PICK t : t = front \o back
  OBVIOUS
<1>4. /\ t \in Seq(LimitOrder) /\ Len(t) = n
      /\ \A i \in 1 .. n : t[i] = IF i <= f THEN front[i] ELSE back[i - f]
      /\ DOMAIN front = 1 .. f /\ DOMAIN back = 1 .. b
  BY <1>1, <1>3, JoinOf
<1>5. /\ queue \in Seq(LimitOrder) /\ Len(queue) = n + 1
      /\ \A i \in 1 .. f : queue[i] = front[i]
      /\ queue[f + 1] = order
      /\ \A i \in 1 .. b : queue[(f + i) + 1] = back[i]
  BY <1>1, MiddleOf
<1>6. DOMAIN queue = 1 .. n + 1
  BY ONLY <1>5
<1> DEFINE g == [i \in 1 .. n |-> IF i <= f THEN i ELSE i + 1]
<1>7. ASSUME NEW i \in 1 .. n
      PROVE  /\ g[i] = IF i <= f THEN i ELSE i + 1
             /\ g[i] \in 1 .. n + 1 /\ t[i] = queue[g[i]] /\ queue[g[i]].order_id # id
  <2>1. CASE i <= f
    <3>1. i \in 1 .. f /\ g[i] = i /\ i \in 1 .. n + 1
      BY <2>1
    <3> HIDE DEF g
    <3> QED  BY <2>1, <3>1, <1>4, <1>5
  <2>2. CASE ~ (i <= f)
    <3>2. g[i] = i + 1
      BY <2>2
    <3> HIDE DEF g
    <3>0. i - f \in 1 .. b /\ i + 1 = (f + (i - f)) + 1 /\ i + 1 \in 1 .. n + 1
      BY <2>2, <1>1
    <3>1. PICK m \in 1 .. b : m = i - f /\ i + 1 = (f + m) + 1 /\ g[i] = (f + m) + 1 /\ i + 1 \in 1 .. n + 1
      BY <3>0, <3>2
    <3>3. t[i] = back[m] /\ queue[g[i]] = back[m]
      BY <2>2, <3>1, <1>4, <1>5
    <3> QED  BY <2>2, <3>1, <3>2, <3>3, <1>4
  <2> QED  BY <2>1, <2>2
<1> HIDE DEF g
<1>8. \A i \in 1 .. n : g[i] \in P
  BY <1>2, <1>6, <1>7
<1>9. g \in [1 .. n -> P]
  BY <1>8 DEF g
<1>10. ASSUME NEW k \in P
       PROVE  \E i \in 1 .. n : g[i] = k
  <2>1. k \in 1 .. n + 1 /\ queue[k].order_id # id
    BY <1>2, <1>6
  <2>2. k # f + 1
    BY <2>1, <1>5
  <2>3. CASE k <= f
    <3>1. k \in 1 .. n
      BY <2>1, <2>3, <1>1
    <3> QED  BY <2>3, <3>1, <1>7
  <2>4. CASE k > f + 1
    <3>1. k - 1 \in 1 .. n /\ ~ (k - 1 <= f) /\ (k - 1) + 1 = k
      BY <2>1, <2>4, <1>1
    <3> QED  BY <3>1, <1>7
  <2> QED  BY <2>1, <2>2, <2>3, <2>4
<1>11. ASSUME NEW i \in 1 .. n, NEW j \in 1 .. n, i < j
       PROVE  g[i] < g[j]
  <2>1. g[i] = (IF i <= f THEN i ELSE i + 1) /\ g[j] = IF j <= f THEN j ELSE j + 1
    BY <1>7
  <2> QED  BY <2>1, <1>11
<1>12. At(queue, P) = t
  <2>1. P \in SUBSET DOMAIN queue
    BY <1>2
  <2>2. \A i \in 1 .. Len(t) : t[i] = queue[g[i]]
    BY <1>4, <1>7
  <2>3. g \in [1 .. Len(t) -> P]
    BY <1>4, <1>9
  <2>6. \A k \in P : \E i \in 1 .. Len(t) : g[i] = k
    BY <1>4, <1>10
  <2>4. \A i, j \in 1 .. Len(t) : i < j => g[i] < g[j]
    BY <1>4, <1>11
  <2>5. queue \in Seq(LimitOrder) /\ t \in Seq(LimitOrder)
    BY <1>4, <1>5
  <2>7. PicksAt(queue, P, t, g)
    BY <2>2, <2>3, <2>4, <2>6 DEF PicksAt
  <2> QED  BY ONLY <2>1, <2>5, <2>7, AtIs
<1>13. Others(queue, id) = P
  BY <1>2 DEF Others
<1> QED  BY <1>3, <1>12, <1>13 DEF JoinedFrom

(* What holds of the members of both parts holds of those of the whole.    *)
LEMMA JoinAvoids ==
    ASSUME NEW S, NEW front \in Seq(S), NEW back \in Seq(S), NEW id,
           \A i \in DOMAIN front : front[i].order_id # id,
           \A i \in DOMAIN back : back[i].order_id # id,
           NEW all, all = front \o back
    PROVE  all \in Seq(S) /\ \A i \in DOMAIN all : all[i].order_id # id
<1>1. PICK a \in Nat, b \in Nat : a = Len(front) /\ b = Len(back)
  OBVIOUS
<1>2. /\ all \in Seq(S) /\ DOMAIN all = 1 .. a + b
      /\ DOMAIN front = 1 .. a /\ DOMAIN back = 1 .. b
      /\ \A i \in 1 .. a + b : all[i] = IF i <= a THEN front[i] ELSE back[i - a]
  BY <1>1, JoinOf
<1>3. ASSUME NEW i \in DOMAIN all
      PROVE  all[i].order_id # id
  <2>0. i \in 1 .. a + b
    BY <1>2
  <2>1. CASE i <= a
    <3>1. i \in DOMAIN front /\ all[i] = front[i]
      BY <2>0, <2>1, <1>2
    <3> QED  BY <3>1
  <2>2. CASE ~ (i <= a)
    <3>1. i - a \in DOMAIN back /\ all[i] = back[i - a]
      BY <2>0, <2>2, <1>2
    <3> QED  BY <3>1
  <2> QED  BY <2>1, <2>2
<1> QED  BY <1>2, <1>3
===============================================================================
