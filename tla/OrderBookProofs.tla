---------------------------- MODULE OrderBookProofs ----------------------------
(***************************************************************************)
(* Proofs about OrderBook, for every set of ids, prices and quantities.    *)
(* IInv is the inductive invariant.  LocatorExact needs LevelsSound (the   *)
(* popped maker is the one the locator knows) and IncomingNotResting (the  *)
(* remainder that rests is new to it).  NeverCrossed needs BestExists:     *)
(* place_limit leaves its loop after a look at one best price only.        *)
(*                                                                         *)
(* The second half proves that OrderBook implements PriceTimePriority.     *)
(* RInv adds to IInv that the maps are finite, as a BTreeMap is, so that   *)
(* Flatten is the join of all levels.  A round of the loops then stutters: *)
(* the order it leaves, placed on the queues it leaves, makes of the book  *)
(* and returns what the order it found makes of the queues it found.       *)
(***************************************************************************)
EXTENDS OrderBookRefinement, MatchingProofs

(* A side that has a level has a best one (a BTreeMap is finite; Prices    *)
(* need not be).                                                           *)
BestExists ==
    \A side \in Sides :
        DOMAIN levels[side] # {} => \E price \in DOMAIN levels[side] : IsBest(side, price)

(* The remainder that rests is new to the locator.                         *)
IncomingNotResting == ~ Idle => incoming.order_id \notin DOMAIN order_locator

BookInv == BookTypeOK /\ LevelsSound /\ LocatorExact

IInv == TypeOK /\ LevelsSound /\ LocatorExact /\ IncomingNotResting
            /\ NeverCrossed /\ BestExists

-------------------------------------------------------------------------------
(* Greatest elements.                                                      *)

(* A set of prices with an upper bound has a greatest one.                 *)
LEMMA GreatestExists ==
    ASSUME NEW S \in SUBSET Nat, S # {}, NEW bound \in Nat, \A n \in S : n <= bound
    PROVE  \E greatest \in S : \A n \in S : n <= greatest
<1> DEFINE Gaps == {k \in Nat : bound - k \in S}
<1>1. Gaps \in SUBSET Nat /\ Gaps # {}
  <2>1. PICK n \in S : TRUE
    OBVIOUS
  <2>2. n \in Nat /\ n <= bound
    BY <2>1
  <2>3. bound - n \in Nat /\ bound - (bound - n) = n
    BY <2>2
  <2> QED  BY <2>1, <2>3
<1>2. PICK gap \in Gaps : \A k \in Gaps : gap <= k
  BY <1>1, LeastMember
<1>3. ASSUME NEW n \in S PROVE n <= bound - gap
  <2>1. bound - n \in Nat /\ bound - (bound - n) = n
    BY <1>3
  <2>2. bound - n \in Gaps
    BY <2>1, <1>3
  <2>3. gap <= bound - n /\ gap \in Nat /\ n \in Nat
    BY <1>2, <2>2, <1>3
  <2> HIDE DEF Gaps
  <2> QED  BY <2>3
<1>4. bound - gap \in S
  BY <1>2
<1> QED  BY <1>3, <1>4

-------------------------------------------------------------------------------
(* Maps and levels.                                                        *)

(* Removing a key keeps the other entries.                                 *)
LEMMA WithoutProperties ==
    ASSUME NEW map, NEW key
    PROVE  /\ DOMAIN Without(map, key) = DOMAIN map \ {key}
           /\ \A k \in DOMAIN map \ {key} : Without(map, key)[k] = map[k]
BY DEF Without

(* Setting a key keeps the other entries.                                  *)
LEMMA WithProperties ==
    ASSUME NEW map, NEW key, NEW value
    PROVE  /\ DOMAIN With(map, key, value) = DOMAIN map \cup {key}
           /\ With(map, key, value)[key] = value
           /\ \A k \in DOMAIN map \ {key} : With(map, key, value)[k] = map[k]
BY DEF With

(* A level that becomes `queue` is a key iff queue is not empty.           *)
LEMMA SetLevelProperties ==
    ASSUME NEW map, NEW price, NEW queue
    PROVE  /\ DOMAIN SetLevel(map, price, queue) =
                 IF queue = << >> THEN DOMAIN map \ {price} ELSE DOMAIN map \cup {price}
           /\ \A p \in DOMAIN SetLevel(map, price, queue) :
                 SetLevel(map, price, queue)[p] = IF p = price THEN queue ELSE map[p]
BY DEF SetLevel, With, Without

(* Map typing is preserved.                                                *)
LEMMA MapTyping ==
    ASSUME NEW map, NEW K, NEW V, IsMap(map, K, V), NEW key
    PROVE  /\ IsMap(Without(map, key), K, V)
           /\ key \in K => \A value \in V : IsMap(With(map, key, value), K, V)
           /\ key \in K => \A queue \in V : IsMap(SetLevel(map, key, queue), K, V)
BY DEF IsMap, Without, With, SetLevel

-------------------------------------------------------------------------------
(* The three ways a call changes one level.                                *)

(* Only the level at (side, price) changes.                                *)
LEMMA LevelsAfter ==
    ASSUME BookTypeOK,
           NEW side \in Sides, NEW price \in Prices, NEW queue \in Seq(RestingOrders),
           levels' = [levels EXCEPT ![side] = SetLevel(@, price, queue)]
    PROVE  /\ levels' = [s \in Sides |-> levels'[s]]
           /\ \A s \in Sides : IsMap(levels'[s], Prices, Seq(RestingOrders))
           /\ \A s \in Sides \ {side} : levels'[s] = levels[s]
           /\ \A p \in DOMAIN levels'[side] :
                 levels'[side][p] = IF p = price THEN queue ELSE levels[side][p]
           /\ DOMAIN levels'[side] = IF queue = << >> THEN DOMAIN levels[side] \ {price}
                                     ELSE DOMAIN levels[side] \cup {price}
<1>1. levels'[side] = SetLevel(levels[side], price, queue)
  BY DEF BookTypeOK
<1>2. levels' = [s \in Sides |-> levels'[s]] /\ \A s \in Sides \ {side} : levels'[s] = levels[s]
  BY DEF BookTypeOK
<1>3. IsMap(levels'[side], Prices, Seq(RestingOrders))
  BY <1>1, MapTyping DEF BookTypeOK
<1>4. \A s \in Sides : IsMap(levels'[s], Prices, Seq(RestingOrders))
  BY <1>2, <1>3 DEF BookTypeOK
<1>5. /\ \A p \in DOMAIN levels'[side] :
            levels'[side][p] = IF p = price THEN queue ELSE levels[side][p]
      /\ DOMAIN levels'[side] = IF queue = << >> THEN DOMAIN levels[side] \ {price}
                                ELSE DOMAIN levels[side] \cup {price}
  <2> DEFINE before == levels[side]
             after  == levels'[side]
  <2>1. after = SetLevel(before, price, queue)
    BY <1>1
  <2> HIDE DEF before, after
  <2>2. DOMAIN after = IF queue = << >> THEN DOMAIN before \ {price}
                       ELSE DOMAIN before \cup {price}
    BY ONLY <2>1, SetLevelProperties
  <2>3. \A p \in DOMAIN after : after[p] = IF p = price THEN queue ELSE before[p]
    <3>1. CASE queue = << >>
      BY ONLY <2>1, <3>1 DEF SetLevel, Without
    <3>2. CASE queue # << >>
      BY ONLY <2>1, <3>2 DEF SetLevel, With
    <3> QED  BY <3>1, <3>2
  <2> QED  BY <2>2, <2>3 DEF before, after
<1> QED  BY <1>2, <1>4, <1>5

(* Changing a level that is there adds no level.                           *)
LEMMA NoLevelAdded ==
    ASSUME BookTypeOK,
           NEW side \in Sides, NEW price \in DOMAIN levels[side], NEW queue \in Seq(RestingOrders),
           levels' = [levels EXCEPT ![side] = SetLevel(@, price, queue)]
    PROVE  \A s \in Sides : DOMAIN levels'[s] \subseteq DOMAIN levels[s]
<1>1. price \in Prices
  BY DEF BookTypeOK, IsMap
<1>2. /\ \A s \in Sides \ {side} : levels'[s] = levels[s]
      /\ DOMAIN levels'[side] = IF queue = << >> THEN DOMAIN levels[side] \ {price}
                                ELSE DOMAIN levels[side] \cup {price}
  BY <1>1, LevelsAfter
<1> QED  BY <1>2

(* An order leaves its level and the locator (a filled maker, a cancel).   *)
LEMMA RemovalKeepsBook ==
    ASSUME BookInv,
           NEW side \in Sides, NEW price \in DOMAIN levels[side],
           NEW pos \in 1 .. Len(levels[side][price]), NEW queue \in Seq(RestingOrders),
           Len(queue) = Len(levels[side][price]) - 1,
           \A j \in 1 .. Len(queue) :
               queue[j] = levels[side][price][IF j < pos THEN j ELSE j + 1],
           levels' = [levels EXCEPT ![side] = SetLevel(@, price, queue)],
           order_locator' = Without(order_locator, levels[side][price][pos].order_id)
    PROVE  BookInv'
<1> DEFINE old == levels[side][price]
           id  == old[pos].order_id
           was(j) == IF j < pos THEN j ELSE j + 1
<1>1. /\ price \in Prices /\ old \in Seq(RestingOrders)
      /\ BookTypeOK /\ LevelsSound /\ EveryOrderLocated /\ EveryOrderOnce /\ EveryLocatedRests
  BY DEF BookInv, BookTypeOK, IsMap, LocatorExact
<1>2. /\ levels' = [s \in Sides |-> levels'[s]]
      /\ \A s \in Sides : IsMap(levels'[s], Prices, Seq(RestingOrders))
      /\ \A s \in Sides \ {side} : levels'[s] = levels[s]
      /\ \A p \in DOMAIN levels'[side] :
            levels'[side][p] = IF p = price THEN queue ELSE levels[side][p]
      /\ DOMAIN levels'[side] = IF queue = << >> THEN DOMAIN levels[side] \ {price}
                                ELSE DOMAIN levels[side] \cup {price}
  BY <1>1, LevelsAfter
<1>3. /\ DOMAIN order_locator' = DOMAIN order_locator \ {id}
      /\ \A k \in DOMAIN order_locator \ {id} : order_locator'[k] = order_locator[k]
      /\ IsMap(order_locator', OrderIds, Sides \X Prices)
  <2> HIDE DEF id
  <2>1. order_locator' = Without(order_locator, id)
    BY DEF id
  <2>2. IsMap(order_locator, OrderIds, Sides \X Prices)
    BY <1>1 DEF BookTypeOK
  <2>3. IsMap(order_locator', OrderIds, Sides \X Prices)
    BY ONLY <2>1, <2>2, MapTyping
  <2>4. /\ DOMAIN order_locator' = DOMAIN order_locator \ {id}
        /\ \A k \in DOMAIN order_locator \ {id} : order_locator'[k] = order_locator[k]
    BY ONLY <2>1, WithoutProperties
  <2> QED  BY <2>3, <2>4
<1>4. /\ Len(queue) \in Nat /\ Len(old) \in Nat
      /\ DOMAIN queue = 1 .. Len(queue) /\ DOMAIN old = 1 .. Len(old)
  BY <1>1, LenProperties
<1>5. \A j \in DOMAIN queue : was(j) \in DOMAIN old /\ was(j) # pos /\ queue[j] = old[was(j)]
  BY <1>4
<1>6. \A i \in DOMAIN old : i # pos => \E j \in DOMAIN queue : was(j) = i
  <2> SUFFICES ASSUME NEW i \in DOMAIN old, i # pos
               PROVE  \E j \in DOMAIN queue : was(j) = i
    OBVIOUS
  <2>1. CASE i < pos
    BY <2>1, <1>4
  <2>2. CASE i > pos
    <3>1. i - 1 \in DOMAIN queue /\ ~ (i - 1 < pos) /\ (i - 1) + 1 = i
      BY <2>2, <1>4
    <3> QED  BY <3>1
  <2> QED  BY <2>1, <2>2, <1>4
<1>7. \A j, k \in DOMAIN queue : was(j) = was(k) => j = k
  BY <1>4
<1> HIDE DEF was
<1>8. BookTypeOK'
  BY <1>2, <1>3 DEF BookTypeOK
<1>9. \A s \in Sides : \A p \in DOMAIN levels'[s] :
         /\ p \in DOMAIN levels[s]
         /\ (s # side \/ p # price) => levels'[s][p] = levels[s][p]
         /\ (s = side /\ p = price) => levels'[s][p] = queue
  BY <1>2
<1>10. LevelsSound'
  <2> SUFFICES ASSUME NEW s \in Sides, NEW p \in DOMAIN levels'[s]
               PROVE  /\ levels'[s][p] # << >>
                      /\ \A i \in DOMAIN levels'[s][p] :
                            levels'[s][p][i].side = s /\ levels'[s][p][i].price = p
    BY DEF LevelsSound
  <2>1. CASE s = side /\ p = price
    <3>1. queue # << >>
      BY <2>1, <1>2
    <3>2. \A i \in DOMAIN old : old[i].side = side /\ old[i].price = price
      BY <1>1 DEF LevelsSound
    <3>3. levels'[s][p] = queue
      BY <2>1, <1>9
    <3>4. \A i \in DOMAIN queue : queue[i].side = side /\ queue[i].price = price
      <4> HIDE DEF old
      <4> QED  BY <3>2, <1>5
    <3> QED  BY ONLY <2>1, <3>1, <3>3, <3>4
  <2>2. CASE s # side \/ p # price
    BY <2>2, <1>1, <1>9 DEF LevelsSound
  <2> QED  BY <2>1, <2>2
<1>11. EveryOrderOnce'
  <2> SUFFICES ASSUME NEW s \in Sides, NEW p \in DOMAIN levels'[s],
                      NEW i \in DOMAIN levels'[s][p], NEW j \in DOMAIN levels'[s][p],
                      levels'[s][p][i].order_id = levels'[s][p][j].order_id
               PROVE  i = j
    BY DEF EveryOrderOnce
  <2>1. CASE s = side /\ p = price
    <3>1. was(i) = was(j)
      BY <2>1, <1>1, <1>5, <1>9 DEF EveryOrderOnce
    <3> QED  BY <3>1, <2>1, <1>7, <1>9
  <2>2. CASE s # side \/ p # price
    BY <2>2, <1>1, <1>9 DEF EveryOrderOnce
  <2> QED  BY <2>1, <2>2
<1>12. EveryOrderLocated'
  <2> SUFFICES ASSUME NEW s \in Sides, NEW p \in DOMAIN levels'[s],
                      NEW i \in DOMAIN levels'[s][p]
               PROVE  /\ levels'[s][p][i].order_id \in DOMAIN order_locator'
                      /\ order_locator'[levels'[s][p][i].order_id] = <<s, p>>
    BY DEF EveryOrderLocated
  <2>1. id \in DOMAIN order_locator /\ order_locator[id] = <<side, price>>
    BY <1>1, <1>4 DEF EveryOrderLocated
  <2>2. CASE s = side /\ p = price
    <3>1. i \in DOMAIN queue /\ levels'[s][p] = queue
      BY <2>2, <1>9
    <3>2. was(i) \in DOMAIN old /\ was(i) # pos /\ queue[i] = old[was(i)]
      BY <3>1, <1>5
    <3>3. \A m, n \in DOMAIN old : old[m].order_id = old[n].order_id => m = n
      BY <1>1 DEF EveryOrderOnce
    <3>4. old[was(i)].order_id # id
      BY <3>2, <3>3, <1>4
    <3>5. old[was(i)].order_id \in DOMAIN order_locator
          /\ order_locator[old[was(i)].order_id] = <<side, price>>
      BY <3>2, <1>1 DEF EveryOrderLocated
    <3> HIDE DEF id, old
    <3> QED  BY <2>2, <3>1, <3>2, <3>4, <3>5, <1>3
  <2>3. CASE s # side \/ p # price
    <3>1. levels[s][p][i].order_id \in DOMAIN order_locator
          /\ order_locator[levels[s][p][i].order_id] = <<s, p>>
      BY <2>3, <1>1, <1>9 DEF EveryOrderLocated
    <3>2. levels[s][p][i].order_id # id
      BY <2>1, <2>3, <3>1
    <3>3. levels'[s][p] = levels[s][p]
      BY <2>3, <1>9
    <3> HIDE DEF id, old
    <3> QED  BY <3>1, <3>2, <3>3, <1>3
  <2> QED  BY <2>2, <2>3
<1>13. EveryLocatedRests'
  <2> SUFFICES ASSUME NEW k \in DOMAIN order_locator'
               PROVE  LET s == order_locator'[k][1]  p == order_locator'[k][2]
                      IN  /\ p \in DOMAIN levels'[s]
                          /\ \E i \in DOMAIN levels'[s][p] : levels'[s][p][i].order_id = k
    BY DEF EveryLocatedRests
  <2> DEFINE s == order_locator[k][1]
             p == order_locator[k][2]
  <2>1. k \in DOMAIN order_locator /\ k # id /\ order_locator'[k] = order_locator[k]
    BY <1>3
  <2>2. PICK i \in DOMAIN levels[s][p] : levels[s][p][i].order_id = k
    BY <2>1, <1>1 DEF EveryLocatedRests
  <2>3. s \in Sides /\ p \in DOMAIN levels[s]
    BY <2>1, <1>1 DEF EveryLocatedRests, BookTypeOK, IsMap
  <2> HIDE DEF s, p
  <2>4. CASE s = side /\ p = price
    <3>1. PICK j \in DOMAIN queue : was(j) = i
      BY <2>1, <2>2, <2>4, <1>6
    <3>2. queue # << >>
      BY <3>1, <1>4
    <3>3. price \in DOMAIN levels'[side] /\ levels'[side][price] = queue
      BY <3>2, <1>2
    <3> QED  BY <3>1, <3>3, <2>1, <2>2, <2>4, <1>5 DEF s, p
  <2>5. CASE s # side \/ p # price
    <3>1. p \in DOMAIN levels'[s] /\ levels'[s][p] = levels[s][p]
      BY <2>3, <2>5, <1>2
    <3> QED  BY <3>1, <2>1, <2>2 DEF s, p
  <2> QED  BY <2>4, <2>5
<1> QED  BY <1>8, <1>10, <1>11, <1>12, <1>13 DEF BookInv, LocatorExact

(* A maker keeps its place with fewer lots.                                *)
LEMMA ReductionKeepsBook ==
    ASSUME BookInv,
           NEW side \in Sides, NEW price \in DOMAIN levels[side],
           NEW queue \in Seq(RestingOrders),
           Len(queue) = Len(levels[side][price]),
           \A j \in 1 .. Len(queue) :
               /\ queue[j].order_id = levels[side][price][j].order_id
               /\ queue[j].side = levels[side][price][j].side
               /\ queue[j].price = levels[side][price][j].price,
           levels' = [levels EXCEPT ![side] = SetLevel(@, price, queue)],
           order_locator' = order_locator
    PROVE  BookInv'
<1> DEFINE old == levels[side][price]
<1>1. /\ price \in Prices /\ old \in Seq(RestingOrders)
      /\ BookTypeOK /\ LevelsSound /\ EveryOrderLocated /\ EveryOrderOnce /\ EveryLocatedRests
  BY DEF BookInv, BookTypeOK, IsMap, LocatorExact
<1>2. /\ Len(queue) \in Nat /\ Len(old) \in Nat /\ DOMAIN queue = DOMAIN old
      /\ DOMAIN queue = 1 .. Len(queue)
  BY <1>1, LenProperties
<1>3. queue # << >>
  <2>1. old # << >>
    BY <1>1 DEF LevelsSound
  <2> QED  BY <2>1, <1>1, <1>2, EmptySeq
<1>4. /\ levels' = [s \in Sides |-> levels'[s]]
      /\ \A s \in Sides : IsMap(levels'[s], Prices, Seq(RestingOrders))
      /\ \A s \in Sides \ {side} : levels'[s] = levels[s]
      /\ \A p \in DOMAIN levels'[side] :
            levels'[side][p] = IF p = price THEN queue ELSE levels[side][p]
      /\ DOMAIN levels'[side] = IF queue = << >> THEN DOMAIN levels[side] \ {price}
                                ELSE DOMAIN levels[side] \cup {price}
  <2>1. levels' = [levels EXCEPT ![side] = SetLevel(@, price, queue)]
    OBVIOUS
  <2>2. side \in Sides /\ price \in Prices /\ queue \in Seq(RestingOrders)
    BY <1>1
  <2> QED  BY ONLY <1>1, <2>1, <2>2, LevelsAfter
<1>5. \A s \in Sides : DOMAIN levels'[s] = DOMAIN levels[s]
  BY <1>3, <1>4
<1>6. \A s \in Sides : \A p \in DOMAIN levels[s] :
         /\ DOMAIN levels'[s][p] = DOMAIN levels[s][p]
         /\ \A i \in DOMAIN levels[s][p] :
               /\ levels'[s][p][i].order_id = levels[s][p][i].order_id
               /\ levels'[s][p][i].side = levels[s][p][i].side
               /\ levels'[s][p][i].price = levels[s][p][i].price
  <2> SUFFICES ASSUME NEW s \in Sides, NEW p \in DOMAIN levels[s]
               PROVE  /\ DOMAIN levels'[s][p] = DOMAIN levels[s][p]
                      /\ \A i \in DOMAIN levels[s][p] :
                            /\ levels'[s][p][i].order_id = levels[s][p][i].order_id
                            /\ levels'[s][p][i].side = levels[s][p][i].side
                            /\ levels'[s][p][i].price = levels[s][p][i].price
    OBVIOUS
  <2>1. CASE s = side /\ p = price
    <3>1. levels'[s][p] = queue
      BY <2>1, <1>4, <1>5
    <3> QED  BY <3>1, <2>1, <1>2
  <2>2. CASE s # side \/ p # price
    <3>1. levels'[s][p] = levels[s][p]
      BY <2>2, <1>4, <1>5
    <3> QED  BY <3>1
  <2> QED  BY <2>1, <2>2
<1>7. BookTypeOK'
  BY <1>1, <1>4 DEF BookTypeOK
<1>8. LevelsSound'
  <2>1. \A s \in Sides : \A p \in DOMAIN levels[s] : levels'[s][p] # << >>
    BY <1>1, <1>3, <1>4, <1>5 DEF LevelsSound
  <2> QED  BY <2>1, <1>1, <1>5, <1>6 DEF LevelsSound
<1>9. EveryOrderLocated'
  BY <1>1, <1>5, <1>6 DEF EveryOrderLocated
<1>10. EveryOrderOnce'
  BY <1>1, <1>5, <1>6 DEF EveryOrderOnce
<1>11. EveryLocatedRests'
  <2> SUFFICES ASSUME NEW k \in DOMAIN order_locator
               PROVE  /\ order_locator[k][2] \in DOMAIN levels'[order_locator[k][1]]
                      /\ \E i \in DOMAIN levels'[order_locator[k][1]][order_locator[k][2]] :
                            levels'[order_locator[k][1]][order_locator[k][2]][i].order_id = k
    BY DEF EveryLocatedRests
  <2> DEFINE s == order_locator[k][1]
             p == order_locator[k][2]
  <2>1. s \in Sides
    BY <1>1 DEF BookTypeOK, IsMap
  <2>2. p \in DOMAIN levels[s] /\ \E i \in DOMAIN levels[s][p] : levels[s][p][i].order_id = k
    BY <1>1 DEF EveryLocatedRests
  <2> HIDE DEF s, p
  <2>3. p \in DOMAIN levels'[s] /\ \E i \in DOMAIN levels'[s][p] : levels'[s][p][i].order_id = k
    BY ONLY <2>1, <2>2, <1>5, <1>6
  <2> QED  BY <2>3 DEF s, p
<1> QED  BY <1>7, <1>8, <1>9, <1>10, <1>11 DEF BookInv, LocatorExact

(* The remainder of an order rests behind its level and is located.        *)
LEMMA RestingKeepsBook ==
    ASSUME BookInv,
           NEW order \in RestingOrders, order.order_id \notin DOMAIN order_locator,
           levels' = [levels EXCEPT ![order.side] =
               SetLevel(@, order.price, Append(LevelAt(order.side, order.price), order))],
           order_locator' = With(order_locator, order.order_id, <<order.side, order.price>>)
    PROVE  BookInv'
<1> DEFINE side  == order.side
           price == order.price
           id    == order.order_id
           old   == LevelAt(side, price)
           queue == Append(old, order)
<1>1. /\ BookTypeOK /\ LevelsSound /\ EveryOrderLocated /\ EveryOrderOnce /\ EveryLocatedRests
      /\ side \in Sides /\ price \in Prices /\ id \in OrderIds
  BY DEF BookInv, LocatorExact, RestingOrders, LimitOrder
<1>2. old \in Seq(RestingOrders)
  BY <1>1 DEF LevelAt, BookTypeOK, IsMap
<1>3. /\ queue \in Seq(RestingOrders) /\ queue # << >> /\ Len(old) \in Nat
      /\ DOMAIN old = 1 .. Len(old) /\ DOMAIN queue = 1 .. (Len(old) + 1)
      /\ \A i \in DOMAIN old : queue[i] = old[i]
      /\ queue[Len(old) + 1] = order
  <2> HIDE DEF old
  <2> QED  BY <1>2, AppendProperties, LenProperties
<1>4. levels' = [levels EXCEPT ![side] = SetLevel(@, price, queue)]
  OBVIOUS
<1> HIDE DEF queue
<1>5. /\ levels' = [s \in Sides |-> levels'[s]]
      /\ \A s \in Sides : IsMap(levels'[s], Prices, Seq(RestingOrders))
      /\ \A s \in Sides \ {side} : levels'[s] = levels[s]
      /\ \A p \in DOMAIN levels'[side] :
            levels'[side][p] = IF p = price THEN queue ELSE levels[side][p]
      /\ DOMAIN levels'[side] = IF queue = << >> THEN DOMAIN levels[side] \ {price}
                                ELSE DOMAIN levels[side] \cup {price}
  <2> HIDE DEF side, price, old
  <2>1. BookTypeOK /\ side \in Sides /\ price \in Prices /\ queue \in Seq(RestingOrders)
    BY <1>1, <1>3
  <2> QED  BY ONLY <2>1, <1>4, LevelsAfter
<1>6. /\ DOMAIN order_locator' = DOMAIN order_locator \cup {id}
      /\ order_locator'[id] = <<side, price>>
      /\ \A k \in DOMAIN order_locator : order_locator'[k] = order_locator[k]
      /\ IsMap(order_locator', OrderIds, Sides \X Prices)
  <2> DEFINE place == <<side, price>>
  <2> HIDE DEF id, place
  <2>1. order_locator' = With(order_locator, id, place) /\ id \notin DOMAIN order_locator
    BY DEF id, place
  <2>2. IsMap(order_locator, OrderIds, Sides \X Prices) /\ place \in Sides \X Prices
    BY <1>1 DEF BookTypeOK, place
  <2>3. IsMap(order_locator', OrderIds, Sides \X Prices)
    BY ONLY <2>1, <2>2, <1>1, MapTyping
  <2>4. /\ DOMAIN order_locator' = DOMAIN order_locator \cup {id}
        /\ order_locator'[id] = place
        /\ \A k \in DOMAIN order_locator \ {id} : order_locator'[k] = order_locator[k]
    BY ONLY <2>1 DEF With
  <2> QED  BY <2>1, <2>3, <2>4 DEF place
<1>7. /\ \A i \in DOMAIN old : price \in DOMAIN levels[side] /\ old = levels[side][price]
      /\ price \in DOMAIN levels[side] => old = levels[side][price]
  BY <1>3 DEF LevelAt
<1>8. /\ price \in DOMAIN levels'[side] /\ levels'[side][price] = queue
      /\ \A s \in Sides : \A p \in DOMAIN levels'[s] :
            (s # side \/ p # price) => p \in DOMAIN levels[s] /\ levels'[s][p] = levels[s][p]
      /\ \A s \in Sides : DOMAIN levels[s] \subseteq DOMAIN levels'[s]
  BY <1>1, <1>3, <1>5
<1> HIDE DEF old
<1>9. BookTypeOK'
  BY <1>5, <1>6 DEF BookTypeOK
<1>10. \A i \in DOMAIN queue : i \in DOMAIN old \/ i = Len(old) + 1
  BY <1>3
<1>11. LevelsSound'
  <2> SUFFICES ASSUME NEW s \in Sides, NEW p \in DOMAIN levels'[s]
               PROVE  /\ levels'[s][p] # << >>
                      /\ \A i \in DOMAIN levels'[s][p] :
                            levels'[s][p][i].side = s /\ levels'[s][p][i].price = p
    BY DEF LevelsSound
  <2>1. CASE s = side /\ p = price
    <3>1. \A i \in DOMAIN old : old[i].side = side /\ old[i].price = price
      BY <1>1, <1>7 DEF LevelsSound
    <3> QED  BY <2>1, <3>1, <1>3, <1>8, <1>10
  <2>2. CASE s # side \/ p # price
    BY <2>2, <1>1, <1>8 DEF LevelsSound
  <2> QED  BY <2>1, <2>2
<1>12. \A i \in DOMAIN old : /\ old[i].order_id \in DOMAIN order_locator
                             /\ order_locator[old[i].order_id] = <<side, price>>
  BY <1>1, <1>7 DEF EveryOrderLocated
<1>13. EveryOrderLocated'
  <2> SUFFICES ASSUME NEW s \in Sides, NEW p \in DOMAIN levels'[s],
                      NEW i \in DOMAIN levels'[s][p]
               PROVE  /\ levels'[s][p][i].order_id \in DOMAIN order_locator'
                      /\ order_locator'[levels'[s][p][i].order_id] = <<s, p>>
    BY DEF EveryOrderLocated
  <2>1. CASE s = side /\ p = price
    <3> HIDE DEF side, price, id
    <3>1. levels'[s][p] = queue
      BY <2>1, <1>8
    <3>2. CASE i \in DOMAIN old
      <4>1. levels'[s][p][i] = old[i]
        BY <3>1, <3>2, <1>3
      <4>2. old[i].order_id \in DOMAIN order_locator
            /\ order_locator[old[i].order_id] = <<side, price>>
        BY <3>2, <1>12
      <4> QED  BY ONLY <2>1, <4>1, <4>2, <1>6
    <3>3. CASE i = Len(old) + 1
      BY <2>1, <3>1, <3>3, <1>3, <1>6 DEF id
    <3> QED  BY <3>1, <3>2, <3>3, <1>10
  <2>2. CASE s # side \/ p # price
    <3>1. p \in DOMAIN levels[s] /\ levels'[s][p] = levels[s][p]
      BY <2>2, <1>8
    <3>2. levels[s][p][i].order_id \in DOMAIN order_locator
          /\ order_locator[levels[s][p][i].order_id] = <<s, p>>
      BY <3>1, <1>1 DEF EveryOrderLocated
    <3> HIDE DEF side, price, id
    <3> QED  BY <3>1, <3>2, <1>6
  <2> QED  BY <2>1, <2>2
<1>14. EveryOrderOnce'
  <2> SUFFICES ASSUME NEW s \in Sides, NEW p \in DOMAIN levels'[s],
                      NEW i \in DOMAIN levels'[s][p], NEW j \in DOMAIN levels'[s][p],
                      levels'[s][p][i].order_id = levels'[s][p][j].order_id
               PROVE  i = j
    BY DEF EveryOrderOnce
  <2>1. CASE s = side /\ p = price
    <3>1. levels'[s][p] = queue
      BY <2>1, <1>8
    <3>2. \A k \in DOMAIN old : old[k].order_id # id
      BY <1>12
    <3>3. \A k, m \in DOMAIN old : old[k].order_id = old[m].order_id => k = m
      BY <1>1, <1>7 DEF EveryOrderOnce
    <3>4. \A k \in DOMAIN queue :
             queue[k].order_id = IF k \in DOMAIN old THEN old[k].order_id ELSE id
      BY <1>3, <1>10
    <3>5. i \in DOMAIN queue /\ j \in DOMAIN queue /\ queue[i].order_id = queue[j].order_id
      BY <3>1
    <3> HIDE DEF id
    <3>6. CASE i \in DOMAIN old /\ j \in DOMAIN old
      BY ONLY <3>3, <3>4, <3>5, <3>6, SMTT(30)
    <3>7. CASE i \notin DOMAIN old \/ j \notin DOMAIN old
      <4>1. i \notin DOMAIN old /\ j \notin DOMAIN old
        BY ONLY <3>2, <3>4, <3>5, <3>7
      <4> QED  BY ONLY <4>1, <3>5, <1>10
    <3> QED  BY <3>6, <3>7
  <2>2. CASE s # side \/ p # price
    BY <2>2, <1>1, <1>8 DEF EveryOrderOnce
  <2> QED  BY <2>1, <2>2
<1>15. EveryLocatedRests'
  <2> SUFFICES ASSUME NEW k \in DOMAIN order_locator'
               PROVE  LET s == order_locator'[k][1]  p == order_locator'[k][2]
                      IN  /\ p \in DOMAIN levels'[s]
                          /\ \E i \in DOMAIN levels'[s][p] : levels'[s][p][i].order_id = k
    BY DEF EveryLocatedRests
  <2>1. CASE k = id
    <3>1. order_locator'[k] = <<side, price>>
      BY <2>1, <1>6
    <3>2. Len(old) + 1 \in DOMAIN queue /\ queue[Len(old) + 1].order_id = k
      BY <2>1, <1>3
    <3>3. price \in DOMAIN levels'[side] /\ levels'[side][price] = queue
      BY <1>8
    <3>4. order_locator'[k][1] = side /\ order_locator'[k][2] = price
      BY <3>1
    <3> HIDE DEF side, price, id, queue, old
    <3>5. \E i \in DOMAIN levels'[side][price] : levels'[side][price][i].order_id = k
      BY <3>2, <3>3
    <3> QED  BY <3>3, <3>4, <3>5
  <2>2. CASE k # id
    <3> DEFINE s == order_locator[k][1]
               p == order_locator[k][2]
    <3>1. k \in DOMAIN order_locator /\ order_locator'[k] = order_locator[k]
      BY <2>2, <1>6
    <3>2. PICK i \in DOMAIN levels[s][p] : levels[s][p][i].order_id = k
      BY <3>1, <1>1 DEF EveryLocatedRests
    <3>3. s \in Sides /\ p \in DOMAIN levels[s]
      BY <3>1, <1>1 DEF EveryLocatedRests, BookTypeOK, IsMap
    <3>4. p \in DOMAIN levels'[s]
      BY <3>3, <1>8
    <3>5. i \in DOMAIN levels'[s][p] /\ levels'[s][p][i] = levels[s][p][i]
      <4> HIDE DEF s, p
      <4>1. CASE s = side /\ p = price
        <5>1. old = levels[s][p] /\ levels'[s][p] = queue
          BY <4>1, <3>3, <1>7, <1>8
        <5> QED  BY <5>1, <3>2, <1>3
      <4>2. CASE s # side \/ p # price
        BY <4>2, <3>2, <3>3, <3>4, <1>8
      <4> QED  BY <4>1, <4>2
    <3> QED  BY <3>1, <3>2, <3>4, <3>5
  <2> QED  BY <2>1, <2>2
<1> QED  BY <1>9, <1>11, <1>13, <1>14, <1>15 DEF BookInv, LocatorExact

-------------------------------------------------------------------------------
(* Best prices.                                                            *)

(* A best price still exists after levels left and one may have come.      *)
LEMMA BestKept ==
    ASSUME BookTypeOK, BookTypeOK', BestExists, NEW new \in Prices,
           \A s \in Sides : DOMAIN levels'[s] \subseteq DOMAIN levels[s] \cup {new}
    PROVE  BestExists'
<1>1. \A s \in Sides : DOMAIN levels[s] \in SUBSET Nat /\ DOMAIN levels'[s] \in SUBSET Nat
  BY OrdersAssumption DEF BookTypeOK, IsMap
<1>2. ASSUME DOMAIN levels'["Ask"] # {}
      PROVE  \E price \in DOMAIN levels'["Ask"] : IsBest("Ask", price)'
  <2>1. DOMAIN levels'["Ask"] \in SUBSET Nat
    BY <1>1 DEF Sides
  <2>2. PICK least \in DOMAIN levels'["Ask"] : \A n \in DOMAIN levels'["Ask"] : least <= n
    BY <1>2, <2>1, LeastMember
  <2> QED  BY <2>1, <2>2 DEF IsBest, Better
<1>3. ASSUME DOMAIN levels'["Bid"] # {}
      PROVE  \E price \in DOMAIN levels'["Bid"] : IsBest("Bid", price)'
  <2>1. DOMAIN levels["Bid"] \in SUBSET Nat /\ DOMAIN levels'["Bid"] \in SUBSET Nat
        /\ DOMAIN levels'["Bid"] \subseteq DOMAIN levels["Bid"] \cup {new} /\ new \in Nat
    BY <1>1, OrdersAssumption DEF Sides
  <2>2. \E bound \in Nat : \A n \in DOMAIN levels'["Bid"] : n <= bound
    <3>1. CASE DOMAIN levels["Bid"] = {}
      BY <2>1, <3>1
    <3>2. CASE DOMAIN levels["Bid"] # {}
      <4>1. PICK best \in DOMAIN levels["Bid"] : IsBest("Bid", best)
        BY <3>2 DEF BestExists, Sides
      <4>2. \A n \in DOMAIN levels["Bid"] : n <= best
        BY <4>1, <2>1 DEF IsBest, Better
      <4>3. CASE best <= new
        <5>1. \A n \in DOMAIN levels'["Bid"] : n <= new
          BY <2>1, <4>2, <4>3
        <5> QED  BY <5>1, <2>1
      <4>4. CASE ~ (best <= new)
        <5>1. \A n \in DOMAIN levels'["Bid"] : n <= best
          BY <2>1, <4>2, <4>4
        <5> QED  BY <5>1, <2>1
      <4> QED  BY <4>3, <4>4
    <3> QED  BY <3>1, <3>2
  <2>3. PICK greatest \in DOMAIN levels'["Bid"] : \A n \in DOMAIN levels'["Bid"] : n <= greatest
    BY <1>3, <2>1, <2>2, GreatestExists
  <2> QED  BY <2>1, <2>3 DEF IsBest, Better
<1> QED  BY <1>2, <1>3 DEF BestExists, Sides

(* Leaving the loop: if the best price of the other side does not cross,   *)
(* no price of it does.                                                    *)
LEMMA BreaksMeansNoneCross ==
    ASSUME BookTypeOK, BestExists, incoming \in LimitOrder, Breaks
    PROVE  \A p \in DOMAIN levels[Opposite(incoming.side)] : ~ Crosses(incoming, p)
<1> DEFINE other == Opposite(incoming.side)
<1>1. other \in Sides /\ incoming.side \in Sides /\ incoming.price \in Nat
  BY OrdersAssumption DEF LimitOrder, Sides, Opposite
<1>2. DOMAIN levels[other] \subseteq Nat
  BY <1>1, OrdersAssumption DEF BookTypeOK, IsMap
<1> SUFFICES ASSUME NEW p \in DOMAIN levels[other]
             PROVE  ~ Crosses(incoming, p)
  OBVIOUS
<1>3. PICK best \in DOMAIN levels[other] : IsBest(other, best)
  BY <1>1 DEF BestExists
<1>4. ~ Crosses(incoming, best) /\ ~ Better(other, p, best)
  BY <1>3 DEF Breaks, IsBest
<1>5. p \in Nat /\ best \in Nat
  BY <1>2
<1>6. CASE incoming.side = "Bid"
  BY <1>1, <1>4, <1>5, <1>6 DEF Crosses, Better, Opposite
<1>7. CASE incoming.side = "Ask"
  BY <1>1, <1>4, <1>5, <1>7 DEF Crosses, Better, Opposite
<1> QED  BY <1>1, <1>6, <1>7 DEF Sides

-------------------------------------------------------------------------------
(* The invariant.                                                          *)

(* A step that leaves the book alone keeps what is said of the book alone. *)
LEMMA SameBook ==
    ASSUME IInv, UNCHANGED <<levels, order_locator>>
    PROVE  BookInv' /\ NeverCrossed' /\ BestExists'
<1>1. BookTypeOK'
  BY DEF IInv, TypeOK, BookTypeOK
<1>2. LevelsSound'
  BY DEF IInv, LevelsSound
<1>3. LocatorExact'
  BY DEF IInv, LocatorExact, EveryOrderLocated, EveryOrderOnce, EveryLocatedRests
<1>4. NeverCrossed'
  BY DEF IInv, NeverCrossed
<1>5. BestExists'
  BY DEF IInv, BestExists, IsBest
<1> QED  BY <1>1, <1>2, <1>3, <1>4, <1>5 DEF BookInv

(* The empty book satisfies the invariant.                                 *)
LEMMA InitInvariant == Init => IInv
<1> SUFFICES ASSUME Init PROVE IInv
  OBVIOUS
<1>1. DOMAIN levels["Bid"] = {} /\ DOMAIN levels["Ask"] = {} /\ DOMAIN order_locator = {}
  BY DEF Init, EmptyLevels, Sides
<1>2. BookTypeOK
  <2>1. levels = [side \in Sides |-> levels[side]]
    BY DEF Init, EmptyLevels
  <2>2. \A side \in Sides : levels[side] = << >>
    BY DEF Init, EmptyLevels
  <2>3. \A K, V : IsMap(<< >>, K, V)
    BY DEF IsMap
  <2> QED  BY <2>1, <2>2, <2>3 DEF Init, BookTypeOK
<1>3. TypeOK
  <2>1. reply \in Replies
    BY DEF Init, Replies
  <2>2. trades \in Seq(Trade)
    BY DEF Init
  <2> QED  BY <1>2, <2>1, <2>2 DEF Init, TypeOK, Idle
<1> QED  BY <1>1, <1>3 DEF Init, IInv, LevelsSound, LocatorExact, EveryOrderLocated,
            EveryOrderOnce, EveryLocatedRests, IncomingNotResting, NeverCrossed, BestExists,
            Idle, Sides

(* place_limit's checks leave the book alone and let in a fresh id only.   *)
LEMMA PlaceLimitInvariant ==
    ASSUME IInv, NEW order \in Submitted, PlaceLimit(order)
    PROVE  IInv'
<1>1. UNCHANGED <<levels, order_locator, trades>>
  BY DEF PlaceLimit
<1>2. BookInv' /\ NeverCrossed' /\ BestExists'
  BY <1>1, SameBook
<1>3. order \in LimitOrder
  BY OrdersAssumption DEF Submitted, LimitOrder
<1>4. TypeOK' /\ IncomingNotResting'
  <2>1. CASE PlaceError(order, Resting) = "None"
    <3>1. incoming' = order /\ UNCHANGED reply
      BY <2>1 DEF PlaceLimit
    <3>2. order.price # 0 /\ order.order_id \notin DOMAIN order_locator
      BY <2>1 DEF PlaceError, Resting
    <3>3. order.price > 0
      <4>1. order.price \in Nat
        BY <1>3, OrdersAssumption DEF LimitOrder
      <4> QED  BY <4>1, <3>2
    <3> QED  BY <1>1, <1>2, <1>3, <3>1, <3>2, <3>3 DEF IInv, TypeOK, BookInv, IncomingNotResting, Idle
  <2>2. CASE PlaceError(order, Resting) # "None"
    <3>1. incoming' = incoming /\ Idle /\ reply' = Failed(PlaceError(order, Resting))
      BY <2>2 DEF PlaceLimit
    <3>2. PlaceError(order, Resting) \in Errors
      BY <2>2 DEF PlaceError, Errors
    <3>3. reply' \in Replies
      BY <3>1, <3>2 DEF Replies
    <3> QED  BY <1>1, <1>2, <3>1, <3>3 DEF IInv, TypeOK, BookInv, IncomingNotResting, Idle
  <2> QED  BY <2>1, <2>2
<1> QED  BY <1>2, <1>4 DEF IInv, BookInv

(* What a loop step knows of the maker at the head of the best level.      *)
LEMMA MakerFacts ==
    ASSUME IInv, NEW price \in Prices, Matchable(price)
    PROVE  LET other == Opposite(incoming.side)  queue == levels[other][price]
           IN  /\ BookInv
               /\ incoming \in LimitOrder /\ incoming.quantity > 0
               /\ other \in Sides /\ price \in DOMAIN levels[other]
               /\ queue \in Seq(RestingOrders) /\ queue # << >>
               /\ Len(queue) \in Nat /\ DOMAIN queue = 1 .. Len(queue) /\ 1 \in DOMAIN queue
               /\ Head(queue) = queue[1] /\ Head(queue) \in RestingOrders
<1>1. incoming \in LimitOrder /\ incoming.quantity > 0
  BY DEF IInv, TypeOK, Matchable, Idle
<1>2. BookInv
  BY DEF IInv, TypeOK, BookInv
<1>3. Opposite(incoming.side) \in Sides /\ price \in DOMAIN levels[Opposite(incoming.side)]
  BY DEF Matchable, IsBest, Opposite, Sides
<1> DEFINE queue == levels[Opposite(incoming.side)][price]
<1>4. queue \in Seq(RestingOrders) /\ queue # << >>
  BY <1>2, <1>3 DEF BookInv, BookTypeOK, IsMap, LevelsSound
<1> HIDE DEF queue
<1>5. Len(queue) \in Nat /\ DOMAIN queue = 1 .. Len(queue) /\ 1 \in DOMAIN queue
  BY <1>4, EmptySeq, LenProperties
<1>6. Head(queue) = queue[1] /\ Head(queue) \in RestingOrders
  BY <1>4, <1>5, HeadTailProperties
<1> QED  BY <1>1, <1>2, <1>3, <1>4, <1>5, <1>6 DEF queue

(* What a loop step does to the call, whatever it does to the book.        *)
LEMMA MatchTyping ==
    ASSUME TypeOK, NEW price \in Prices, NEW maker \in RestingOrders, NEW fill \in Nat,
           ~ Idle, fill <= incoming.quantity, Match(price, maker, fill)
    PROVE  /\ incoming' \in LimitOrder /\ incoming' # NoOrder
           /\ incoming'.order_id = incoming.order_id /\ incoming'.price = incoming.price
           /\ incoming'.quantity = incoming.quantity - fill
           /\ trades' \in Seq(Trade)
           /\ reply' \in Replies
<1>1. incoming \in LimitOrder
  BY DEF TypeOK, Idle
<1>2. incoming.quantity - fill \in Nat
  BY <1>1 DEF LimitOrder
<1>3. incoming' = [incoming EXCEPT !.quantity = incoming.quantity - fill]
  BY DEF Match
<1>4. incoming' \in LimitOrder /\ incoming'.quantity = incoming.quantity - fill
      /\ incoming'.order_id = incoming.order_id /\ incoming'.price = incoming.price
  BY <1>1, <1>2, <1>3 DEF LimitOrder
<1>5. TradeOf(maker, incoming, price, fill) \in Trade
  BY <1>1 DEF TradeOf, Trade, RestingOrders, LimitOrder
<1>6. trades' \in Seq(Trade)
  <2>1. trades \in Seq(Trade) /\ trades' = Append(trades, TradeOf(maker, incoming, price, fill))
    BY DEF TypeOK, Match
  <2> QED  BY <2>1, <1>5, AppendProperties
<1>7. reply' \in Replies
  BY DEF TypeOK, Match
<1> QED  BY <1>4, <1>6, <1>7, OrderBookAssumption

(* A book whose levels only disappear stays uncrossed.                     *)
LEMMA ShrinkingStaysUncrossed ==
    ASSUME IInv, BookTypeOK',
           \A s \in Sides : DOMAIN levels'[s] \subseteq DOMAIN levels[s],
           NEW anyPrice \in Prices
    PROVE  NeverCrossed' /\ BestExists'
<1>1. NeverCrossed'
  BY DEF IInv, NeverCrossed, Sides
<1>2. BestExists'
  BY BestKept DEF IInv, TypeOK
<1> QED  BY <1>1, <1>2

(* An exhausted maker leaves.                                              *)
LEMMA FillMakerInvariant ==
    ASSUME IInv, NEW price \in Prices, FillMaker(price)
    PROVE  IInv'
<1> DEFINE other == Opposite(incoming.side)
           queue == levels[other][price]
           maker == Head(queue)
<1>1. Matchable(price) /\ maker.quantity <= incoming.quantity
      /\ Match(price, maker, maker.quantity)
  BY DEF FillMaker, Exhausts
<1>2. /\ BookInv
      /\ incoming \in LimitOrder /\ incoming.quantity > 0
      /\ other \in Sides /\ price \in DOMAIN levels[other]
      /\ queue \in Seq(RestingOrders) /\ queue # << >>
      /\ Len(queue) \in Nat /\ DOMAIN queue = 1 .. Len(queue) /\ 1 \in DOMAIN queue
      /\ maker = queue[1] /\ maker \in RestingOrders
  BY <1>1, MakerFacts
<1>3. levels' = [levels EXCEPT ![other] = SetLevel(@, price, Tail(queue))]
      /\ order_locator' = Without(order_locator, queue[1].order_id)
  BY <1>2 DEF FillMaker, Forget
<1>4. /\ Tail(queue) \in Seq(RestingOrders) /\ Len(Tail(queue)) = Len(queue) - 1
      /\ \A j \in 1 .. Len(Tail(queue)) : Tail(queue)[j] = queue[IF j < 1 THEN j ELSE j + 1]
  <2> HIDE DEF queue
  <2>1. /\ Tail(queue) \in Seq(RestingOrders) /\ Len(Tail(queue)) = Len(queue) - 1
        /\ \A j \in 1 .. Len(Tail(queue)) : Tail(queue)[j] = queue[j + 1]
    BY <1>2, HeadTailProperties
  <2> QED  BY <2>1
<1>5. BookInv'
  BY <1>2, <1>3, <1>4, RemovalKeepsBook
<1>6. /\ incoming' \in LimitOrder /\ incoming' # NoOrder
      /\ incoming'.order_id = incoming.order_id /\ incoming'.price = incoming.price
      /\ trades' \in Seq(Trade) /\ reply' \in Replies
  <2>1. maker.quantity \in Nat
    BY <1>2 DEF RestingOrders, LimitOrder
  <2> HIDE DEF maker
  <2> QED  BY <2>1, <1>1, <1>2, MatchTyping DEF IInv, Matchable
<1>7. TypeOK'
  BY <1>5, <1>6, <1>1 DEF BookInv, TypeOK, IInv, Idle, Matchable
<1>8. IncomingNotResting'
  <2>1. DOMAIN order_locator' \subseteq DOMAIN order_locator
    BY <1>3 DEF Without
  <2> QED  BY <2>1, <1>1, <1>6 DEF IInv, IncomingNotResting, Idle, Matchable
<1>9. \A s \in Sides : DOMAIN levels'[s] \subseteq DOMAIN levels[s]
  <2> HIDE DEF queue, other
  <2>1. BookTypeOK
    BY <1>2 DEF BookInv
  <2> QED  BY <2>1, <1>2, <1>3, <1>4, NoLevelAdded
<1> QED  BY <1>5, <1>7, <1>8, <1>9, ShrinkingStaysUncrossed DEF IInv, BookInv

(* A maker with lots left keeps its place.                                 *)
LEMMA ReduceMakerInvariant ==
    ASSUME IInv, NEW price \in Prices, ReduceMaker(price)
    PROVE  IInv'
<1> DEFINE other == Opposite(incoming.side)
           queue == levels[other][price]
           maker == Head(queue)
           left  == maker.quantity - incoming.quantity
           after == PushMakerFront(queue, left)
<1>1. Matchable(price) /\ ~ (maker.quantity <= incoming.quantity)
      /\ Match(price, maker, incoming.quantity)
  BY DEF ReduceMaker, Exhausts
<1>2. /\ BookInv
      /\ incoming \in LimitOrder /\ incoming.quantity > 0
      /\ other \in Sides /\ price \in DOMAIN levels[other]
      /\ queue \in Seq(RestingOrders) /\ queue # << >>
      /\ Len(queue) \in Nat /\ DOMAIN queue = 1 .. Len(queue) /\ 1 \in DOMAIN queue
      /\ maker = queue[1] /\ maker \in RestingOrders
  BY <1>1, MakerFacts
<1>3. levels' = [levels EXCEPT ![other] = SetLevel(@, price, after)]
      /\ order_locator' = order_locator
  BY DEF ReduceMaker
<1>4. left \in Nat /\ left > 0 /\ incoming.quantity \in Nat
  BY <1>1, <1>2 DEF RestingOrders, LimitOrder
<1>5. /\ after \in Seq(RestingOrders) /\ Len(after) = Len(queue)
      /\ \A j \in 1 .. Len(after) : /\ after[j].order_id = queue[j].order_id
                                    /\ after[j].side = queue[j].side
                                    /\ after[j].price = queue[j].price
  <2> DEFINE reduced == [queue[1] EXCEPT !.quantity = left]
  <2>1. reduced \in RestingOrders
        /\ reduced.order_id = queue[1].order_id /\ reduced.side = queue[1].side
        /\ reduced.price = queue[1].price
    BY <1>2, <1>4 DEF RestingOrders, LimitOrder
  <2>2. after = [queue EXCEPT ![1] = reduced]
    BY DEF PushMakerFront
  <2> HIDE DEF queue, reduced, after
  <2>3. /\ after \in Seq(RestingOrders) /\ Len(after) = Len(queue)
        /\ \A j \in 1 .. Len(queue) : after[j] = IF j = 1 THEN reduced ELSE queue[j]
    BY <1>2, <2>1, <2>2, ExceptSeq
  <2> QED  BY <2>1, <2>3
<1>6. BookInv'
  <2> HIDE DEF after, other
  <2> QED  BY <1>2, <1>3, <1>5, ReductionKeepsBook
<1>7. /\ incoming' \in LimitOrder /\ incoming' # NoOrder
      /\ incoming'.order_id = incoming.order_id /\ incoming'.price = incoming.price
      /\ trades' \in Seq(Trade) /\ reply' \in Replies
  <2>1. incoming.quantity <= incoming.quantity
    BY <1>4
  <2> HIDE DEF maker
  <2> QED  BY <2>1, <1>1, <1>2, <1>4, MatchTyping DEF IInv, Matchable
<1>8. TypeOK'
  BY <1>6, <1>7, <1>1 DEF BookInv, TypeOK, IInv, Idle, Matchable
<1>9. IncomingNotResting'
  BY <1>1, <1>3, <1>7 DEF IInv, IncomingNotResting, Idle, Matchable
<1>10. \A s \in Sides : DOMAIN levels'[s] \subseteq DOMAIN levels[s]
  <2> HIDE DEF after, queue, other
  <2>1. BookTypeOK
    BY <1>2 DEF BookInv
  <2> QED  BY <2>1, <1>2, <1>3, <1>5, NoLevelAdded
<1> QED  BY <1>6, <1>8, <1>9, <1>10, ShrinkingStaysUncrossed DEF IInv, BookInv

(* A call that returns with nothing left touches the book no more.         *)
LEMMA FilledInvariant ==
    ASSUME IInv, Filled
    PROVE  IInv'
<1>1. UNCHANGED <<levels, order_locator>> /\ incoming' = NoOrder /\ trades' = << >>
      /\ reply' = Accepted(0, trades)
  BY DEF Filled, Return
<1>2. BookInv' /\ NeverCrossed' /\ BestExists'
  BY <1>1, SameBook
<1>3. TypeOK'
  <2>1. reply' \in Replies
    BY <1>1 DEF IInv, TypeOK, Accepted, Replies
  <2>2. trades' \in Seq(Trade)
    BY <1>1
  <2> QED  BY <1>1, <1>2, <2>1, <2>2 DEF TypeOK, Idle, BookInv
<1>4. IncomingNotResting'
  BY <1>1 DEF IncomingNotResting, Idle
<1> QED  BY <1>2, <1>3, <1>4 DEF IInv, BookInv

(* The remainder rests on a book it does not cross.                        *)
LEMMA RestInvariant ==
    ASSUME IInv, Rest
    PROVE  IInv'
<1> DEFINE side  == incoming.side
           price == incoming.price
<1>1. /\ incoming \in RestingOrders
      /\ incoming.order_id \notin DOMAIN order_locator
      /\ incoming \in LimitOrder /\ side \in Sides /\ price \in Prices
      /\ BookInv /\ BookTypeOK /\ BestExists /\ Breaks
  BY DEF IInv, TypeOK, BookInv, Rest, Idle, IncomingNotResting, RestingOrders, LimitOrder
<1>2. /\ levels' = [levels EXCEPT ![incoming.side] =
             SetLevel(@, incoming.price, Append(LevelAt(incoming.side, incoming.price), incoming))]
      /\ order_locator' = With(order_locator, incoming.order_id, <<incoming.side, incoming.price>>)
      /\ incoming' = NoOrder /\ trades' = << >>
      /\ reply' = Accepted(incoming.quantity, trades)
  BY DEF Rest, Return
<1>3. BookInv'
  BY <1>1, <1>2, RestingKeepsBook
<1>4. TypeOK'
  <2>1. reply' \in Replies
    BY <1>1, <1>2 DEF IInv, TypeOK, Accepted, Replies, LimitOrder
  <2>2. trades' \in Seq(Trade)
    BY <1>2
  <2> QED  BY <1>2, <1>3, <2>1, <2>2 DEF TypeOK, Idle, BookInv
<1>5. /\ \A s \in Sides \ {side} : levels'[s] = levels[s]
      /\ DOMAIN levels'[side] \subseteq DOMAIN levels[side] \cup {price}
  <2> DEFINE queue == Append(LevelAt(side, price), incoming)
  <2>1. LevelAt(side, price) \in Seq(RestingOrders)
    BY <1>1 DEF LevelAt, BookTypeOK, IsMap
  <2>2. queue \in Seq(RestingOrders)
    BY <2>1, <1>1, AppendProperties
  <2>3. levels' = [levels EXCEPT ![side] = SetLevel(@, price, queue)]
    BY <1>2
  <2> HIDE DEF queue, side, price
  <2>4. /\ \A s \in Sides \ {side} : levels'[s] = levels[s]
        /\ DOMAIN levels'[side] = IF queue = << >> THEN DOMAIN levels[side] \ {price}
                                  ELSE DOMAIN levels[side] \cup {price}
    BY <1>1, <2>2, <2>3, LevelsAfter
  <2> QED  BY <2>4
<1>6. BestExists'
  <2>1. \A s \in Sides : DOMAIN levels'[s] \subseteq DOMAIN levels[s] \cup {price}
    BY <1>5
  <2> QED  BY <2>1, <1>1, <1>3, BestKept DEF BookInv
<1>7. \A p \in DOMAIN levels[Opposite(side)] : ~ Crosses(incoming, p)
  BY <1>1, BreaksMeansNoneCross
<1>8. \A s \in Sides : DOMAIN levels[s] \subseteq Nat
  BY <1>1, OrdersAssumption DEF BookTypeOK, IsMap
<1>9. NeverCrossed'
  <2>1. NeverCrossed /\ price \in Nat
    BY <1>1, OrdersAssumption DEF IInv
  <2>2. CASE side = "Bid"
    <3>1. \A ask \in DOMAIN levels["Ask"] : price < ask
      BY <2>1, <2>2, <1>7, <1>8 DEF Crosses, Better, Opposite, Sides
    <3>2. levels'["Ask"] = levels["Ask"] /\ DOMAIN levels'["Bid"] \subseteq DOMAIN levels["Bid"] \cup {price}
      BY <2>2, <1>5 DEF Sides
    <3> QED  BY <2>1, <3>1, <3>2 DEF NeverCrossed
  <2>3. CASE side = "Ask"
    <3>1. \A bid \in DOMAIN levels["Bid"] : bid < price
      BY <2>1, <2>3, <1>7, <1>8 DEF Crosses, Better, Opposite, Sides
    <3>2. levels'["Bid"] = levels["Bid"] /\ DOMAIN levels'["Ask"] \subseteq DOMAIN levels["Ask"] \cup {price}
      BY <2>3, <1>5 DEF Sides
    <3> QED  BY <2>1, <3>1, <3>2 DEF NeverCrossed
  <2> QED  BY <2>2, <2>3, <1>1 DEF Sides
<1>10. IncomingNotResting'
  BY <1>2 DEF IncomingNotResting, Idle
<1> QED  BY <1>3, <1>4, <1>6, <1>9, <1>10 DEF IInv, BookInv

(* cancel takes the order the locator names out of its level.              *)
LEMMA CancelInvariant ==
    ASSUME IInv, NEW id \in OrderIds, Cancel(id)
    PROVE  IInv'
<1>1. Idle /\ UNCHANGED <<incoming, trades>> /\ BookInv
  BY DEF Cancel, IInv, TypeOK, BookInv
<1>2. CASE id \notin DOMAIN order_locator
  <2>1. UNCHANGED <<levels, order_locator>> /\ reply' = Failed("OrderNotFound")
    BY <1>2 DEF Cancel, Resting
  <2>2. reply' \in Replies
    BY <2>1 DEF Replies, Errors
  <2>3. BookInv' /\ NeverCrossed' /\ BestExists'
    BY <2>1, SameBook
  <2>4. TypeOK' /\ IncomingNotResting'
    BY <1>1, <2>1, <2>2, <2>3 DEF IInv, TypeOK, BookInv, IncomingNotResting, Idle
  <2> QED  BY <2>3, <2>4 DEF IInv, BookInv
<1>3. CASE id \in DOMAIN order_locator
  <2> DEFINE side  == order_locator[id][1]
             price == order_locator[id][2]
             queue == levels[side][price]
             after == AfterRemoval(queue, id)
  <2>1. side \in Sides /\ price \in DOMAIN levels[side]
        /\ \E i \in DOMAIN queue : queue[i].order_id = id
    BY <1>1, <1>3 DEF BookInv, BookTypeOK, IsMap, LocatorExact, EveryLocatedRests
  <2>2. queue \in Seq(RestingOrders) /\ Len(queue) \in Nat /\ DOMAIN queue = 1 .. Len(queue)
    BY <1>1, <2>1, LenProperties DEF BookInv, BookTypeOK, IsMap
  <2>3. /\ levels' = [levels EXCEPT ![side] = SetLevel(@, price, after)]
        /\ order_locator' = Without(order_locator, id)
        /\ reply' = Canceled
    BY <1>3, <2>1 DEF Cancel, Forget, Resting
  <2>4. \E pos \in DOMAIN queue : IsFirst(pos, queue, id)
    <3>1. PICK i \in DOMAIN queue : queue[i].order_id = id
      BY <2>1
    <3>2. \A j \in DOMAIN queue : queue[j].order_id = id => j = i
      BY <1>1, <2>1, <3>1 DEF BookInv, LocatorExact, EveryOrderOnce
    <3>3. \A j \in 1 .. (i - 1) : j \in DOMAIN queue /\ j # i
      BY <2>2, <3>1
    <3>4. IsFirst(i, queue, id)
      BY <3>1, <3>2, <3>3 DEF IsFirst
    <3> QED  BY <3>1, <3>4
  <2> HIDE DEF queue
  <2>5. PICK pos \in DOMAIN queue : IsFirst(pos, queue, id) /\ after = RemoveAt(queue, pos)
    BY <2>4 DEF AfterRemoval
  <2>6. queue[pos].order_id = id
    BY <2>5 DEF IsFirst
  <2> HIDE DEF after
  <2>7. /\ after \in Seq(RestingOrders) /\ Len(after) = Len(queue) - 1
        /\ \A j \in 1 .. Len(queue) - 1 : after[j] = queue[IF j < pos THEN j ELSE j + 1]
    BY <2>2, <2>5, RemoveAtProperties
  <2>8. BookInv'
    <3> HIDE DEF side, price
    <3>1. /\ pos \in 1 .. Len(levels[side][price])
          /\ Len(after) = Len(levels[side][price]) - 1
          /\ \A j \in 1 .. Len(after) : after[j] = levels[side][price][IF j < pos THEN j ELSE j + 1]
          /\ order_locator' = Without(order_locator, levels[side][price][pos].order_id)
      BY <2>2, <2>3, <2>6, <2>7 DEF queue
    <3> QED  BY <1>1, <2>1, <2>3, <2>7, <3>1, RemovalKeepsBook
  <2>9. \A s \in Sides : DOMAIN levels'[s] \subseteq DOMAIN levels[s]
    <3> HIDE DEF side, price
    <3> QED  BY <1>1, <2>1, <2>3, <2>7, NoLevelAdded DEF BookInv
  <2>10. TypeOK'
    BY <1>1, <2>3, <2>8 DEF BookInv, IInv, TypeOK, Idle, Replies
  <2>11. IncomingNotResting'
    BY <1>1 DEF IncomingNotResting, Idle
  <2>12. price \in Prices
    BY <1>1, <2>1 DEF BookInv, BookTypeOK, IsMap
  <2> QED  BY <2>8, <2>9, <2>10, <2>11, <2>12, ShrinkingStaysUncrossed DEF IInv, BookInv
<1> QED  BY <1>2, <1>3

(* IInv is inductive.                                                      *)
LEMMA StepInvariant == IInv /\ [Next]_vars => IInv'
<1> SUFFICES ASSUME IInv, [Next]_vars PROVE IInv'
  OBVIOUS
<1>1. ASSUME NEW order \in Submitted, PlaceLimit(order) PROVE IInv'
  BY <1>1, PlaceLimitInvariant
<1>2. ASSUME NEW id \in OrderIds, Cancel(id) PROVE IInv'
  BY <1>2, CancelInvariant
<1>3. ASSUME NEW price \in Prices, FillMaker(price) PROVE IInv'
  BY <1>3, FillMakerInvariant
<1>4. ASSUME NEW price \in Prices, ReduceMaker(price) PROVE IInv'
  BY <1>4, ReduceMakerInvariant
<1>5. CASE Filled
  BY <1>5, FilledInvariant
<1>6. CASE Rest
  BY <1>6, RestInvariant
<1>7. CASE UNCHANGED vars
  <2>1. UNCHANGED <<levels, order_locator, incoming, trades, reply>>
    BY <1>7 DEF vars
  <2>2. BookInv' /\ NeverCrossed' /\ BestExists'
    BY <2>1, SameBook
  <2>3. TypeOK' /\ IncomingNotResting'
    BY <2>1, <2>2 DEF IInv, TypeOK, BookInv, IncomingNotResting, Idle
  <2> QED  BY <2>2, <2>3 DEF IInv, BookInv
<1> QED  BY <1>1, <1>2, <1>3, <1>4, <1>5, <1>6, <1>7 DEF Next, Loop

(* Every reachable state of the book satisfies the invariant.              *)
THEOREM Invariance == Spec => []IInv
BY InitInvariant, StepInvariant, PTL DEF Spec

(* The book, the locator and the replies keep their types.                 *)
THEOREM TypeCorrect == Spec => []TypeOK
<1>1. IInv => TypeOK
  BY DEF IInv
<1> QED  BY <1>1, Invariance, PTL

(* No level of the book is ever empty or holds a foreign order.            *)
THEOREM LevelsStaySound == Spec => []LevelsSound
<1>1. IInv => LevelsSound
  BY DEF IInv
<1> QED  BY <1>1, Invariance, PTL

(* The locator and the levels always describe the same orders, so cancel   *)
(* finds exactly the order it is asked for.                                *)
THEOREM LocatorStaysExact == Spec => []LocatorExact
<1>1. IInv => LocatorExact
  BY DEF IInv
<1> QED  BY <1>1, Invariance, PTL

(* The book is never crossed, for any set of prices.                       *)
THEOREM BookNeverCrosses == Spec => []NeverCrossed
<1>1. IInv => NeverCrossed
  BY DEF IInv
<1> QED  BY <1>1, Invariance, PTL

(* place_limit's loop, for any book and any order: a round that is not the *)
(* last takes lots off the order, so there are at most as many rounds as   *)
(* lots.                                                                   *)
THEOREM EveryRoundTakesLots == Spec => RoundsTakeLots
<1>1. IInv /\ [Next]_vars
          => [~ Idle /\ incoming' # NoOrder => incoming'.quantity < incoming.quantity]_vars
  <2> SUFFICES ASSUME IInv, Next, ~ Idle, incoming' # NoOrder
               PROVE  incoming'.quantity < incoming.quantity
    OBVIOUS
  <2>1. ASSUME NEW price \in Prices, FillMaker(price)
        PROVE  incoming'.quantity < incoming.quantity
    <3> DEFINE maker == Head(levels[Opposite(incoming.side)][price])
    <3>1. Matchable(price) /\ Exhausts(maker) /\ Match(price, maker, maker.quantity)
      BY <2>1 DEF FillMaker
    <3>2. maker \in RestingOrders
      BY <3>1, MakerFacts
    <3> HIDE DEF maker
    <3>3. maker.quantity <= incoming.quantity /\ maker.quantity \in Nat /\ maker.quantity > 0
      BY <3>1, <3>2 DEF Exhausts, RestingOrders, LimitOrder
    <3>4. incoming'.quantity = incoming.quantity - maker.quantity
      BY <3>1, <3>2, <3>3, MatchTyping DEF IInv
    <3>5. incoming.quantity \in Nat
      BY DEF IInv, TypeOK, Idle, LimitOrder
    <3> QED  BY <3>3, <3>4, <3>5
  <2>2. ASSUME NEW price \in Prices, ReduceMaker(price)
        PROVE  incoming'.quantity < incoming.quantity
    <3> DEFINE maker == Head(levels[Opposite(incoming.side)][price])
    <3>1. Matchable(price) /\ Match(price, maker, incoming.quantity)
      BY <2>2 DEF ReduceMaker
    <3>2. maker \in RestingOrders
      BY <3>1, MakerFacts
    <3> HIDE DEF maker
    <3>3. incoming.quantity \in Nat /\ incoming.quantity > 0
      BY <3>1 DEF IInv, TypeOK, Idle, LimitOrder, Matchable
    <3>4. incoming'.quantity = incoming.quantity - incoming.quantity
      BY <3>1, <3>2, <3>3, MatchTyping DEF IInv
    <3> QED  BY <3>3, <3>4
  <2>3. \A order \in Submitted : ~ PlaceLimit(order)
    BY DEF PlaceLimit
  <2>4. \A id \in OrderIds : ~ Cancel(id)
    BY DEF Cancel
  <2>5. ~ Filled /\ ~ Rest
    BY DEF Filled, Rest, Return
  <2> QED  BY <2>1, <2>2, <2>3, <2>4, <2>5 DEF Next, Loop
<1> QED  BY <1>1, Invariance, PTL DEF Spec, RoundsTakeLots

-------------------------------------------------------------------------------
(* Levels one after the other, best price first.                           *)

(* A list of prices, the best first.                                       *)
BestFirst(side, g, S) ==
    /\ g \in Seq(S)
    /\ \A p \in S : \E i \in 1 .. Len(g) : g[i] = p
    /\ \A i, j \in 1 .. Len(g) : i < j => Better(side, g[i], g[j])

(* Better orders the prices of a side.                                     *)
LEMMA BetterOrders ==
    ASSUME NEW side \in Sides, NEW p \in Nat, NEW q \in Nat
    PROVE  /\ ~ Better(side, p, p)
           /\ Better(side, p, q) => ~ Better(side, q, p)
           /\ Better(side, p, q) \/ Better(side, q, p) \/ p = q
           /\ \A r \in Nat : Better(side, p, q) /\ Better(side, q, r) => Better(side, p, r)
BY DEF Sides, Better

(* A finite set of prices has one.                                         *)
LEMMA BestFirstExists ==
    ASSUME NEW side \in Sides, NEW S \in SUBSET Nat, IsFiniteSet(S)
    PROVE  \E g : BestFirst(side, g, S)
<1> DEFINE N == Cardinality(S)
           a == Ascending(S)
<1>1. /\ N \in Nat /\ a \in [1 .. N -> S] /\ a \in Seq(S) /\ Len(a) = N
      /\ \A i, j \in 1 .. N : i < j <=> a[i] < a[j]
      /\ \A n \in S : \E i \in 1 .. N : a[i] = n
  BY AscendingLists
<1>2. \A i \in 1 .. N : a[i] \in Nat
  <2> TAKE i \in 1 .. N
  <2>1. a[i] \in S
    BY <1>1
  <2> QED  BY <2>1
<1> HIDE DEF N, a
<1>3. CASE side = "Ask"
  <2>1. \A i, j \in 1 .. N : i < j => Better(side, a[i], a[j])
    BY <1>1, <1>3 DEF Better
  <2> QED  BY <1>1, <2>1 DEF BestFirst
<1>4. CASE side = "Bid"
  <2> DEFINE g == [i \in 1 .. N |-> a[N + 1 - i]]
  <2>0. \A i \in 1 .. N : N + 1 - i \in 1 .. N /\ N + 1 - (N + 1 - i) = i
    BY <1>1
  <2>1. g \in [1 .. N -> S]
    BY <1>1, <2>0
  <2>2. \A p \in S : \E i \in 1 .. N : g[i] = p
    <3> TAKE p \in S
    <3>1. PICK k \in 1 .. N : a[k] = p
      BY <1>1
    <3>2. N + 1 - k \in 1 .. N /\ g[N + 1 - k] = a[N + 1 - (N + 1 - k)]
      BY <2>0
    <3>3. g[N + 1 - k] = p
      BY <2>0, <3>1, <3>2
    <3> QED  BY <3>2, <3>3
  <2>3. \A i, j \in 1 .. N : i < j => Better(side, g[i], g[j])
    <3> SUFFICES ASSUME NEW i \in 1 .. N, NEW j \in 1 .. N, i < j
                 PROVE  Better(side, g[i], g[j])
      OBVIOUS
    <3> DEFINE k == N + 1 - i
               m == N + 1 - j
    <3>1. k \in 1 .. N /\ m \in 1 .. N /\ m < k
      BY <1>1
    <3>2. g[i] = a[k] /\ g[j] = a[m]
      OBVIOUS
    <3> HIDE DEF k, m, g
    <3>3. a[m] < a[k] /\ a[m] \in Nat /\ a[k] \in Nat
      BY <3>1, <1>1, <1>2
    <3> QED  BY <3>2, <3>3, <1>4 DEF Better
  <2> HIDE DEF g
  <2>4. g \in Seq(S) /\ Len(g) = N
    BY <1>1, <2>1
  <2>5. BestFirst(side, g, S)
    BY <2>2, <2>3, <2>4 DEF BestFirst
  <2> QED  BY <2>5
<1> QED  BY <1>3, <1>4 DEF Sides

(* It is the list of NthBest.                                              *)
LEMMA NthBestIs ==
    ASSUME NEW side \in Sides, NEW S, S \subseteq Nat, NEW g, BestFirst(side, g, S)
    PROVE  /\ IsFiniteSet(S) /\ Cardinality(S) = Len(g)
           /\ \A i \in 1 .. Len(g) : NthBest(side, S, i) = g[i]
<1> DEFINE N == Len(g)
           Ahead(p) == {q \in S : Better(side, q, p)}
<1>1. /\ N \in Nat /\ g \in [1 .. N -> S]
      /\ \A p \in S : \E i \in 1 .. N : g[i] = p
      /\ \A i, j \in 1 .. N : i < j => Better(side, g[i], g[j])
  BY DEF BestFirst
<1> HIDE DEF N
<1>2. \A i \in 1 .. N : i \in Nat /\ g[i] \in S /\ g[i] \in Nat
  <2> TAKE i \in 1 .. N
  <2>1. i \in Nat /\ g[i] \in S
    BY <1>1
  <2> QED  BY <2>1
<1>3. \A i, j \in 1 .. N : i < j <=> Better(side, g[i], g[j])
  <2> TAKE i, j \in 1 .. N
  <2>1. i \in Nat /\ j \in Nat /\ g[i] \in Nat /\ g[j] \in Nat
    BY <1>2
  <2>2. i < j => Better(side, g[i], g[j])
    BY <1>1
  <2>3. j < i => Better(side, g[j], g[i])
    BY <1>1
  <2>4. i = j \/ i < j \/ j < i
    BY <2>1
  <2>5. /\ ~ Better(side, g[i], g[i])
        /\ Better(side, g[i], g[j]) => ~ Better(side, g[j], g[i])
    BY <2>1, BetterOrders
  <2> QED  BY ONLY <2>1, <2>2, <2>3, <2>4, <2>5
<1>4. Lists(g, N, S)
  <2>1. ASSUME NEW i \in 1 .. N, NEW j \in 1 .. N, g[i] = g[j]
        PROVE  i = j
    <3>1. ~ Better(side, g[i], g[i])
      BY <1>2, BetterOrders
    <3>2. ~ (i < j) /\ ~ (j < i)
      BY <3>1, <2>1, <1>3
    <3> QED  BY <3>2, <1>2
  <2> QED  BY <1>1, <2>1 DEF Lists
<1>5. IsFiniteSet(S) /\ Cardinality(S) = N
  <2>1. N \in 0 .. N /\ S \in SUBSET S /\ \A j \in 1 .. N : g[j] \in S <=> j <= N
    BY <1>1, <1>2
  <2> QED  BY ONLY <1>4, <2>1, RankInList
<1>6. ASSUME NEW i \in 1 .. N
      PROVE  Cardinality(Ahead(g[i])) = i - 1
  <2> DEFINE B == Ahead(g[i])
  <2>1. i - 1 \in 0 .. N /\ B \in SUBSET S
    BY <1>1
  <2>2. \A j \in 1 .. N : g[j] \in B <=> j <= i - 1
    <3> TAKE j \in 1 .. N
    <3>1. g[j] \in B <=> Better(side, g[j], g[i])
      BY <1>2
    <3>2. j < i <=> j <= i - 1
      BY <1>1
    <3> HIDE DEF B
    <3> QED  BY <3>1, <3>2, <1>3
  <2> HIDE DEF B
  <2>3. PICK r \in 0 .. N : r = i - 1
    BY <2>1
  <2>4. \A j \in 1 .. N : g[j] \in B <=> j <= r
    BY ONLY <2>2, <2>3
  <2>5. Cardinality(B) = r
    BY ONLY <1>4, <2>1, <2>4, r \in 0 .. N, RankInList
  <2> QED  BY <2>3, <2>5 DEF B
<1>7. ASSUME NEW i \in 1 .. N
      PROVE  NthBest(side, S, i) = g[i]
  <2>1. NthBest(side, S, i) = CHOOSE p \in S : Cardinality(Ahead(p)) = i - 1
    BY DEF NthBest
  <2> HIDE DEF Ahead
  <2>2. g[i] \in S /\ Cardinality(Ahead(g[i])) = i - 1
    BY <1>2, <1>6
  <2>3. ASSUME NEW p \in S, Cardinality(Ahead(p)) = i - 1
        PROVE  p = g[i]
    <3>1. PICK k \in 1 .. N : g[k] = p
      BY <1>1
    <3>2. k - 1 = i - 1
      BY <3>1, <2>3, <1>6
    <3>3. k = i
      BY ONLY <3>2, <1>1, k \in 1 .. N, i \in 1 .. N
    <3> QED  BY <3>1, <3>3
  <2> QED  BY ONLY <2>1, <2>2, <2>3
<1> QED  BY <1>5, <1>7 DEF N

(* What Flatten is for a list of the prices of the map.                    *)
LEMMA FlattenIs ==
    ASSUME NEW side \in Sides, NEW map, DOMAIN map \subseteq Nat,
           NEW g, BestFirst(side, g, DOMAIN map),
           NEW T, NEW seqs \in Seq(Seq(T)), Len(seqs) = Len(g),
           \A i \in 1 .. Len(g) : seqs[i] = map[g[i]]
    PROVE  Flatten(side, map) = FlattenSeq(seqs)
<1> DEFINE S == DOMAIN map
           N == Len(g)
<1>0. S \subseteq Nat /\ BestFirst(side, g, S)
  OBVIOUS
<1>2. seqs = [i \in 1 .. N |-> seqs[i]]
  OBVIOUS
<1> HIDE DEF S
<1>1. Cardinality(S) = Len(g) /\ \A i \in 1 .. Len(g) : NthBest(side, S, i) = g[i]
  BY ONLY <1>0, side \in Sides, NthBestIs
<1>3. [i \in 1 .. Cardinality(S) |-> map[NthBest(side, S, i)]] = [i \in 1 .. N |-> seqs[i]]
  BY <1>1
<1> QED  BY <1>2, <1>3 DEF Flatten, S

(* A list of better prices followed by a list of worse ones.               *)
LEMMA BestFirstJoin ==
    ASSUME NEW side \in Sides, NEW B, NEW W, NEW g, NEW h,
           BestFirst(side, g, B), BestFirst(side, h, W),
           \A p \in B : \A q \in W : Better(side, p, q)
    PROVE  BestFirst(side, g \o h, B \cup W)
<1> DEFINE u == g \o h
           m == Len(g)
           n == Len(h)
<1>1. /\ g \in Seq(B) /\ h \in Seq(W) /\ g \in Seq(B \cup W) /\ h \in Seq(B \cup W)
      /\ m \in Nat /\ n \in Nat
      /\ \A i \in 1 .. m : g[i] \in B
      /\ \A i \in 1 .. n : h[i] \in W
  BY DEF BestFirst
<1>2. /\ u \in Seq(B \cup W) /\ Len(u) = m + n
      /\ \A i \in 1 .. m + n : u[i] = IF i <= m THEN g[i] ELSE h[i - m]
  BY <1>1, ConcatProperties
<1>3. /\ \A p \in B : \E i \in 1 .. m : g[i] = p
      /\ \A p \in W : \E i \in 1 .. n : h[i] = p
      /\ \A i, j \in 1 .. m : i < j => Better(side, g[i], g[j])
      /\ \A i, j \in 1 .. n : i < j => Better(side, h[i], h[j])
  BY DEF BestFirst
<1> HIDE DEF u, m, n
<1>4. \A p \in B \cup W : \E i \in 1 .. m + n : u[i] = p
  <2> TAKE p \in B \cup W
  <2>1. CASE p \in B
    <3>1. PICK i \in 1 .. m : g[i] = p
      BY <1>3, <2>1
    <3>2. i \in 1 .. m + n /\ i <= m
      BY <1>1
    <3> QED  BY <3>1, <3>2, <1>2
  <2>2. CASE p \in W
    <3>1. PICK i \in 1 .. n : h[i] = p
      BY <1>3, <2>2
    <3>2. m + i \in 1 .. m + n /\ ~ (m + i <= m) /\ (m + i) - m = i
      BY <1>1
    <3> QED  BY <3>1, <3>2, <1>2
  <2> QED  BY <2>1, <2>2
<1>5. ASSUME NEW i \in 1 .. m + n, NEW j \in 1 .. m + n, i < j
      PROVE  Better(side, u[i], u[j])
  <2>1. CASE j <= m
    <3>1. i \in 1 .. m /\ j \in 1 .. m /\ u[i] = g[i] /\ u[j] = g[j]
      BY <2>1, <1>1, <1>2, <1>5
    <3> QED  BY <3>1, <1>3, <1>5
  <2>2. CASE m < i
    <3>1. /\ i - m \in 1 .. n /\ j - m \in 1 .. n /\ i - m < j - m
          /\ ~ (i <= m) /\ ~ (j <= m)
      BY <2>2, <1>1, <1>5
    <3>2. u[i] = h[i - m] /\ u[j] = h[j - m]
      BY <3>1, <1>2
    <3> QED  BY <3>1, <3>2, <1>3
  <2>3. CASE i <= m /\ m < j
    <3>1. i \in 1 .. m /\ j - m \in 1 .. n /\ ~ (j <= m)
      BY <2>3, <1>1
    <3>2. u[i] = g[i] /\ u[j] = h[j - m]
      BY <3>1, <2>3, <1>2
    <3> QED  BY <3>1, <3>2, <1>1
  <2>4. i \in Nat /\ j \in Nat
    BY <1>1
  <2> QED  BY <2>1, <2>2, <2>3, <2>4, <1>1
<1>6. BestFirst(side, u, B \cup W)
  BY <1>2, <1>4, <1>5 DEF BestFirst
<1> QED  BY <1>6 DEF u

(* The levels at a list of prices.                                         *)
LevelsOf(map, g) == [i \in 1 .. Len(g) |-> map[g[i]]]

(* They are sequences, one for each price.                                 *)
LEMMA LevelsOfType ==
    ASSUME NEW map, NEW T, \A q \in DOMAIN map : map[q] \in Seq(T),
           NEW S \in SUBSET DOMAIN map, NEW g \in Seq(S)
    PROVE  /\ LevelsOf(map, g) \in Seq(Seq(T))
           /\ Len(LevelsOf(map, g)) = Len(g)
           /\ \A i \in 1 .. Len(g) : LevelsOf(map, g)[i] = map[g[i]] /\ g[i] \in S
<1> DEFINE v == LevelsOf(map, g)
<1>1. PICK n \in Nat : n = Len(g)
  OBVIOUS
<1>2. \A i \in 1 .. n : g[i] \in S
  BY <1>1
<1>3. v \in [1 .. n -> Seq(T)] /\ \A i \in 1 .. n : v[i] = map[g[i]]
  <2>1. v = [i \in 1 .. n |-> map[g[i]]]
    BY <1>1 DEF LevelsOf
  <2>2. \A i \in 1 .. n : map[g[i]] \in Seq(T)
    BY <1>2
  <2> HIDE DEF v
  <2> QED  BY ONLY <2>1, <2>2
<1> HIDE DEF v
<1>4. v \in Seq(Seq(T)) /\ Len(v) = n
  BY ONLY <1>1, <1>3
<1> QED  BY <1>1, <1>2, <1>3, <1>4 DEF v

(* Every member of f is in one of the levels at the prices of S.           *)
DrawnFrom(f, map, S) ==
    \A i \in DOMAIN f : \E q \in S : \E m \in DOMAIN map[q] : f[i] = map[q][m]

(* What they hold is in a level at a price of the list.                    *)
LEMMA FlattenedMembers ==
    ASSUME NEW map, NEW T, \A q \in DOMAIN map : map[q] \in Seq(T),
           NEW S \in SUBSET DOMAIN map, NEW g \in Seq(S)
    PROVE  /\ FlattenSeq(LevelsOf(map, g)) \in Seq(T)
           /\ DrawnFrom(FlattenSeq(LevelsOf(map, g)), map, S)
<1> DEFINE v == LevelsOf(map, g)
<1>1. /\ v \in Seq(Seq(T)) /\ Len(v) = Len(g)
      /\ \A i \in 1 .. Len(g) : v[i] = map[g[i]] /\ g[i] \in S
  BY LevelsOfType
<1> HIDE DEF v
<1>2. DOMAIN v = 1 .. Len(g)
  BY <1>1
<1>3. FlattenSeq(v) \in Seq(T)
  BY ONLY <1>1, FlattenType
<1>4. ASSUME NEW i \in DOMAIN FlattenSeq(v)
      PROVE  \E q \in S : \E m \in DOMAIN map[q] : FlattenSeq(v)[i] = map[q][m]
  <2>1. PICK k \in DOMAIN v : \E m \in DOMAIN v[k] : FlattenSeq(v)[i] = v[k][m]
    BY ONLY <1>1, FlattenMembers, i \in DOMAIN FlattenSeq(v)
  <2>2. v[k] = map[g[k]] /\ g[k] \in S
    BY <1>1, <1>2
  <2> QED  BY <2>1, <2>2
<1> QED  BY <1>3, <1>4 DEF v, DrawnFrom

(* f is made of the levels at the prices of S, the best first.             *)
Flattens(side, map, S, f, T) ==
    \E g, v : /\ BestFirst(side, g, S)
              /\ v \in Seq(Seq(T)) /\ Len(v) = Len(g)
              /\ \A i \in 1 .. Len(g) : v[i] = map[g[i]]
              /\ f = FlattenSeq(v)

(* Any finite set of prices of the map has such a sequence, ...            *)
LEMMA FlattensExists ==
    ASSUME NEW side \in Sides, NEW map, NEW T, \A q \in DOMAIN map : map[q] \in Seq(T),
           NEW S, S \subseteq DOMAIN map, S \subseteq Nat, IsFiniteSet(S)
    PROVE  \E f \in Seq(T) : Flattens(side, map, S, f, T) /\ DrawnFrom(f, map, S)
<1>1. PICK g : BestFirst(side, g, S)
  BY BestFirstExists
<1>2. g \in Seq(S) /\ S \in SUBSET DOMAIN map
  BY <1>1 DEF BestFirst
<1> DEFINE v == LevelsOf(map, g)
           f == FlattenSeq(v)
<1>3. /\ v \in Seq(Seq(T)) /\ Len(v) = Len(g)
      /\ \A i \in 1 .. Len(g) : v[i] = map[g[i]]
  <2>1. /\ LevelsOf(map, g) \in Seq(Seq(T))
        /\ Len(LevelsOf(map, g)) = Len(g)
        /\ \A i \in 1 .. Len(g) : LevelsOf(map, g)[i] = map[g[i]] /\ g[i] \in S
    BY ONLY \A q \in DOMAIN map : map[q] \in Seq(T), <1>2, LevelsOfType
  <2> HIDE DEF f
  <2> QED  BY ONLY <2>1
<1>4. f \in Seq(T) /\ DrawnFrom(f, map, S)
  BY <1>2, FlattenedMembers
<1>5. f = FlattenSeq(v)
  OBVIOUS
<1> HIDE DEF v, f
<1>6. Flattens(side, map, S, f, T)
  BY <1>1, <1>3, <1>5 DEF Flattens
<1> QED  BY <1>4, <1>6

(* ... the level itself for a single price, ...                            *)
LEMMA FlattensOne ==
    ASSUME NEW side \in Sides, NEW map, NEW p, NEW T, map[p] \in Seq(T)
    PROVE  Flattens(side, map, {p}, map[p], T)
<1> DEFINE g == <<p>>
           v == <<map[p]>>
<1>1. g \in Seq({p}) /\ Len(g) = 1 /\ g[1] = p
  OBVIOUS
<1>2. v \in Seq(Seq(T)) /\ FlattenSeq(v) = map[p] /\ Len(v) = 1 /\ v[1] = map[p]
  BY FlattenOne
<1> HIDE DEF g, v
<1>3. BestFirst(side, g, {p})
  BY <1>1 DEF BestFirst
<1>4. \A i \in 1 .. Len(g) : v[i] = map[g[i]]
  BY <1>1, <1>2
<1> QED  BY <1>1, <1>2, <1>3, <1>4 DEF Flattens

(* ... the join for better prices followed by worse ones, ...              *)
LEMMA FlattensJoin ==
    ASSUME NEW side \in Sides, NEW map, NEW T, NEW B, NEW W, NEW a, NEW b,
           Flattens(side, map, B, a, T), Flattens(side, map, W, b, T),
           \A p \in B : \A q \in W : Better(side, p, q)
    PROVE  Flattens(side, map, B \cup W, a \o b, T)
<1>1. PICK g, v : /\ BestFirst(side, g, B)
                  /\ v \in Seq(Seq(T)) /\ Len(v) = Len(g)
                  /\ \A i \in 1 .. Len(g) : v[i] = map[g[i]]
                  /\ a = FlattenSeq(v)
  BY DEF Flattens
<1>2. PICK h, w : /\ BestFirst(side, h, W)
                  /\ w \in Seq(Seq(T)) /\ Len(w) = Len(h)
                  /\ \A i \in 1 .. Len(h) : w[i] = map[h[i]]
                  /\ b = FlattenSeq(w)
  BY DEF Flattens
<1> DEFINE u == g \o h
           x == v \o w
<1>3. BestFirst(side, u, B \cup W)
  BY <1>1, <1>2, BestFirstJoin
<1>4. x \in Seq(Seq(T)) /\ FlattenSeq(x) = a \o b
  BY ONLY <1>1, <1>2, FlattenConcat
<1>5. g \in Seq(B \cup W) /\ h \in Seq(B \cup W) /\ Len(g) \in Nat /\ Len(h) \in Nat
  BY <1>1, <1>2 DEF BestFirst
<1>6. /\ Len(u) = Len(g) + Len(h)
      /\ \A i \in 1 .. Len(g) + Len(h) : u[i] = IF i <= Len(g) THEN g[i] ELSE h[i - Len(g)]
  BY ONLY <1>5, ConcatProperties
<1>7. /\ Len(x) = Len(v) + Len(w)
      /\ \A i \in 1 .. Len(v) + Len(w) : x[i] = IF i <= Len(v) THEN v[i] ELSE w[i - Len(v)]
  <2>1. PICK Q : Q = Seq(T) /\ v \in Seq(Q) /\ w \in Seq(Q)
    BY <1>1, <1>2
  <2> QED  BY ONLY <2>1, ConcatProperties
<1> HIDE DEF u, x
<1>8. \A i \in 1 .. Len(u) : x[i] = map[u[i]]
  <2> TAKE i \in 1 .. Len(u)
  <2>1. i \in 1 .. Len(g) + Len(h) /\ i \in 1 .. Len(v) + Len(w)
    BY <1>1, <1>2, <1>6
  <2>2. CASE i <= Len(g)
    <3>1. i \in 1 .. Len(g)
      BY <2>1, <2>2, <1>5
    <3>2. u[i] = g[i] /\ x[i] = v[i]
      BY <2>1, <2>2, <1>1, <1>6, <1>7
    <3> QED  BY <3>1, <3>2, <1>1
  <2>3. CASE ~ (i <= Len(g))
    <3>1. i - Len(g) \in 1 .. Len(h)
      BY <2>1, <2>3, <1>5
    <3>2. u[i] = h[i - Len(g)] /\ x[i] = w[i - Len(g)]
      BY <2>1, <2>3, <1>1, <1>6, <1>7
    <3> QED  BY <3>1, <3>2, <1>2
  <2> QED  BY <2>2, <2>3
<1>9. Len(x) = Len(u)
  BY <1>1, <1>2, <1>6, <1>7
<1>10. Flattens(side, map, B \cup W, FlattenSeq(x), T)
  BY ONLY <1>3, <1>4, <1>8, <1>9 DEF Flattens
<1> QED  BY <1>4, <1>10

(* ... and the same one in a map that differs elsewhere only.              *)
LEMMA FlattensSame ==
    ASSUME NEW side, NEW map, NEW map2, NEW T, NEW S, NEW f, Flattens(side, map, S, f, T),
           \A q \in S : map2[q] = map[q]
    PROVE  Flattens(side, map2, S, f, T)
<1>1. PICK g, v : /\ BestFirst(side, g, S)
                  /\ v \in Seq(Seq(T)) /\ Len(v) = Len(g)
                  /\ \A i \in 1 .. Len(g) : v[i] = map[g[i]]
                  /\ f = FlattenSeq(v)
  BY DEF Flattens
<1>2. \A i \in 1 .. Len(g) : g[i] \in S
  BY <1>1 DEF BestFirst
<1>3. \A i \in 1 .. Len(g) : v[i] = map2[g[i]]
  BY <1>1, <1>2
<1> QED  BY <1>1, <1>3 DEF Flattens

(* For all the prices of the map it is Flatten.                            *)
LEMMA FlattensAll ==
    ASSUME NEW side \in Sides, NEW map, NEW T, NEW f, DOMAIN map \subseteq Nat,
           Flattens(side, map, DOMAIN map, f, T)
    PROVE  Flatten(side, map) = f
<1>1. PICK g, v : /\ BestFirst(side, g, DOMAIN map)
                  /\ v \in Seq(Seq(T)) /\ Len(v) = Len(g)
                  /\ \A i \in 1 .. Len(g) : v[i] = map[g[i]]
                  /\ f = FlattenSeq(v)
  BY DEF Flattens
<1> QED  BY <1>1, FlattenIs

(* The levels before and behind the level at a price stay what they are    *)
(* when it changes, comes or goes.                                         *)
StayAround(side, map, p, T, before, behind) ==
    /\ before \in Seq(T) /\ behind \in Seq(T)
    /\ \A queue \in Seq(T) :
          Flatten(side, SetLevel(map, p, queue)) = before \o (queue \o behind)
    /\ \A i \in DOMAIN before : \E q \in DOMAIN map :
          Better(side, q, p) /\ \E m \in DOMAIN map[q] : before[i] = map[q][m]
    /\ \A i \in DOMAIN behind : \E q \in DOMAIN map :
          Better(side, p, q) /\ \E m \in DOMAIN map[q] : behind[i] = map[q][m]

(* Such a before and behind exist, whether the map has the price or not.   *)
LEMMA LevelSplit ==
    ASSUME NEW side \in Sides, NEW map, DOMAIN map \subseteq Nat, IsFiniteSet(DOMAIN map),
           NEW T, \A q \in DOMAIN map : map[q] \in Seq(T), NEW p \in Nat
    PROVE  \E before, behind : StayAround(side, map, p, T, before, behind)
<1> DEFINE B == {q \in DOMAIN map : Better(side, q, p)}
           W == {q \in DOMAIN map : Better(side, p, q)}
<1>1. /\ B \subseteq DOMAIN map /\ W \subseteq DOMAIN map
      /\ B \subseteq Nat /\ W \subseteq Nat
      /\ IsFiniteSet(B) /\ IsFiniteSet(W)
  BY FS_Subset
<1>0. \A q \in DOMAIN map : map[q] \in Seq(T)
  OBVIOUS
<1>2. DOMAIN map \ {p} = B \cup W /\ p \notin B /\ p \notin W
  BY BetterOrders
<1>3. \A q \in B : Better(side, q, p) /\ q \in DOMAIN map
  OBVIOUS
<1>4. \A q \in W : Better(side, p, q) /\ q \in DOMAIN map
  OBVIOUS
<1>5. \A q \in B : \A r \in W : Better(side, q, r)
  <2> SUFFICES ASSUME NEW q \in B, NEW r \in W PROVE Better(side, q, r)
    OBVIOUS
  <2>1. q \in Nat /\ r \in Nat /\ Better(side, q, p) /\ Better(side, p, r)
    BY <1>1, <1>3, <1>4
  <2> QED  BY ONLY <2>1, side \in Sides, p \in Nat, BetterOrders
<1> HIDE DEF B, W
<1>6. PICK before \in Seq(T) :
         Flattens(side, map, B, before, T) /\ DrawnFrom(before, map, B)
  BY ONLY <1>1, <1>0, side \in Sides, FlattensExists
<1>7. PICK behind \in Seq(T) :
         Flattens(side, map, W, behind, T) /\ DrawnFrom(behind, map, W)
  BY ONLY <1>1, <1>0, side \in Sides, FlattensExists
<1>8. ASSUME NEW queue \in Seq(T)
      PROVE  Flatten(side, SetLevel(map, p, queue)) = before \o (queue \o behind)
  <2>1. PICK map2 : map2 = SetLevel(map, p, queue)
    OBVIOUS
  <2>2. /\ DOMAIN map2 = IF queue = << >> THEN DOMAIN map \ {p} ELSE DOMAIN map \cup {p}
        /\ \A q \in DOMAIN map2 : map2[q] = IF q = p THEN queue ELSE map[q]
    <3>1. CASE queue = << >>
      BY ONLY <2>1, <3>1 DEF SetLevel, Without
    <3>2. CASE queue # << >>
      BY ONLY <2>1, <3>2 DEF SetLevel, With
    <3> QED  BY <3>1, <3>2
  <2>3. DOMAIN map2 \subseteq Nat /\ B \cup W \subseteq DOMAIN map2
    BY <2>2, <1>2
  <2>4. \A q \in B \cup W : map2[q] = map[q]
    BY <2>2, <2>3, <1>2
  <2>5. Flattens(side, map2, B, before, T)
    BY <2>4, <1>6, FlattensSame
  <2>6. Flattens(side, map2, W, behind, T)
    BY <2>4, <1>7, FlattensSame
  <2>7. CASE queue = << >>
    <3>1. DOMAIN map2 = B \cup W
      BY <2>2, <2>7, <1>2
    <3>2. Flattens(side, map2, DOMAIN map2, before \o behind, T)
      BY ONLY <1>5, <2>5, <2>6, <3>1, side \in Sides, FlattensJoin
    <3>3. Flatten(side, map2) = before \o behind
      BY ONLY <2>3, <3>2, side \in Sides, FlattensAll
    <3>4. queue \o behind = behind
      BY ONLY <2>7, behind \in Seq(T), ConcatEmptySeq
    <3> QED  BY <2>1, <3>3, <3>4
  <2>8. CASE queue # << >>
    <3>1. DOMAIN map2 = B \cup ({p} \cup W) /\ map2[p] = queue
      BY <2>2, <2>8, <1>2
    <3>2. Flattens(side, map2, {p}, queue, T)
      BY <3>1, FlattensOne
    <3>3. \A q \in {p} : \A r \in W : Better(side, q, r)
      BY <1>4
    <3>4. Flattens(side, map2, {p} \cup W, queue \o behind, T)
      BY ONLY <2>6, <3>2, <3>3, side \in Sides, FlattensJoin
    <3>5. \A q \in B : \A r \in {p} \cup W : Better(side, q, r)
      BY <1>3, <1>5
    <3>6. Flattens(side, map2, DOMAIN map2, before \o (queue \o behind), T)
      <4>1. PICK X : X = {p} \cup W
        OBVIOUS
      <4>2. PICK rest : rest = queue \o behind
        OBVIOUS
      <4>3. Flattens(side, map2, B \cup X, before \o rest, T)
        BY ONLY <2>5, <3>4, <3>5, <4>1, <4>2, side \in Sides, FlattensJoin
      <4> QED  BY <3>1, <4>1, <4>2, <4>3
    <3>7. Flatten(side, map2) = before \o (queue \o behind)
      BY ONLY <2>3, <3>6, side \in Sides, FlattensAll
    <3> QED  BY <2>1, <3>7
  <2> QED  BY <2>7, <2>8
<1>13. \A i \in DOMAIN before : \E q \in DOMAIN map :
          Better(side, q, p) /\ \E m \in DOMAIN map[q] : before[i] = map[q][m]
  BY <1>3, <1>6 DEF DrawnFrom
<1>14. \A i \in DOMAIN behind : \E q \in DOMAIN map :
          Better(side, p, q) /\ \E m \in DOMAIN map[q] : behind[i] = map[q][m]
  BY <1>4, <1>7 DEF DrawnFrom
<1>15. StayAround(side, map, p, T, before, behind)
  BY <1>6, <1>7, <1>8, <1>13, <1>14 DEF StayAround
<1> QED  BY <1>15

-------------------------------------------------------------------------------
(* The queues of the book.                                                 *)

FiniteLevels == \A side \in Sides : IsFiniteSet(DOMAIN levels[side])

(* What the refinement needs of a state.                                   *)
RInv == IInv /\ FiniteLevels /\ (Idle => trades = << >>)

(* An order that rests where the locator says.                             *)
Located(side, order) ==
    /\ order \in RestingOrders
    /\ order.price \in DOMAIN levels[side]
    /\ order.order_id \in DOMAIN order_locator
    /\ order_locator[order.order_id] = <<side, order.price>>

(* A side is what comes before a price, its level, and what comes behind;  *)
(* a change of the level changes nothing else.                             *)
Splits(side, p, before, behind) ==
    /\ before \in Seq(RestingOrders) /\ behind \in Seq(RestingOrders)
    /\ LevelAt(side, p) \in Seq(RestingOrders)
    /\ Queues[side] = before \o (LevelAt(side, p) \o behind)
    /\ \A queue \in Seq(RestingOrders) :
          Flatten(side, SetLevel(levels[side], p, queue)) = before \o (queue \o behind)
    /\ \A i \in DOMAIN before : Located(side, before[i]) /\ Better(side, before[i].price, p)
    /\ \A i \in DOMAIN behind : Located(side, behind[i]) /\ Better(side, p, behind[i].price)
    /\ \A i \in DOMAIN LevelAt(side, p) :
          Located(side, LevelAt(side, p)[i]) /\ LevelAt(side, p)[i].price = p

(* A side's map of levels and what rests in it.                            *)
LEMMA LevelFacts ==
    ASSUME RInv, NEW side \in Sides
    PROVE  /\ DOMAIN levels[side] \subseteq Prices /\ DOMAIN levels[side] \subseteq Nat
           /\ IsFiniteSet(DOMAIN levels[side])
           /\ levels = [s \in Sides |-> levels[s]]
           /\ levels[side] = [q \in DOMAIN levels[side] |-> levels[side][q]]
           /\ \A q \in DOMAIN levels[side] :
                 /\ levels[side][q] \in Seq(RestingOrders) /\ levels[side][q] # << >>
                 /\ \A m \in DOMAIN levels[side][q] :
                       Located(side, levels[side][q][m]) /\ levels[side][q][m].price = q
<1>1. /\ BookTypeOK /\ LevelsSound /\ EveryOrderLocated /\ FiniteLevels
  BY DEF RInv, IInv, TypeOK, LocatorExact
<1>2. /\ DOMAIN levels[side] \subseteq Prices /\ DOMAIN levels[side] \subseteq Nat
      /\ IsFiniteSet(DOMAIN levels[side]) /\ levels = [s \in Sides |-> levels[s]]
  BY <1>1, OrdersAssumption DEF BookTypeOK, IsMap, FiniteLevels
<1>3. levels[side] \in [DOMAIN levels[side] -> Seq(RestingOrders)]
  BY <1>1 DEF BookTypeOK, IsMap
<1>4. ASSUME NEW q \in DOMAIN levels[side]
      PROVE  /\ levels[side][q] \in Seq(RestingOrders) /\ levels[side][q] # << >>
             /\ \A m \in DOMAIN levels[side][q] :
                   Located(side, levels[side][q][m]) /\ levels[side][q][m].price = q
  <2>1. levels[side][q] \in Seq(RestingOrders) /\ levels[side][q] # << >>
    BY <1>1, <1>3 DEF LevelsSound
  <2>2. ASSUME NEW m \in DOMAIN levels[side][q]
        PROVE  Located(side, levels[side][q][m]) /\ levels[side][q][m].price = q
    <3>1. PICK o : o = levels[side][q][m]
      OBVIOUS
    <3>2. o.price = q
      BY <1>1, <3>1 DEF LevelsSound
    <3>3. o.order_id \in DOMAIN order_locator /\ order_locator[o.order_id] = <<side, q>>
      BY <1>1, <3>1 DEF EveryOrderLocated
    <3>4. o \in RestingOrders
      <4>1. PICK queue \in Seq(RestingOrders) : queue = levels[side][q]
        BY <2>1
      <4> QED  BY <3>1, <4>1
    <3> QED  BY <3>1, <3>2, <3>3, <3>4 DEF Located
  <2> QED  BY <2>1, <2>2
<1> QED  BY <1>2, <1>3, <1>4

(* Setting a level to what it is.                                          *)
LEMMA SetLevelSame ==
    ASSUME RInv, NEW side \in Sides, NEW p
    PROVE  SetLevel(levels[side], p, LevelAt(side, p)) = levels[side]
<1>1. PICK map : map = levels[side]
  OBVIOUS
<1>2. map = [q \in DOMAIN map |-> map[q]] /\ \A q \in DOMAIN map : map[q] # << >>
  BY <1>1, LevelFacts
<1>3. CASE p \in DOMAIN map
  <2>1. LevelAt(side, p) = map[p] /\ map[p] # << >>
    BY <1>1, <1>2, <1>3 DEF LevelAt
  <2>2. DOMAIN map \cup {p} = DOMAIN map
    BY <1>3
  <2>3. With(map, p, map[p]) = [q \in DOMAIN map |-> IF q = p THEN map[p] ELSE map[q]]
    BY <2>2 DEF With
  <2>4. With(map, p, map[p]) = [q \in DOMAIN map |-> map[q]]
    BY ONLY <2>3
  <2>5. SetLevel(map, p, map[p]) = With(map, p, map[p])
    BY <2>1 DEF SetLevel
  <2> QED  BY <2>1, <2>4, <2>5, <1>1, <1>2
<1>4. CASE p \notin DOMAIN map
  <2>1. LevelAt(side, p) = << >>
    BY <1>1, <1>4 DEF LevelAt
  <2>2. DOMAIN map \ {p} = DOMAIN map
    BY <1>4
  <2>3. Without(map, p) = [q \in DOMAIN map |-> map[q]]
    BY <2>2 DEF Without
  <2>4. SetLevel(map, p, << >>) = Without(map, p)
    BY DEF SetLevel
  <2> QED  BY <2>1, <2>3, <2>4, <1>1, <1>2
<1> QED  BY <1>3, <1>4

(* Every price splits a side so, whether it has a level or not.            *)
LEMMA SplitExists ==
    ASSUME RInv, NEW side \in Sides, NEW p \in Nat
    PROVE  \E before, behind : Splits(side, p, before, behind)
<1>1. PICK map, level : map = levels[side] /\ level = LevelAt(side, p)
  OBVIOUS
<1>2. /\ DOMAIN map \subseteq Nat /\ IsFiniteSet(DOMAIN map)
      /\ \A q \in DOMAIN map : map[q] \in Seq(RestingOrders)
      /\ \A q \in DOMAIN map : \A m \in DOMAIN map[q] :
            Located(side, map[q][m]) /\ map[q][m].price = q
  <2>1. DOMAIN levels[side] \subseteq Nat /\ IsFiniteSet(DOMAIN levels[side])
    BY LevelFacts
  <2>2. \A q \in DOMAIN levels[side] :
            /\ levels[side][q] \in Seq(RestingOrders)
            /\ \A m \in DOMAIN levels[side][q] :
                  Located(side, levels[side][q][m]) /\ levels[side][q][m].price = q
    BY LevelFacts
  <2> QED  BY ONLY <1>1, <2>1, <2>2
<1>3. PICK before, behind :
         /\ before \in Seq(RestingOrders) /\ behind \in Seq(RestingOrders)
         /\ \A queue \in Seq(RestingOrders) :
               Flatten(side, SetLevel(map, p, queue)) = before \o (queue \o behind)
         /\ \A i \in DOMAIN before : \E q \in DOMAIN map :
               Better(side, q, p) /\ \E m \in DOMAIN map[q] : before[i] = map[q][m]
         /\ \A i \in DOMAIN behind : \E q \in DOMAIN map :
               Better(side, p, q) /\ \E m \in DOMAIN map[q] : behind[i] = map[q][m]
  <2>1. \E before, behind : StayAround(side, map, p, RestingOrders, before, behind)
    BY ONLY <1>2, side \in Sides, p \in Nat, LevelSplit
  <2> QED  BY <2>1 DEF StayAround
<1>4. level \in Seq(RestingOrders)
  BY <1>1, <1>2 DEF LevelAt
<1>5. Queues[side] = before \o (level \o behind)
  <2>1. Queues[side] = Flatten(side, map)
    BY <1>1 DEF Queues
  <2>2. SetLevel(map, p, level) = map
    BY <1>1, SetLevelSame
  <2> QED  BY <1>3, <1>4, <2>1, <2>2
<1>6. \A i \in DOMAIN before : Located(side, before[i]) /\ Better(side, before[i].price, p)
  BY <1>2, <1>3
<1>7. \A i \in DOMAIN behind : Located(side, behind[i]) /\ Better(side, p, behind[i].price)
  BY <1>2, <1>3
<1>8. \A i \in DOMAIN level : Located(side, level[i]) /\ level[i].price = p
  BY <1>1, <1>2 DEF LevelAt
<1>9. Splits(side, p, before, behind)
  BY <1>1, <1>3, <1>4, <1>5, <1>6, <1>7, <1>8 DEF Splits
<1> QED  BY <1>9

(* Nothing comes before the best price.                                    *)
LEMMA NothingBeforeBest ==
    ASSUME RInv, NEW side \in Sides, NEW p \in Nat, IsBest(side, p)
    PROVE  \E behind : Splits(side, p, << >>, behind)
<1>1. PICK before, behind : Splits(side, p, before, behind)
  BY SplitExists
<1>2. before \in Seq(RestingOrders)
  BY <1>1 DEF Splits
<1>3. \A i \in DOMAIN before : FALSE
  <2> SUFFICES ASSUME NEW i \in DOMAIN before PROVE FALSE
    OBVIOUS
  <2>1. before[i].price \in DOMAIN levels[side] /\ Better(side, before[i].price, p)
    BY <1>1 DEF Splits, Located
  <2> QED  BY <2>1 DEF IsBest
<1>4. PICK n \in Nat : n = Len(before) /\ DOMAIN before = 1 .. n
  BY <1>2
<1>5. n = 0
  <2> SUFFICES ASSUME n # 0 PROVE FALSE
    OBVIOUS
  <2>1. 1 \in DOMAIN before
    BY ONLY <1>4, n # 0
  <2> QED  BY <1>3, <2>1
<1>6. before = << >>
  BY ONLY <1>2, <1>4, <1>5, EmptySeq
<1> QED  BY <1>1, <1>6

(* What a change of one level makes of the queues.                         *)
QueueBecomes(side, queue, old, new) ==
    /\ new = [s \in Sides |-> new[s]]
    /\ new[side] = queue
    /\ \A s \in Sides \ {side} : new[s] = old[s]

LEMMA LevelChanged ==
    ASSUME RInv, NEW side \in Sides, NEW p, NEW before, NEW behind, Splits(side, p, before, behind),
           NEW queue \in Seq(RestingOrders),
           levels' = [levels EXCEPT ![side] = SetLevel(@, p, queue)]
    PROVE  QueueBecomes(side, before \o (queue \o behind), Queues, Queues')
<1>1. Queues = [s \in Sides |-> Flatten(s, levels[s])]
  BY DEF Queues
<1>2. Queues' = [s \in Sides |-> Flatten(s, levels'[s])]
  BY DEF Queues
<1>3. levels = [s \in Sides |-> levels[s]]
  BY LevelFacts
<1>4. levels'[side] = SetLevel(levels[side], p, queue) /\ \A s \in Sides \ {side} : levels'[s] = levels[s]
  BY <1>3
<1>5. Flatten(side, SetLevel(levels[side], p, queue)) = before \o (queue \o behind)
  BY DEF Splits
<1>6. Queues' = [s \in Sides |-> Queues'[s]]
  BY <1>2
<1>7. Queues'[side] = before \o (queue \o behind)
  BY <1>2, <1>4, <1>5
<1>8. \A s \in Sides \ {side} : Queues'[s] = Queues[s]
  BY <1>1, <1>2, <1>4
<1> QED  BY <1>6, <1>7, <1>8 DEF QueueBecomes

(* The parts of a side.                                                    *)
Parts(queue, before, level, behind) ==
    /\ queue \in Seq(RestingOrders)
    /\ Len(before) \in Nat /\ Len(level) \in Nat /\ Len(behind) \in Nat
    /\ Len(queue) = (Len(before) + Len(level)) + Len(behind)
    /\ \A i \in 1 .. Len(before) : i \in DOMAIN before /\ queue[i] = before[i]
    /\ \A i \in 1 .. Len(level) :
          i \in DOMAIN level /\ queue[Len(before) + i] = level[i]
    /\ \A i \in 1 .. Len(behind) :
          i \in DOMAIN behind /\ queue[(Len(before) + Len(level)) + i] = behind[i]

(* A split says where each order of the side is.                           *)
LEMMA SplitParts ==
    ASSUME RInv, NEW side \in Sides, NEW p, NEW before, NEW behind, Splits(side, p, before, behind)
    PROVE  Parts(Queues[side], before, LevelAt(side, p), behind)
<1>1. PICK queue, level, half : /\ queue = Queues[side] /\ level = LevelAt(side, p)
                                /\ half = level \o behind
  OBVIOUS
<1>2. /\ before \in Seq(RestingOrders) /\ level \in Seq(RestingOrders) /\ behind \in Seq(RestingOrders)
      /\ queue = before \o half
  BY <1>1 DEF Splits
<1>3. PICK a \in Nat, b \in Nat, c \in Nat : a = Len(before) /\ b = Len(level) /\ c = Len(behind)
  BY <1>2
<1>4. /\ half \in Seq(RestingOrders) /\ Len(half) = b + c
      /\ DOMAIN level = 1 .. b /\ DOMAIN behind = 1 .. c
      /\ \A i \in 1 .. b + c : half[i] = IF i <= b THEN level[i] ELSE behind[i - b]
  BY <1>1, <1>2, <1>3, JoinOf
<1>5. /\ queue \in Seq(RestingOrders) /\ Len(queue) = a + (b + c)
      /\ DOMAIN before = 1 .. a
      /\ \A i \in 1 .. a + (b + c) : queue[i] = IF i <= a THEN before[i] ELSE half[i - a]
  <2>1. /\ queue \in Seq(RestingOrders) /\ Len(queue) = Len(before) + Len(half)
        /\ DOMAIN before = 1 .. Len(before)
        /\ \A i \in 1 .. Len(before) + Len(half) :
              queue[i] = IF i <= Len(before) THEN before[i] ELSE half[i - Len(before)]
    BY <1>2, <1>4, JoinOf
  <2> QED  BY ONLY <2>1, <1>3, <1>4
<1>6. \A i \in 1 .. a : i \in DOMAIN before /\ queue[i] = before[i]
  BY <1>5
<1>7. ASSUME NEW i \in 1 .. b
      PROVE  i \in DOMAIN level /\ queue[a + i] = level[i]
  <2>1. a + i \in 1 .. a + (b + c) /\ ~ (a + i <= a) /\ (a + i) - a = i /\ i \in 1 .. b + c /\ i <= b
    OBVIOUS
  <2>2. queue[a + i] = half[(a + i) - a]
    BY ONLY <2>1, <1>5
  <2>3. half[i] = level[i]
    BY ONLY <2>1, <1>4
  <2> QED  BY <2>1, <2>2, <2>3, <1>4
<1>8. ASSUME NEW i \in 1 .. c
      PROVE  i \in DOMAIN behind /\ queue[(a + b) + i] = behind[i]
  <2>1. /\ (a + b) + i \in 1 .. a + (b + c) /\ ~ ((a + b) + i <= a) /\ ((a + b) + i) - a = b + i
        /\ b + i \in 1 .. b + c /\ ~ (b + i <= b) /\ (b + i) - b = i
    OBVIOUS
  <2>2. queue[(a + b) + i] = half[((a + b) + i) - a]
    BY ONLY <2>1, <1>5
  <2>3. half[b + i] = behind[(b + i) - b]
    BY ONLY <2>1, <1>4
  <2> QED  BY <2>1, <2>2, <2>3, <1>4
<1>9. a + (b + c) = (a + b) + c
  OBVIOUS
<1>10. Parts(queue, before, level, behind)
  BY <1>3, <1>5, <1>6, <1>7, <1>8, <1>9 DEF Parts
<1> QED  BY <1>1, <1>10

(* Where an order of a side is, seen from a price.                         *)
LEMMA SplitMember ==
    ASSUME RInv, NEW side \in Sides, NEW p, NEW before, NEW behind, Splits(side, p, before, behind),
           NEW i \in DOMAIN Queues[side]
    PROVE  LET o == Queues[side][i]
           IN  /\ Located(side, o)
               /\ \/ i <= Len(before) /\ Better(side, o.price, p)
                  \/ /\ i > Len(before) /\ i <= Len(before) + Len(LevelAt(side, p))
                     /\ o.price = p
                  \/ i > Len(before) + Len(LevelAt(side, p)) /\ Better(side, p, o.price)
<1>1. PICK queue, level : queue = Queues[side] /\ level = LevelAt(side, p)
  OBVIOUS
<1>2. PICK a \in Nat, b \in Nat, c \in Nat :
         /\ a = Len(before) /\ b = Len(level)
         /\ queue \in Seq(RestingOrders) /\ Len(queue) = (a + b) + c
         /\ \A k \in 1 .. a : k \in DOMAIN before /\ queue[k] = before[k]
         /\ \A k \in 1 .. b : k \in DOMAIN level /\ queue[a + k] = level[k]
         /\ \A k \in 1 .. c : k \in DOMAIN behind /\ queue[(a + b) + k] = behind[k]
  <2>1. Parts(queue, before, level, behind)
    BY <1>1, SplitParts
  <2> QED  BY <2>1 DEF Parts
<1>3. /\ \A k \in DOMAIN before : Located(side, before[k]) /\ Better(side, before[k].price, p)
      /\ \A k \in DOMAIN behind : Located(side, behind[k]) /\ Better(side, p, behind[k].price)
      /\ \A k \in DOMAIN level : Located(side, level[k]) /\ level[k].price = p
  BY <1>1 DEF Splits
<1>4. i \in 1 .. (a + b) + c
  BY <1>1, <1>2
<1>5. CASE i <= a
  <2>1. i \in 1 .. a
    BY <1>4, <1>5
  <2>2. Located(side, queue[i]) /\ Better(side, queue[i].price, p)
    BY ONLY <2>1, <1>2, <1>3
  <2>3. i <= Len(before)
    BY ONLY <1>5, <1>2
  <2> QED  BY ONLY <2>2, <2>3, <1>1, <1>2
<1>6. CASE i > a /\ i <= a + b
  <2>1. PICK k \in 1 .. b : i = a + k
    <3>1. i - a \in 1 .. b /\ i = a + (i - a)
      BY <1>4, <1>6
    <3> QED  BY <3>1
  <2>2. Located(side, queue[i]) /\ queue[i].price = p
    BY ONLY <2>1, <1>2, <1>3
  <2>3. i > Len(before) /\ i <= Len(before) + Len(level)
    BY ONLY <1>6, <1>2
  <2> QED  BY ONLY <2>2, <2>3, <1>1, <1>2
<1>7. CASE i > a + b
  <2>1. PICK k \in 1 .. c : i = (a + b) + k
    <3>1. i - (a + b) \in 1 .. c /\ i = (a + b) + (i - (a + b))
      BY <1>4, <1>7
    <3> QED  BY <3>1
  <2>2. Located(side, queue[i]) /\ Better(side, p, queue[i].price)
    BY ONLY <2>1, <1>2, <1>3
  <2>3. i > Len(before) + Len(level)
    BY ONLY <1>7, <1>2
  <2> QED  BY ONLY <2>2, <2>3, <1>1, <1>2
<1> QED  BY <1>4, <1>5, <1>6, <1>7

(* Every order in the queues is one that rests, where the locator says.    *)
LEMMA QueueMembers ==
    ASSUME RInv, NEW side \in Sides
    PROVE  /\ Queues[side] \in Seq(RestingOrders) /\ Queues[side] \in Seq(LimitOrder)
           /\ \A i \in DOMAIN Queues[side] : Located(side, Queues[side][i])
<1>1. PICK before, behind : Splits(side, 0, before, behind)
  <2>1. 0 \in Nat
    OBVIOUS
  <2> QED  BY <2>1, SplitExists
<1>2. Queues[side] \in Seq(RestingOrders)
  BY <1>1, SplitParts DEF Parts
<1>3. RestingOrders \subseteq LimitOrder
  BY DEF RestingOrders
<1>4. Queues[side] \in Seq(LimitOrder)
  BY <1>2, <1>3
<1>5. \A i \in DOMAIN Queues[side] : Located(side, Queues[side][i])
  BY <1>1, SplitMember
<1> QED  BY <1>2, <1>4, <1>5

(* They are sound, so the lemmas about one call apply to them.             *)
LEMMA QueuesSound ==
    ASSUME RInv
    PROVE  SoundBook(Queues)
<1>1. Queues = [s \in Sides |-> Queues[s]]
  BY DEF Queues
<1>2. ASSUME NEW side \in Sides
      PROVE  SoundQueue(side, Queues[side])
  <2>1. PICK queue : queue = Queues[side]
    OBVIOUS
  <2>2. /\ queue \in Seq(LimitOrder) /\ queue \in Seq(RestingOrders)
        /\ \A i \in DOMAIN queue : Located(side, queue[i])
    BY <2>1, QueueMembers
  <2>3. \A i \in DOMAIN queue : queue[i].quantity > 0 /\ queue[i].price \in Nat
    <3> TAKE i \in DOMAIN queue
    <3>1. queue[i] \in RestingOrders
      BY <2>2 DEF Located
    <3> QED  BY <3>1, OrdersAssumption DEF RestingOrders, LimitOrder
  <2>4. ASSUME NEW i \in DOMAIN queue, NEW j \in DOMAIN queue, i < j
        PROVE  ~ Better(side, queue[j].price, queue[i].price)
    <3>1. PICK p \in Nat, r \in Nat : p = queue[i].price /\ r = queue[j].price
      BY <2>3
    <3>2. PICK before, behind : Splits(side, p, before, behind)
      BY SplitExists
    <3>3. PICK a \in Nat, b \in Nat : a = Len(before) /\ b = Len(LevelAt(side, p))
      BY <3>2, SplitParts DEF Parts
    <3>4. \/ i <= a /\ Better(side, p, p)
          \/ i > a /\ i <= a + b /\ p = p
          \/ i > a + b /\ Better(side, p, p)
      BY <2>1, <3>1, <3>2, <3>3, SplitMember
    <3>5. \/ j <= a /\ Better(side, r, p)
          \/ j > a /\ j <= a + b /\ r = p
          \/ j > a + b /\ Better(side, p, r)
      BY <2>1, <3>1, <3>2, <3>3, SplitMember
    <3>6. ~ Better(side, p, p) /\ (Better(side, p, r) => ~ Better(side, r, p))
      BY BetterOrders
    <3>7. i \in Nat /\ j \in Nat
      BY <2>2
    <3>8. ~ (j <= a)
      BY <2>4, <3>4, <3>6, <3>7
    <3>9. ~ Better(side, r, p)
      BY <3>5, <3>6, <3>8
    <3> QED  BY <3>1, <3>9
  <2>5. SoundQueue(side, queue)
    BY <2>2, <2>3, <2>4 DEF SoundQueue
  <2> QED  BY <2>1, <2>5
<1>3. \A side \in Sides : Queues[side] \in Seq(LimitOrder)
  BY QueueMembers
<1>4. Queues \in [Sides -> Seq(LimitOrder)]
  BY <1>1, <1>3
<1> QED  BY <1>2, <1>4 DEF SoundBook

(* The ids in the queues are those the locator knows.                      *)
LEMMA RestingQueues ==
    ASSUME RInv
    PROVE  RestingIds(Queues) = DOMAIN order_locator
<1>1. RestingIds(Queues) = UNION {{Queues[s][i].order_id : i \in DOMAIN Queues[s]} : s \in Sides}
  BY DEF RestingIds
<1>2. \A s \in Sides : \A i \in DOMAIN Queues[s] : Queues[s][i].order_id \in DOMAIN order_locator
  BY QueueMembers DEF Located
<1>3. ASSUME NEW id \in DOMAIN order_locator
      PROVE  \E s \in Sides : \E i \in DOMAIN Queues[s] : Queues[s][i].order_id = id
  <2>1. PICK side, p : /\ side \in Sides
                       /\ order_locator[id] = <<side, p>> /\ p \in DOMAIN levels[side]
                       /\ \E i \in DOMAIN levels[side][p] : levels[side][p][i].order_id = id
    <3>1. EveryLocatedRests /\ order_locator[id] \in Sides \X Prices
      BY DEF RInv, IInv, LocatorExact, TypeOK, BookTypeOK, IsMap
    <3> QED  BY <3>1 DEF EveryLocatedRests
  <2>2. p \in Nat
    BY <2>1, LevelFacts
  <2>3. PICK m \in DOMAIN LevelAt(side, p) : LevelAt(side, p)[m].order_id = id
    BY <2>1 DEF LevelAt
  <2>4. PICK before, behind : Splits(side, p, before, behind)
    BY <2>1, <2>2, SplitExists
  <2>5. PICK queue, level : queue = Queues[side] /\ level = LevelAt(side, p)
    OBVIOUS
  <2>6. PICK a \in Nat, b \in Nat, c \in Nat :
           /\ b = Len(level) /\ queue \in Seq(RestingOrders) /\ Len(queue) = (a + b) + c
           /\ \A k \in 1 .. b : k \in DOMAIN level /\ queue[a + k] = level[k]
    <3>1. Parts(queue, before, level, behind)
      BY <2>1, <2>4, <2>5, SplitParts
    <3> QED  BY <3>1 DEF Parts
  <2>7. level \in Seq(RestingOrders)
    BY <2>4, <2>5 DEF Splits
  <2>8. m \in 1 .. b
    BY <2>5, <2>6, <2>7
  <2>9. a + m \in DOMAIN queue /\ queue[a + m].order_id = id
    BY <2>3, <2>5, <2>6, <2>8
  <2> QED  BY <2>1, <2>5, <2>9
<1>4. \A id : id \in RestingIds(Queues)
                  <=> \E s \in Sides : \E i \in DOMAIN Queues[s] : id = Queues[s][i].order_id
  <2> QED  BY ONLY <1>1
<1> QED  BY <1>2, <1>3, <1>4

-------------------------------------------------------------------------------
(* What is left of a running call.                                         *)

(* The book with one side's queue changed.                                 *)
LEMMA SideChanged ==
    ASSUME NEW book, SoundBook(book), NEW side \in Sides,
           NEW new, new = [s \in Sides |-> new[s]],
           new[side] = book[side], SoundQueue(Opposite(side), new[Opposite(side)])
    PROVE  SoundBook(new)
<1>1. \A s \in Sides : s = side \/ s = Opposite(side)
  BY DEF Sides, Opposite
<1>2. SoundQueue(side, new[side])
  BY DEF SoundBook
<1>3. \A s \in Sides : SoundQueue(s, new[s])
  BY <1>1, <1>2
<1>4. \A s \in Sides : new[s] \in Seq(LimitOrder)
  BY <1>3 DEF SoundQueue
<1>5. new \in [Sides -> Seq(LimitOrder)]
  BY <1>4
<1> QED  BY <1>3, <1>5 DEF SoundBook

(* What is left to do for a call is to place what is left of its order.    *)
Completed(order, book) == IF order.quantity = 0 THEN book ELSE BookAfterPlace(order, book)

(* An order without lots changes nothing, so the test for it is not needed. *)
LEMMA CompletedPlaces ==
    ASSUME NEW order \in LimitOrder, NEW book, SoundBook(book)
    PROVE  Completed(order, book) = BookAfterPlace(order, book)
<1>1. CASE order.quantity = 0
  BY <1>1, PlaceNothing DEF Completed
<1>2. CASE order.quantity # 0
  BY <1>2 DEF Completed
<1> QED  BY <1>1, <1>2

(* That is the abstract state while a call runs, ...                       *)
LEMMA CompletedIs ==
    ~ Idle => /\ CompletedBook = Completed(incoming, Queues)
              /\ CompletedReply
                   = Accepted(PlaceOutcome(incoming, Queues).remaining_quantity,
                              trades \o PlaceOutcome(incoming, Queues).trades)
<1> SUFFICES ASSUME ~ Idle
             PROVE  /\ CompletedBook = Completed(incoming, Queues)
                    /\ CompletedReply
                         = Accepted(PlaceOutcome(incoming, Queues).remaining_quantity,
                                    trades \o PlaceOutcome(incoming, Queues).trades)
  OBVIOUS
<1>1. CompletedBook = Completed(incoming, Queues)
  BY DEF CompletedBook, Completed
<1>2. PICK left, made : PlaceOutcome(incoming, Queues) = Accepted(left, made)
  BY DEF PlaceOutcome
<1>3. CompletedReply = [Accepted(left, made) EXCEPT !.trades = trades \o made]
  BY <1>2 DEF CompletedReply, Accepted
<1>4. CompletedReply = Accepted(left, trades \o made)
  BY <1>3 DEF Accepted
<1>5. PlaceOutcome(incoming, Queues).remaining_quantity = left /\ PlaceOutcome(incoming, Queues).trades = made
  BY <1>2 DEF Accepted
<1> QED  BY <1>1, <1>4, <1>5

(* ... and after a step that does not end it.                              *)
LEMMA CompletedNext ==
    ASSUME ~ Idle'
    PROVE  /\ CompletedBook' = Completed(incoming', Queues')
           /\ CompletedReply'
                = Accepted(PlaceOutcome(incoming', Queues').remaining_quantity,
                           trades' \o PlaceOutcome(incoming', Queues').trades)
<1>1. (~ Idle => /\ CompletedBook = Completed(incoming, Queues)
                 /\ CompletedReply
                      = Accepted(PlaceOutcome(incoming, Queues).remaining_quantity,
                                 trades \o PlaceOutcome(incoming, Queues).trades))'
  BY CompletedIs, PTL
<1> QED  BY <1>1

(* A round that exhausts the best maker leaves the same to be done.        *)
LEMMA FillMakerStutters ==
    ASSUME RInv, NEW price \in Prices, FillMaker(price)
    PROVE  CompletedBook' = CompletedBook /\ CompletedReply' = CompletedReply
<1>1. PICK order, other, level, maker :
         /\ order = incoming /\ other = Opposite(order.side)
         /\ level = levels[other][price] /\ maker = Head(level)
  OBVIOUS
<1>2. Matchable(price) /\ maker.quantity <= order.quantity
      /\ Match(price, maker, maker.quantity)
      /\ levels' = [levels EXCEPT ![other] = SetLevel(@, price, Tail(level))]
  BY <1>1 DEF FillMaker, Exhausts
<1>3. IInv
  BY DEF RInv
<1>4. /\ order \in LimitOrder /\ order.quantity > 0
      /\ other \in Sides /\ price \in DOMAIN levels[other]
      /\ level \in Seq(RestingOrders) /\ level # << >>
      /\ maker = level[1] /\ maker \in RestingOrders
  BY <1>1, <1>2, <1>3, MakerFacts
<1>5. price \in Nat
  BY OrdersAssumption
<1>6. IsBest(other, price) /\ Crosses(order, price) /\ ~ Idle
  BY <1>1, <1>2 DEF Matchable
<1>7. PICK behind : Splits(other, price, << >>, behind)
  BY <1>4, <1>5, <1>6, NothingBeforeBest
<1>8. LevelAt(other, price) = level
  BY <1>1, <1>4 DEF LevelAt
<1>9. PICK Q, R, makers : Q = Queues /\ R = Queues' /\ makers = Q[other]
  OBVIOUS
<1>10. behind \in Seq(RestingOrders) /\ makers = << >> \o (level \o behind)
       /\ level[1].price = price
  <2>1. 1 \in DOMAIN level
    BY <1>4
  <2> QED  BY <2>1, <1>7, <1>8, <1>9 DEF Splits
<1>11. Tail(level) \in Seq(RestingOrders)
  BY <1>4, HeadTailProperties
<1>12. /\ R = [s \in Sides |-> R[s]] /\ R[other] = << >> \o (Tail(level) \o behind)
       /\ \A s \in Sides \ {other} : R[s] = Q[s]
  <2>1. QueueBecomes(other, << >> \o (Tail(level) \o behind), Queues, Queues')
    BY <1>2, <1>4, <1>7, <1>11, LevelChanged
  <2> QED  BY <2>1, <1>9 DEF QueueBecomes
<1>13. /\ makers \in Seq(RestingOrders) /\ makers # << >> /\ makers[1] = maker
       /\ R[other] = Tail(makers)
  <2>1. PICK all, same, changed : /\ all = level \o behind
                                  /\ HeadBecomes(level, maker, same)
                                  /\ HeadBecomes(all, maker, changed)
    BY DEF HeadBecomes
  <2>2. all \in Seq(RestingOrders) /\ all # << >> /\ all[1] = level[1] /\ Tail(all) = Tail(level) \o behind
    BY <2>1, <1>4, <1>10, maker \in RestingOrders, HeadOfJoin
  <2>3. << >> \o all = all
    BY <2>2, ConcatEmptySeq
  <2>4. Tail(level) \o behind \in Seq(RestingOrders)
    BY <1>10, <1>11, JoinOf
  <2>5. << >> \o (Tail(level) \o behind) = Tail(level) \o behind
    BY <2>4, ConcatEmptySeq
  <2> QED  BY <2>1, <2>2, <2>3, <2>5, <1>4, <1>10, <1>12
<1>14. SoundBook(Q)
  BY <1>9, QueuesSound
<1>15. order.side \in Sides /\ R[order.side] = Q[order.side]
  <2>1. order.side \in Sides /\ order.side # other
    BY <1>1, <1>4 DEF LimitOrder, Sides, Opposite
  <2> QED  BY <2>1, <1>12
<1>16. SoundBook(R)
  <2>1. SoundQueue(other, makers)
    BY <1>4, <1>9, <1>14 DEF SoundBook
  <2>2. SoundQueue(other, Tail(makers))
    BY <2>1, <1>13, TailSound
  <2> QED  BY <2>2, <1>1, <1>12, <1>13, <1>14, <1>15, SideChanged
<1>17. PICK less : less = [order EXCEPT !.quantity = order.quantity - makers[1].quantity]
  OBVIOUS
<1>18. makers[1].quantity <= order.quantity /\ Crosses(order, makers[1].price)
  BY <1>2, <1>4, <1>6, <1>10, <1>13
<1>19. PICK left, made, x :
         /\ left = PlaceOutcome(less, R).remaining_quantity
         /\ made = PlaceOutcome(less, R).trades
         /\ x = TradeOf(makers[1], order, makers[1].price, makers[1].quantity)
  OBVIOUS
<1>20. /\ less \in LimitOrder
       /\ BookAfterPlace(order, Q) = BookAfterPlace(less, R)
       /\ PlaceOutcome(order, Q) = Accepted(left, <<x>> \o made)
  <2>1. order \in LimitOrder /\ SoundBook(Q) /\ SoundBook(R)
    BY <1>4, <1>14, <1>16
  <2>2. makers = Q[Opposite(order.side)] /\ R[Opposite(order.side)] = Tail(makers)
    BY <1>1, <1>9, <1>13
  <2>3. makers # << >> /\ R[order.side] = Q[order.side]
    BY <1>13, <1>15
  <2>4. PlacesAs(order, Q, TradeOf(makers[1], order, makers[1].price, makers[1].quantity), less, R)
    BY ONLY <2>1, <2>2, <2>3, <1>17, <1>18, PlaceAfterExhausted
  <2> QED  BY <2>4, <1>19 DEF PlacesAs
<1>21. incoming' = less /\ trades' = Append(trades, x)
  BY <1>1, <1>2, <1>10, <1>4, <1>13, <1>17, <1>19 DEF Match
<1>22. ~ Idle'
  BY <1>20, <1>21, OrderBookAssumption DEF Idle
<1>23. CompletedBook = BookAfterPlace(order, Q)
       /\ CompletedReply = Accepted(left, trades \o (<<x>> \o made))
  <2>1. CompletedBook = Completed(order, Q)
    BY <1>1, <1>6, <1>9, CompletedIs
  <2>2. CompletedReply = Accepted(PlaceOutcome(order, Q).remaining_quantity,
                                  trades \o PlaceOutcome(order, Q).trades)
    BY <1>1, <1>6, <1>9, CompletedIs
  <2>3. PlaceOutcome(order, Q).remaining_quantity = left /\ PlaceOutcome(order, Q).trades = <<x>> \o made
    BY <1>20 DEF Accepted
  <2> QED  BY <2>1, <2>2, <2>3, <1>4, <1>14, CompletedPlaces
<1>24. CompletedBook' = BookAfterPlace(less, R)
       /\ CompletedReply' = Accepted(left, trades' \o made)
  <2>1. CompletedBook' = Completed(less, R)
    BY <1>21, <1>22, <1>9, CompletedNext
  <2>2. CompletedReply' = Accepted(PlaceOutcome(less, R).remaining_quantity,
                                   trades' \o PlaceOutcome(less, R).trades)
    BY <1>21, <1>22, <1>9, CompletedNext
  <2> QED  BY <2>1, <2>2, <1>16, <1>19, <1>20, CompletedPlaces
<1>25. trades' \o made = trades \o (<<x>> \o made)
  <2>1. trades \in Seq(Trade)
    BY <1>3 DEF IInv, TypeOK
  <2>2. x \in Trade
    <3>1. makers[1] \in LimitOrder /\ makers[1].quantity \in Nat /\ makers[1].price \in Prices
      BY <1>4, <1>13 DEF RestingOrders, LimitOrder
    <3> QED  BY <3>1, <1>4, <1>19 DEF TradeOf, Trade, LimitOrder
  <2>3. made \in Seq(Trade)
    BY <1>16, <1>19, <1>20, OutcomeSound
  <2>4. \A a, c \in Seq(Trade) : \A e \in Trade : Append(a, e) \o c = a \o (<<e>> \o c)
    <3> TAKE a, c \in Seq(Trade)
    <3> TAKE e \in Trade
    <3>1. PICK u, v, w : u = Append(a, e) \o c /\ v = a \o (<<e>> \o c) /\ w = <<e>> \o c
      OBVIOUS
    <3> QED  OBVIOUS
  <2> QED  BY <2>1, <2>2, <2>3, <2>4, <1>21
<1> QED  BY <1>20, <1>23, <1>24, <1>25

(* A round that fills the order leaves the book and the outcome placing it *)
(* leaves.                                                                 *)
LEMMA ReduceMakerStutters ==
    ASSUME RInv, NEW price \in Prices, ReduceMaker(price)
    PROVE  CompletedBook' = CompletedBook /\ CompletedReply' = CompletedReply
<1>1. PICK order, other, level, maker, left :
         /\ order = incoming /\ other = Opposite(order.side)
         /\ level = levels[other][price] /\ maker = Head(level)
         /\ left = maker.quantity - order.quantity
  OBVIOUS
<1>2. Matchable(price) /\ ~ (maker.quantity <= order.quantity)
      /\ Match(price, maker, order.quantity)
      /\ levels' = [levels EXCEPT ![other] = SetLevel(@, price, PushMakerFront(level, left))]
  BY <1>1 DEF ReduceMaker, Exhausts
<1>3. IInv
  BY DEF RInv
<1>4. /\ order \in LimitOrder /\ order.quantity > 0
      /\ other \in Sides /\ price \in DOMAIN levels[other]
      /\ level \in Seq(RestingOrders) /\ level # << >>
      /\ maker = level[1] /\ maker \in RestingOrders
  BY <1>1, <1>2, <1>3, MakerFacts
<1>5. price \in Nat
  BY OrdersAssumption
<1>6. IsBest(other, price) /\ Crosses(order, price) /\ ~ Idle
  BY <1>1, <1>2 DEF Matchable
<1>7. PICK behind : Splits(other, price, << >>, behind)
  BY <1>4, <1>5, <1>6, NothingBeforeBest
<1>8. LevelAt(other, price) = level
  BY <1>1, <1>4 DEF LevelAt
<1>9. PICK Q, R, makers : Q = Queues /\ R = Queues' /\ makers = Q[other]
  OBVIOUS
<1>10. behind \in Seq(RestingOrders) /\ makers = << >> \o (level \o behind)
       /\ level[1].price = price
  <2>1. 1 \in DOMAIN level
    BY <1>4
  <2> QED  BY <2>1, <1>7, <1>8, <1>9 DEF Splits
<1>11. maker.quantity \in Nat /\ order.quantity \in Nat /\ left \in Nat /\ left > 0
  <2>1. maker.quantity \in Nat /\ order.quantity \in Nat
    BY <1>4 DEF RestingOrders, LimitOrder
  <2> QED  BY <2>1, <1>1, <1>2
<1>12. PICK reduced : reduced = [maker EXCEPT !.quantity = left]
  OBVIOUS
<1>13. reduced \in RestingOrders
  BY <1>4, <1>11, <1>12 DEF RestingOrders, LimitOrder
<1>14. PICK new : new = [level EXCEPT ![1] = reduced]
  OBVIOUS
<1>15. new = PushMakerFront(level, left) /\ new \in Seq(RestingOrders)
  BY <1>4, <1>12, <1>13, <1>14 DEF PushMakerFront
<1>16. /\ R = [s \in Sides |-> R[s]] /\ R[other] = << >> \o (new \o behind)
       /\ \A s \in Sides \ {other} : R[s] = Q[s]
  <2>1. levels' = [levels EXCEPT ![other] = SetLevel(@, price, new)]
    BY <1>2, <1>15
  <2>2. QueueBecomes(other, << >> \o (new \o behind), Queues, Queues')
    BY <2>1, <1>4, <1>7, <1>15, LevelChanged
  <2> QED  BY <2>2, <1>9 DEF QueueBecomes
<1>17. /\ makers \in Seq(RestingOrders) /\ makers # << >> /\ makers[1] = maker
       /\ R[other] = [makers EXCEPT ![1] = reduced]
  <2>1. PICK all, changed : all = level \o behind /\ HeadBecomes(all, reduced, changed)
    BY DEF HeadBecomes
  <2>2. all \in Seq(RestingOrders) /\ all # << >> /\ all[1] = level[1]
        /\ changed = new \o behind
    <3>1. HeadBecomes(level, reduced, new)
      BY <1>14 DEF HeadBecomes
    <3>2. level \in Seq(RestingOrders) /\ level # << >> /\ behind \in Seq(RestingOrders)
      BY <1>4, <1>10
    <3>3. all \in Seq(RestingOrders) /\ all # << >> /\ all[1] = level[1]
      BY ONLY <3>1, <3>2, <2>1, <1>13, HeadOfJoin
    <3>4. JoinedFrom(changed, new, behind)
      BY ONLY <3>1, <3>2, <2>1, <1>13, HeadOfJoin
    <3> QED  BY <3>3, <3>4 DEF JoinedFrom
  <2>6. changed = [all EXCEPT ![1] = reduced]
    BY <2>1 DEF HeadBecomes
  <2>3. << >> \o all = all
    BY <2>2, ConcatEmptySeq
  <2>4. new \o behind \in Seq(RestingOrders)
    BY <1>10, <1>15, JoinOf
  <2>5. << >> \o (new \o behind) = new \o behind
    BY <2>4, ConcatEmptySeq
  <2> QED  BY <2>1, <2>2, <2>3, <2>5, <2>6, <1>4, <1>10, <1>16
<1>18. SoundBook(Q) /\ SoundQueue(other, makers)
  <2>1. SoundBook(Q)
    BY <1>9, QueuesSound
  <2> QED  BY <2>1, <1>4, <1>9 DEF SoundBook
<1>19. order.side \in Sides /\ R[order.side] = Q[order.side]
  <2>1. order.side \in Sides /\ order.side # other
    BY <1>1, <1>4 DEF LimitOrder, Sides, Opposite
  <2> QED  BY <2>1, <1>16
<1>20. R[other] = [makers EXCEPT ![1].quantity = makers[1].quantity - order.quantity]
  BY <1>1, <1>12, <1>17
<1>21. 0 < order.quantity /\ order.quantity < makers[1].quantity /\ Crosses(order, makers[1].price)
  BY <1>2, <1>4, <1>6, <1>10, <1>11, <1>17
<1>22. SoundBook(R)
  <2>1. /\ AfterFills(order, makers)
             = [makers EXCEPT ![1].quantity = makers[1].quantity - order.quantity]
        /\ SoundQueue(other, AfterFills(order, makers))
    BY <1>1, <1>4, <1>17, <1>18, <1>21, HeadReduced, AfterFillsSound
  <2>2. SoundQueue(other, R[other])
    BY <2>1, <1>20
  <2> QED  BY <2>2, <1>1, <1>16, <1>18, <1>19, SideChanged
<1>23. PICK x : x = TradeOf(makers[1], order, makers[1].price, order.quantity)
  OBVIOUS
<1>24. BookAfterPlace(order, Q) = R /\ PlaceOutcome(order, Q) = Accepted(0, <<x>>)
  <2>1. order \in LimitOrder /\ SoundBook(Q) /\ SoundBook(R)
    BY <1>4, <1>18, <1>22
  <2>2. makers = Q[Opposite(order.side)] /\ makers # << >> /\ R[order.side] = Q[order.side]
        /\ R[Opposite(order.side)] = [makers EXCEPT ![1].quantity = makers[1].quantity - order.quantity]
    BY <1>1, <1>9, <1>17, <1>19, <1>20
  <2>3. /\ BookAfterPlace(order, Q) = R
        /\ PlaceOutcome(order, Q)
             = Accepted(0, <<TradeOf(makers[1], order, makers[1].price, order.quantity)>>)
    BY ONLY <2>1, <2>2, <1>21, PlaceWhatIsReduced
  <2> QED  BY <2>3, <1>23
<1>25. PICK less : less = [order EXCEPT !.quantity = 0]
  OBVIOUS
<1>26. less \in LimitOrder /\ less.quantity = 0
  BY <1>4, <1>25 DEF LimitOrder
<1>27. incoming' = less /\ trades' = Append(trades, x)
  <2>1. incoming' = [order EXCEPT !.quantity = order.quantity - order.quantity]
    BY <1>1, <1>2 DEF Match
  <2>2. order.quantity - order.quantity = 0
    BY <1>11
  <2>3. trades' = Append(trades, TradeOf(maker, order, price, order.quantity))
    BY <1>1, <1>2 DEF Match
  <2>4. makers[1].price = price
    BY <1>4, <1>10, <1>17
  <2> QED  BY <2>1, <2>2, <2>3, <2>4, <1>17, <1>23, <1>25
<1>28. ~ Idle'
  BY <1>26, <1>27, OrderBookAssumption DEF Idle
<1>29. CompletedBook = R /\ CompletedReply = Accepted(0, trades \o <<x>>)
  <2>1. CompletedBook = Completed(order, Q)
    BY <1>1, <1>6, <1>9, CompletedIs
  <2>2. CompletedReply = Accepted(PlaceOutcome(order, Q).remaining_quantity,
                                  trades \o PlaceOutcome(order, Q).trades)
    BY <1>1, <1>6, <1>9, CompletedIs
  <2>3. PlaceOutcome(order, Q).remaining_quantity = 0 /\ PlaceOutcome(order, Q).trades = <<x>>
    BY <1>24 DEF Accepted
  <2>4. Completed(order, Q) = R
    BY <1>4, <1>18, <1>24, CompletedPlaces
  <2> QED  BY <2>1, <2>2, <2>3, <2>4
<1>30. CompletedBook' = R /\ CompletedReply' = Accepted(0, trades' \o << >>)
  <2>1. CompletedBook' = Completed(less, R)
    BY <1>27, <1>28, <1>9, CompletedNext
  <2>2. CompletedReply' = Accepted(PlaceOutcome(less, R).remaining_quantity,
                                   trades' \o PlaceOutcome(less, R).trades)
    BY <1>27, <1>28, <1>9, CompletedNext
  <2>3. PlaceOutcome(less, R) = Accepted(0, << >>)
    BY <1>22, <1>26, PlaceNothing
  <2>4. PlaceOutcome(less, R).remaining_quantity = 0 /\ PlaceOutcome(less, R).trades = << >>
    BY <2>3 DEF Accepted
  <2> QED  BY <2>1, <2>2, <2>4, <1>26 DEF Completed
<1>31. trades' \o << >> = trades \o <<x>>
  <2>1. trades \in Seq(Trade)
    BY <1>3 DEF IInv, TypeOK
  <2>2. x \in Trade
    <3>1. makers[1] \in LimitOrder /\ makers[1].price \in Prices
      BY <1>4, <1>17 DEF RestingOrders, LimitOrder
    <3> QED  BY <3>1, <1>4, <1>11, <1>23 DEF TradeOf, Trade, LimitOrder
  <2>3. Append(trades, x) \in Seq(Trade) /\ Append(trades, x) = trades \o <<x>>
    BY <2>1, <2>2
  <2>4. Append(trades, x) \o << >> = Append(trades, x)
    BY <2>3, ConcatEmptySeq
  <2> QED  BY <2>3, <2>4, <1>27
<1> QED  BY <1>29, <1>30, <1>31

(* A call that returns with nothing left of its order has done it all.     *)
LEMMA FilledStutters ==
    ASSUME RInv, Filled
    PROVE  CompletedBook' = CompletedBook /\ CompletedReply' = CompletedReply
<1>1. /\ ~ Idle /\ incoming.quantity = 0 /\ UNCHANGED levels
      /\ reply' = Accepted(0, trades) /\ incoming' = NoOrder
  BY DEF Filled, Return
<1>2. incoming \in LimitOrder /\ trades \in Seq(Trade)
  BY <1>1 DEF RInv, IInv, TypeOK, Idle
<1>3. SoundBook(Queues)
  BY QueuesSound
<1>4. Queues' = Queues
  BY <1>1 DEF Queues
<1>5. Idle' /\ CompletedBook' = Queues' /\ CompletedReply' = reply'
  BY <1>1 DEF Idle, CompletedBook, CompletedReply
<1>6. CompletedBook = Queues
  BY <1>1, CompletedIs DEF Completed
<1>7. PlaceOutcome(incoming, Queues) = Accepted(0, << >>)
  BY <1>1, <1>2, <1>3, PlaceNothing
<1>8. CompletedReply = Accepted(PlaceOutcome(incoming, Queues).remaining_quantity,
                                trades \o PlaceOutcome(incoming, Queues).trades)
  BY <1>1, CompletedIs
<1>9. PlaceOutcome(incoming, Queues).remaining_quantity = 0
      /\ PlaceOutcome(incoming, Queues).trades = << >>
  BY <1>7 DEF Accepted
<1>10. trades \o << >> = trades
  BY <1>2, ConcatEmptySeq
<1> QED  BY <1>1, <1>4, <1>5, <1>6, <1>8, <1>9, <1>10

(* What is left rests where price-time priority enqueues it.               *)
LEMMA RestStutters ==
    ASSUME RInv, Rest
    PROVE  CompletedBook' = CompletedBook /\ CompletedReply' = CompletedReply
<1>1. PICK order, side, other, price, level :
         /\ order = incoming /\ side = order.side /\ other = Opposite(side)
         /\ price = order.price /\ level = LevelAt(side, price)
  OBVIOUS
<1>2. /\ ~ Idle /\ order.quantity > 0 /\ Breaks
      /\ levels' = [levels EXCEPT ![side] = SetLevel(@, price, Append(level, order))]
      /\ reply' = Accepted(order.quantity, trades) /\ incoming' = NoOrder
  BY <1>1 DEF Rest, Return
<1>3. IInv
  BY DEF RInv
<1>4. /\ order \in LimitOrder /\ order \in RestingOrders /\ trades \in Seq(Trade)
  BY <1>1, <1>2, <1>3 DEF IInv, TypeOK, Idle, RestingOrders
<1>5. side \in Sides /\ other \in Sides /\ side # other /\ price \in Nat /\ other = Opposite(order.side)
  BY <1>1, <1>4, OrdersAssumption DEF LimitOrder, Sides, Opposite
<1>6. PICK before, behind : Splits(side, price, before, behind)
  BY <1>5, SplitExists
<1>7. PICK Q, R, queue, front, new, one :
         /\ Q = Queues /\ R = Queues' /\ queue = Q[side] /\ front = before \o level
         /\ new = Append(level, order) /\ one = <<order>>
  OBVIOUS
<1>8. /\ before \in Seq(RestingOrders) /\ level \in Seq(RestingOrders) /\ behind \in Seq(RestingOrders)
      /\ one \in Seq(RestingOrders)
  BY <1>1, <1>4, <1>6, <1>7 DEF Splits
<1>9. new \in Seq(RestingOrders) /\ new = level \o one
  BY <1>4, <1>7, <1>8
<1>10. queue = before \o (level \o behind)
  BY <1>1, <1>6, <1>7 DEF Splits
<1>11. /\ R = [s \in Sides |-> R[s]] /\ R[side] = before \o (new \o behind)
       /\ \A s \in Sides \ {side} : R[s] = Q[s]
  <2>1. levels' = [levels EXCEPT ![side] = SetLevel(@, price, new)]
    BY <1>2, <1>7
  <2>2. QueueBecomes(side, before \o (new \o behind), Queues, Queues')
    BY <2>1, <1>5, <1>6, <1>9, LevelChanged
  <2> QED  BY <2>2, <1>7 DEF QueueBecomes
<1>12. \A a, b, c \in Seq(RestingOrders) : (a \o b) \o c = a \o (b \o c)
  <2>1. Associates(RestingOrders)
    BY ONLY JoinAssociates
  <2> QED  BY ONLY <2>1 DEF Associates
<1>13. queue = front \o behind
  <2>1. (before \o level) \o behind = before \o (level \o behind)
    <3>1. /\ before \in Seq(RestingOrders) /\ level \in Seq(RestingOrders)
          /\ behind \in Seq(RestingOrders)
      BY <1>8
    <3> QED  BY ONLY <3>1, <1>12
  <2> QED  BY ONLY <2>1, <1>7, <1>10
<1>14. R[side] = front \o (one \o behind)
  <2>1. PICK tail : tail = one \o behind
    OBVIOUS
  <2>2. tail \in Seq(RestingOrders)
    BY ONLY <2>1, <1>8, JoinOf
  <2>3. (level \o one) \o behind = level \o tail
    <3>1. /\ level \in Seq(RestingOrders) /\ one \in Seq(RestingOrders)
          /\ behind \in Seq(RestingOrders)
      BY <1>8
    <3>2. (level \o one) \o behind = level \o (one \o behind)
      BY ONLY <3>1, <1>12
    <3> QED  BY ONLY <2>1, <3>2
  <2>4. (before \o level) \o tail = before \o (level \o tail)
    <3>1. before \in Seq(RestingOrders) /\ level \in Seq(RestingOrders)
      BY <1>8
    <3> QED  BY ONLY <2>2, <3>1, <1>12
  <2> QED  BY <2>1, <2>3, <2>4, <1>7, <1>9, <1>11
<1>15. /\ front \in Seq(LimitOrder) /\ behind \in Seq(LimitOrder)
       /\ \A i \in DOMAIN front : ~ Better(side, price, front[i].price)
  <2>1. RestingOrders \subseteq LimitOrder
    BY DEF RestingOrders
  <2>2. /\ front \in Seq(RestingOrders) /\ DOMAIN front = 1 .. Len(before) + Len(level)
        /\ DOMAIN before = 1 .. Len(before) /\ DOMAIN level = 1 .. Len(level)
        /\ \A i \in 1 .. Len(before) + Len(level) :
              front[i] = IF i <= Len(before) THEN before[i] ELSE level[i - Len(before)]
    BY <1>7, <1>8, JoinOf
  <2>3. PICK a \in Nat, b \in Nat : a = Len(before) /\ b = Len(level)
    BY <1>8
  <2>4. /\ \A i \in DOMAIN before : Located(side, before[i]) /\ Better(side, before[i].price, price)
        /\ \A i \in DOMAIN level : level[i].price = price
    BY <1>1, <1>6 DEF Splits
  <2>5. ASSUME NEW i \in DOMAIN front
        PROVE  ~ Better(side, price, front[i].price)
    <3>1. i \in 1 .. a + b
      BY <2>2, <2>3
    <3>2. CASE i <= a
      <4>1. i \in DOMAIN before /\ front[i] = before[i]
        BY <3>1, <3>2, <2>2, <2>3
      <4>2. before[i].price \in Nat
        <5>1. before[i] \in RestingOrders
          BY <4>1, <2>4 DEF Located
        <5> QED  BY <5>1, OrdersAssumption DEF RestingOrders, LimitOrder
      <4> QED  BY <4>1, <4>2, <2>4, <1>5, BetterOrders
    <3>3. CASE ~ (i <= a)
      <4>1. i - a \in DOMAIN level /\ front[i] = level[i - a]
        BY <3>1, <3>3, <2>2, <2>3
      <4> QED  BY <4>1, <2>4, <1>5, BetterOrders
    <3> QED  BY <3>2, <3>3
  <2> QED  BY <2>1, <2>2, <2>5, <1>8
<1>16. \A i \in DOMAIN behind : Better(side, price, behind[i].price)
  BY <1>6 DEF Splits
<1>17. SoundBook(Q) /\ SoundQueue(side, queue)
  <2>1. SoundBook(Q)
    BY <1>7, QueuesSound
  <2> QED  BY <2>1, <1>5, <1>7 DEF SoundBook
<1>18. Enqueue(order, queue) = front \o (one \o behind)
  <2>1. Enqueue(order, queue) = front \o (<<order>> \o behind)
    <3>1. /\ \A i \in DOMAIN front : ~ Better(order.side, order.price, front[i].price)
          /\ \A i \in DOMAIN behind : Better(order.side, order.price, behind[i].price)
          /\ SoundQueue(order.side, queue)
      BY <1>1, <1>15, <1>16, <1>17
    <3> QED  BY ONLY <3>1, <1>4, <1>13, <1>15, EnqueueBetween
  <2> QED  BY <2>1, <1>7
<1>19. \A i \in DOMAIN Q[other] : ~ Crosses(order, Q[other][i].price)
  <2>1. \A p \in DOMAIN levels[other] : ~ Crosses(order, p)
    <3>1. BookTypeOK /\ BestExists /\ incoming \in LimitOrder
      BY <1>1, <1>3, <1>4 DEF IInv, TypeOK
    <3> QED  BY <3>1, <1>1, <1>2, BreaksMeansNoneCross
  <2>2. \A i \in DOMAIN Q[other] : Q[other][i].price \in DOMAIN levels[other]
    BY <1>5, <1>7, QueueMembers DEF Located
  <2> QED  BY <2>1, <2>2
<1>20. BookAfterPlace(order, Q) = R /\ PlaceOutcome(order, Q) = Accepted(order.quantity, << >>)
  <2>1. R[other] = Q[other] /\ R[side] = Enqueue(order, Q[side])
    BY <1>5, <1>7, <1>11, <1>14, <1>18
  <2> QED  BY <2>1, <1>1, <1>2, <1>4, <1>5, <1>11, <1>17, <1>19, PlaceJoins
<1>21. CompletedBook = R /\ CompletedReply = Accepted(order.quantity, trades \o << >>)
  <2>1. CompletedBook = Completed(order, Q)
    BY <1>1, <1>2, <1>7, CompletedIs
  <2>2. CompletedReply = Accepted(PlaceOutcome(order, Q).remaining_quantity,
                                  trades \o PlaceOutcome(order, Q).trades)
    BY <1>1, <1>2, <1>7, CompletedIs
  <2>3. PlaceOutcome(order, Q).remaining_quantity = order.quantity /\ PlaceOutcome(order, Q).trades = << >>
    BY <1>20 DEF Accepted
  <2>4. Completed(order, Q) = R
    BY <1>4, <1>17, <1>20, CompletedPlaces
  <2> QED  BY <2>1, <2>2, <2>3, <2>4
<1>22. CompletedBook' = R /\ CompletedReply' = reply'
  BY <1>2, <1>7 DEF Idle, CompletedBook, CompletedReply
<1>23. trades \o << >> = trades
  BY <1>4, ConcatEmptySeq
<1> QED  BY <1>2, <1>21, <1>22, <1>23

-------------------------------------------------------------------------------
(* PriceTimePriority.                                                      *)

(* The operators of the instance are those of Matching.                    *)
LEMMA SameOperators ==
    /\ \A order, book : PTP!BookAfterPlace(order, book) = BookAfterPlace(order, book)
    /\ \A order, book : PTP!PlaceOutcome(order, book) = PlaceOutcome(order, book)
    /\ \A id, book : PTP!BookAfterCancel(id, book) = BookAfterCancel(id, book)
    /\ \A book : PTP!RestingIds(book) = RestingIds(book)
    /\ \A order, resting : PTP!PlaceError(order, resting) = PlaceError(order, resting)
    /\ PTP!Submitted = Submitted /\ PTP!Canceled = Canceled
    /\ \A error : PTP!Failed(error) = Failed(error)
    /\ PTP!EmptyBook = EmptyBook
<1> USE DEF PTP!Sides, Sides, PTP!Opposite, Opposite, PTP!Better, Better, PTP!Crosses, Crosses,
            PTP!Smaller, Smaller, PTP!TradeOf, TradeOf, PTP!PlaceError, PlaceError,
            PTP!Accepted, Accepted, PTP!Canceled, Canceled, PTP!Failed, Failed,
            PTP!Submitted, Submitted
<1>1. /\ \A book : PTP!RestingIds(book) = RestingIds(book)
      /\ \A order, resting : PTP!PlaceError(order, resting) = PlaceError(order, resting)
      /\ PTP!Submitted = Submitted /\ PTP!Canceled = Canceled
      /\ \A error : PTP!Failed(error) = Failed(error)
      /\ PTP!EmptyBook = EmptyBook
  BY DEF PTP!RestingIds, RestingIds, PTP!EmptyBook, EmptyBook
<1>2. \A S : PTP!Cardinality(S) = Cardinality(S)
  BY DEF PTP!Cardinality, Cardinality
<1>3. \A S : PTP!Ascending(S) = Ascending(S)
  BY DEF PTP!Ascending, Ascending, PTP!Cardinality, Cardinality
<1>4. \A s, positions : PTP!At(s, positions) = At(s, positions)
  BY <1>2, <1>3 DEF PTP!At, At
<1>5. \A queue : PTP!QuantityAhead(queue) = QuantityAhead(queue)
  BY DEF PTP!QuantityAhead, QuantityAhead
<1>6. \A order, queue : PTP!Fills(order, queue) = Fills(order, queue)
  BY <1>5 DEF PTP!Fills, Fills
<1>7. \A order, queue : PTP!TradesWith(order, queue) = TradesWith(order, queue)
  BY <1>6 DEF PTP!TradesWith, TradesWith
<1>8. \A order, queue : PTP!Remaining(order, queue) = Remaining(order, queue)
  BY <1>2, <1>5 DEF PTP!Remaining, Remaining
<1>9. \A order, queue : PTP!AfterFills(order, queue) = AfterFills(order, queue)
  BY <1>4, <1>6 DEF PTP!AfterFills, AfterFills
<1>10. \A order, queue : PTP!Enqueue(order, queue) = Enqueue(order, queue)
  BY <1>2 DEF PTP!Enqueue, Enqueue, PTP!InsertAt, InsertAt
<1>11. \A order, book : PTP!BookAfterPlace(order, book) = BookAfterPlace(order, book)
  BY <1>8, <1>9, <1>10 DEF PTP!BookAfterPlace, BookAfterPlace
<1>12. \A order, book : PTP!PlaceOutcome(order, book) = PlaceOutcome(order, book)
  BY <1>7, <1>8 DEF PTP!PlaceOutcome, PlaceOutcome
<1>13. \A id, book : PTP!BookAfterCancel(id, book) = BookAfterCancel(id, book)
  BY <1>4 DEF PTP!BookAfterCancel, BookAfterCancel
<1> QED  BY <1>1, <1>11, <1>12, <1>13

(* Where the order with a located id rests, and what cancel makes of it.   *)
CancelsAt(id, side, price, queue, pos, after) ==
    /\ side \in Sides /\ price \in Nat /\ price \in DOMAIN levels[side]
    /\ order_locator[id] = <<side, price>>
    /\ queue = levels[side][price] /\ queue \in Seq(RestingOrders)
    /\ pos \in 1 .. Len(queue) /\ queue[pos].order_id = id
    /\ \A i \in DOMAIN queue : queue[i].order_id = id => i = pos
    /\ after = RemoveAt(queue, pos) /\ after \in Seq(RestingOrders)
    /\ levels' = [levels EXCEPT ![side] = SetLevel(@, price, after)]
    /\ reply' = Canceled

(* The locator's level has the order once, and cancel takes it out.        *)
LEMMA CancelFacts ==
    ASSUME RInv, NEW id \in DOMAIN order_locator, Cancel(id)
    PROVE  \E side, price, queue, pos, after : CancelsAt(id, side, price, queue, pos, after)
<1>1. BookTypeOK /\ LocatorExact
  BY DEF RInv, IInv, TypeOK
<1>2. PICK side, price : side = order_locator[id][1] /\ price = order_locator[id][2]
  OBVIOUS
<1>3. order_locator[id] = <<side, price>> /\ side \in Sides
  BY <1>1, <1>2 DEF BookTypeOK, IsMap
<1>4. price \in DOMAIN levels[side] /\ \E i \in DOMAIN levels[side][price] : levels[side][price][i].order_id = id
  BY <1>1, <1>2 DEF LocatorExact, EveryLocatedRests
<1>5. PICK queue : queue = levels[side][price]
  OBVIOUS
<1>6. queue \in Seq(RestingOrders) /\ price \in Nat
  BY <1>3, <1>4, <1>5, LevelFacts
<1>7. PICK i \in DOMAIN queue : queue[i].order_id = id
  BY <1>4, <1>5
<1>8. \A j \in DOMAIN queue : queue[j].order_id = id => j = i
  BY <1>1, <1>3, <1>4, <1>5, <1>7 DEF LocatorExact, EveryOrderOnce
<1>9. IsFirst(i, queue, id)
  <2>1. \A j \in 1 .. (i - 1) : j \in DOMAIN queue /\ j # i
    BY <1>6, <1>7
  <2> QED  BY <1>7, <1>8, <2>1 DEF IsFirst
<1>10. PICK pos \in DOMAIN queue : IsFirst(pos, queue, id) /\ AfterRemoval(queue, id) = RemoveAt(queue, pos)
  BY <1>7, <1>9 DEF AfterRemoval
<1>11. queue[pos].order_id = id /\ pos = i /\ pos \in 1 .. Len(queue)
  <2>1. queue[pos].order_id = id
    BY <1>10 DEF IsFirst
  <2>2. DOMAIN queue = 1 .. Len(queue)
    BY <1>6
  <2> QED  BY <2>1, <2>2, <1>8, <1>10
<1>12. PICK after : after = RemoveAt(queue, pos)
  OBVIOUS
<1>13. after \in Seq(RestingOrders)
  BY <1>6, <1>11, <1>12, RemoveAtProperties
<1>14. levels' = [levels EXCEPT ![side] = SetLevel(@, price, after)] /\ reply' = Canceled
  BY <1>2, <1>4, <1>5, <1>10, <1>12 DEF Cancel, Resting
<1>15. CancelsAt(id, side, price, queue, pos, after)
  BY <1>3, <1>4, <1>5, <1>6, <1>8, <1>11, <1>12, <1>13, <1>14 DEF CancelsAt
<1> QED  BY <1>15

(* No other order has the id: not on the other side, ...                   *)
LEMMA NotOnOtherSide ==
    ASSUME RInv, NEW id, NEW side \in Sides, NEW price, order_locator[id] = <<side, price>>,
           NEW other \in Sides, other # side
    PROVE  \A i \in DOMAIN Queues[other] : Queues[other][i].order_id # id
<1> SUFFICES ASSUME NEW i \in DOMAIN Queues[other], Queues[other][i].order_id = id PROVE FALSE
  OBVIOUS
<1>1. PICK o : o = Queues[other][i]
  OBVIOUS
<1>2. order_locator[id] = <<other, o.price>>
  BY <1>1, QueueMembers DEF Located
<1> QED  BY <1>2

(* ... and not at a price before or behind.                                *)
LEMMA NotAtOtherPrice ==
    ASSUME RInv, NEW id, NEW side \in Sides, NEW price \in Nat, order_locator[id] = <<side, price>>,
           NEW before, NEW behind, Splits(side, price, before, behind)
    PROVE  /\ \A i \in DOMAIN before : before[i].order_id # id
           /\ \A i \in DOMAIN behind : behind[i].order_id # id
<1>1. ~ Better(side, price, price)
  BY BetterOrders
<1>2. ASSUME NEW i \in DOMAIN before, before[i].order_id = id PROVE FALSE
  <2>1. order_locator[id] = <<side, before[i].price>> /\ Better(side, before[i].price, price)
    BY <1>2 DEF Splits, Located
  <2>2. before[i].price = price
    BY <2>1
  <2> QED  BY <2>1, <2>2, <1>1
<1>3. ASSUME NEW i \in DOMAIN behind, behind[i].order_id = id PROVE FALSE
  <2>1. order_locator[id] = <<side, behind[i].price>> /\ Better(side, price, behind[i].price)
    BY <1>3 DEF Splits, Located
  <2>2. behind[i].price = price
    BY <2>1
  <2> QED  BY <2>1, <2>2, <1>1
<1> QED  BY <1>2, <1>3

(* A cancel closes the gap in the queue of the side and leaves the other.  *)
LEMMA CancelCloses ==
    ASSUME RInv, NEW id \in DOMAIN order_locator, Cancel(id)
    PROVE  Queues' = BookAfterCancel(id, Queues) /\ reply' = Canceled
<1>1. PICK side, price, queue, pos, after : CancelsAt(id, side, price, queue, pos, after)
  BY CancelFacts
<1>2. PICK other : other = Opposite(side)
  OBVIOUS
<1>3. side \in Sides /\ other \in Sides /\ other # side /\ price \in Nat
  BY <1>1, <1>2 DEF CancelsAt, Sides, Opposite
<1>4. PICK before, behind : Splits(side, price, before, behind)
  BY <1>3, SplitExists
<1>5. PICK Q, R, C : Q = Queues /\ R = Queues' /\ C = BookAfterCancel(id, Q)
  OBVIOUS
<1>6. /\ queue \in Seq(RestingOrders) /\ pos \in 1 .. Len(queue) /\ queue[pos].order_id = id
      /\ \A i \in DOMAIN queue : queue[i].order_id = id => i = pos
      /\ after = RemoveAt(queue, pos) /\ after \in Seq(RestingOrders)
      /\ levels' = [levels EXCEPT ![side] = SetLevel(@, price, after)]
      /\ order_locator[id] = <<side, price>>
  BY <1>1 DEF CancelsAt
<1>7. LevelAt(side, price) = queue
  BY <1>1 DEF CancelsAt, LevelAt
<1>s. PICK front, back : SplitsAt(queue, pos, front, back, RestingOrders)
  BY ONLY <1>6, RemoveAtSplits
<1>8. /\ front \in Seq(RestingOrders) /\ back \in Seq(RestingOrders)
      /\ queue = front \o (<<queue[pos]>> \o back) /\ after = front \o back
      /\ \A i \in DOMAIN front : i \in DOMAIN queue /\ i # pos /\ front[i] = queue[i]
      /\ \A i \in DOMAIN back :
            pos + i \in DOMAIN queue /\ pos + i # pos /\ back[i] = queue[pos + i]
  BY <1>s, <1>6 DEF SplitsAt
<1>9. /\ \A i \in DOMAIN front : front[i].order_id # id
      /\ \A i \in DOMAIN back : back[i].order_id # id
  BY <1>6, <1>8
<1>10. /\ before \in Seq(RestingOrders) /\ behind \in Seq(RestingOrders)
       /\ Q[side] = before \o (queue \o behind)
  BY <1>4, <1>5, <1>7 DEF Splits
<1>11. /\ \A i \in DOMAIN before : before[i].order_id # id
       /\ \A i \in DOMAIN behind : behind[i].order_id # id
  BY <1>3, <1>4, <1>6, NotAtOtherPrice
<1>12. PICK o, one, F, B :
          /\ o = queue[pos] /\ one = <<o>> /\ F = before \o front /\ B = back \o behind
  OBVIOUS
<1>13. o \in RestingOrders /\ o.order_id = id /\ one \in Seq(RestingOrders)
  <2>1. o \in RestingOrders
    BY <1>6, <1>12
  <2> QED  BY <2>1, <1>6, <1>12
<1>14. /\ F \in Seq(RestingOrders) /\ \A i \in DOMAIN F : F[i].order_id # id
       /\ B \in Seq(RestingOrders) /\ \A i \in DOMAIN B : B[i].order_id # id
  <2>1. F \in Seq(RestingOrders) /\ \A i \in DOMAIN F : F[i].order_id # id
    BY ONLY <1>8, <1>9, <1>10, <1>11, <1>12, JoinAvoids
  <2>2. B \in Seq(RestingOrders) /\ \A i \in DOMAIN B : B[i].order_id # id
    BY ONLY <1>8, <1>9, <1>10, <1>11, <1>12, JoinAvoids
  <2> QED  BY <2>1, <2>2
<1>15. \A a, b, c \in Seq(RestingOrders) : (a \o b) \o c = a \o (b \o c)
  <2>1. Associates(RestingOrders)
    BY ONLY JoinAssociates
  <2> QED  BY ONLY <2>1 DEF Associates
<1>16. Q[side] = F \o (one \o B)
  <2>1. PICK half, tail : half = one \o back /\ tail = one \o B
    OBVIOUS
  <2>2. half \in Seq(RestingOrders) /\ tail \in Seq(RestingOrders)
    BY <2>1, <1>8, <1>13, <1>14, JoinOf
  <2>3. queue = front \o half
    BY <2>1, <1>8, <1>12
  <2>4. queue \o behind = front \o (half \o behind)
    <3>1. front \in Seq(RestingOrders) /\ behind \in Seq(RestingOrders)
      BY <1>8, <1>10
    <3>2. (front \o half) \o behind = front \o (half \o behind)
      BY ONLY <2>2, <3>1, <1>15
    <3> QED  BY ONLY <2>3, <3>2
  <2>5. half \o behind = tail
    <3>1. one \in Seq(RestingOrders) /\ back \in Seq(RestingOrders) /\ behind \in Seq(RestingOrders)
      BY <1>8, <1>10, <1>13
    <3>2. (one \o back) \o behind = one \o (back \o behind)
      BY ONLY <3>1, <1>15
    <3> QED  BY ONLY <3>2, <2>1, <1>12
  <2>6. F \o tail = before \o (front \o tail)
    <3>1. before \in Seq(RestingOrders) /\ front \in Seq(RestingOrders)
      BY <1>8, <1>10
    <3>2. (before \o front) \o tail = before \o (front \o tail)
      BY ONLY <2>2, <3>1, <1>15
    <3> QED  BY ONLY <3>2, <1>12
  <2> QED  BY <2>1, <2>4, <2>5, <2>6, <1>10
<1>17. /\ R = [s \in Sides |-> R[s]] /\ R[side] = before \o (after \o behind)
       /\ \A s \in Sides \ {side} : R[s] = Q[s]
  <2>1. QueueBecomes(side, before \o (after \o behind), Queues, Queues')
    BY <1>3, <1>4, <1>6, LevelChanged
  <2> QED  BY <2>1, <1>5 DEF QueueBecomes
<1>18. R[side] = F \o B
  <2>1. after \o behind = front \o B
    <3>1. /\ front \in Seq(RestingOrders) /\ back \in Seq(RestingOrders)
          /\ behind \in Seq(RestingOrders)
      BY <1>8, <1>10
    <3>2. (front \o back) \o behind = front \o (back \o behind)
      BY ONLY <3>1, <1>15
    <3> QED  BY ONLY <3>2, <1>8, <1>12
  <2>2. F \o B = before \o (front \o B)
    <3>1. before \in Seq(RestingOrders) /\ front \in Seq(RestingOrders) /\ B \in Seq(RestingOrders)
      BY <1>8, <1>10, <1>14
    <3>2. (before \o front) \o B = before \o (front \o B)
      BY ONLY <3>1, <1>15
    <3> QED  BY ONLY <3>2, <1>12
  <2> QED  BY <2>1, <2>2, <1>17
<1>19. C = [s \in Sides |-> At(Q[s], Others(Q[s], id))]
  BY <1>5 DEF BookAfterCancel, Others
<1>20. C[side] = R[side]
  <2>1. RestingOrders \subseteq LimitOrder
    BY DEF RestingOrders
  <2>2. F \in Seq(LimitOrder) /\ B \in Seq(LimitOrder) /\ o \in LimitOrder
    BY <2>1, <1>13, <1>14
  <2>3. PICK all : all = Q[side]
    OBVIOUS
  <2>4. all = F \o (<<o>> \o B)
    BY <2>3, <1>12, <1>16
  <2>5. At(all, Others(all, id)) = F \o B
    <3>1. JoinedFrom(At(all, Others(all, id)), F, B)
      BY ONLY <2>2, <2>4, <1>13, <1>14, CancelOne
    <3> QED  BY <3>1 DEF JoinedFrom
  <2>6. C[side] = At(all, Others(all, id))
    BY <2>3, <1>3, <1>19
  <2> QED  BY <2>5, <2>6, <1>18
<1>21. C[other] = R[other]
  <2>1. PICK all : all = Q[other]
    OBVIOUS
  <2>2. all \in Seq(LimitOrder)
    BY <2>1, <1>3, <1>5, QueueMembers
  <2>3. \A i \in DOMAIN all : all[i].order_id # id
    BY <2>1, <1>3, <1>5, <1>6, NotOnOtherSide
  <2>4. At(all, Others(all, id)) = all
    BY ONLY <2>2, <2>3, CancelNone
  <2>5. C[other] = At(all, Others(all, id))
    BY <2>1, <1>3, <1>19
  <2>6. R[other] = Q[other]
    BY <1>3, <1>17
  <2> QED  BY <2>1, <2>4, <2>5, <2>6
<1>22. C = [s \in Sides |-> C[s]]
  BY <1>19
<1>23. R = C
  BY <1>2, <1>3, <1>17, <1>20, <1>21, <1>22, SameQueues
<1> QED  BY <1>1, <1>5, <1>23 DEF CancelsAt

(* A cancel is the abstract one.                                           *)
LEMMA CancelSteps ==
    ASSUME RInv, NEW id \in OrderIds, Cancel(id)
    PROVE  PTP!Cancel(id)
<1>1. Idle /\ Idle'
  BY DEF Cancel, Idle
<1>2. CompletedBook = Queues /\ CompletedBook' = Queues' /\ CompletedReply' = reply'
  BY <1>1 DEF CompletedBook, CompletedReply
<1>3. RestingIds(Queues) = DOMAIN order_locator
  BY RestingQueues
<1>4. CASE id \notin DOMAIN order_locator
  <2>1. reply' = Failed("OrderNotFound") /\ UNCHANGED levels
    BY <1>4 DEF Cancel, Resting
  <2>2. Queues' = Queues
    BY <2>1 DEF Queues
  <2> QED  BY <2>1, <2>2, <1>2, <1>3, <1>4, SameOperators DEF PTP!Cancel
<1>5. CASE id \in DOMAIN order_locator
  BY <1>2, <1>3, <1>5, CancelCloses, SameOperators DEF PTP!Cancel
<1> QED  BY <1>4, <1>5

(* A call that passes the checks takes the abstract step; one that does    *)
(* not is refused in both.                                                 *)
LEMMA PlaceLimitSteps ==
    ASSUME RInv, NEW order \in Submitted, PlaceLimit(order)
    PROVE  PTP!PlaceLimit(order)
<1>1. Idle /\ UNCHANGED <<levels, order_locator, trades>>
  BY DEF PlaceLimit
<1>2. PICK Q, error : Q = Queues /\ error = PlaceError(order, Resting)
  OBVIOUS
<1>3. Queues' = Q
  BY <1>1, <1>2 DEF Queues
<1>4. PTP!PlaceError(order, PTP!RestingIds(CompletedBook)) = error /\ CompletedBook = Q
  <2>1. CompletedBook = Q
    BY <1>1, <1>2 DEF CompletedBook
  <2>2. RestingIds(Q) = Resting
    BY <1>2, RestingQueues DEF Resting
  <2> QED  BY <2>1, <2>2, <1>2, SameOperators
<1>5. CASE error = "None"
  <2>1. incoming' = order
    BY <1>2, <1>5 DEF PlaceLimit
  <2>2. order \in LimitOrder
    BY OrdersAssumption DEF Submitted, LimitOrder
  <2>3. ~ Idle'
    BY <2>1, <2>2, OrderBookAssumption DEF Idle
  <2>4. order.quantity # 0
    BY <1>2, <1>5 DEF PlaceError
  <2>5. CompletedBook' = BookAfterPlace(order, Q)
    <3>1. CompletedBook' = Completed(order, Q)
      BY <2>1, <2>3, <1>3, CompletedNext
    <3> QED  BY <3>1, <2>4 DEF Completed
  <2>6. CompletedReply' = PlaceOutcome(order, Q)
    <3>1. CompletedReply' = Accepted(PlaceOutcome(order, Q).remaining_quantity,
                                     trades' \o PlaceOutcome(order, Q).trades)
      BY <2>1, <2>3, <1>3, CompletedNext
    <3>2. PICK left, made : PlaceOutcome(order, Q) = Accepted(left, made)
      BY DEF PlaceOutcome
    <3>3. PlaceOutcome(order, Q).remaining_quantity = left /\ PlaceOutcome(order, Q).trades = made
      BY <3>2 DEF Accepted
    <3>4. made \in Seq(Trade)
      <4>1. SoundBook(Q)
        BY <1>2, QueuesSound
      <4> QED  BY <4>1, <2>2, <3>3, OutcomeSound
    <3>5. trades' = << >>
      BY <1>1 DEF RInv
    <3>6. << >> \o made = made
      BY <3>4, ConcatEmptySeq
    <3> QED  BY <3>1, <3>2, <3>3, <3>5, <3>6
  <2> QED  BY <1>4, <1>5, <2>5, <2>6, SameOperators DEF PTP!PlaceLimit
<1>6. CASE error # "None"
  <2>1. incoming' = incoming /\ reply' = Failed(error)
    BY <1>2, <1>6 DEF PlaceLimit
  <2>2. CompletedBook' = Q /\ CompletedReply' = reply'
    BY <1>1, <1>3, <2>1 DEF Idle, CompletedBook, CompletedReply
  <2> QED  BY <1>4, <1>6, <2>1, <2>2, SameOperators DEF PTP!PlaceLimit
<1> QED  BY <1>5, <1>6

(* The maps of levels stay finite.                                         *)
LEMMA FiniteStays ==
    ASSUME BookTypeOK, FiniteLevels, NEW side, NEW price, NEW queue,
           levels' = [levels EXCEPT ![side] = SetLevel(@, price, queue)]
    PROVE  FiniteLevels'
<1> SUFFICES ASSUME NEW s \in Sides PROVE IsFiniteSet(DOMAIN levels'[s])
  BY DEF FiniteLevels
<1>1. levels = [t \in Sides |-> levels[t]]
  BY DEF BookTypeOK
<1>2. IsFiniteSet(DOMAIN levels[s])
  BY DEF FiniteLevels
<1>3. CASE s # side
  <2>1. levels'[s] = levels[s]
    BY <1>1, <1>3
  <2> QED  BY <2>1, <1>2
<1>4. CASE s = side
  <2>1. levels'[s] = SetLevel(levels[s], price, queue)
    BY <1>1, <1>4
  <2>2. DOMAIN SetLevel(levels[s], price, queue) \subseteq DOMAIN levels[s] \cup {price}
    <3>1. CASE queue = << >>
      <4>1. SetLevel(levels[s], price, queue) = Without(levels[s], price)
        BY <3>1 DEF SetLevel
      <4> QED  BY <4>1 DEF Without
    <3>2. CASE queue # << >>
      <4>1. SetLevel(levels[s], price, queue) = With(levels[s], price, queue)
        BY <3>2 DEF SetLevel
      <4> QED  BY <4>1 DEF With
    <3> QED  BY <3>1, <3>2
  <2>3. IsFiniteSet(DOMAIN levels[s] \cup {price})
    BY <1>2, FS_AddElement
  <2> QED  BY <2>1, <2>2, <2>3, FS_Subset
<1> QED  BY <1>3, <1>4

(* RInv is inductive.                                                      *)
LEMMA RInvStep == RInv /\ [Next]_vars => RInv'
<1> SUFFICES ASSUME RInv, [Next]_vars PROVE RInv'
  OBVIOUS
<1>1. IInv /\ BookTypeOK /\ FiniteLevels /\ (Idle => trades = << >>)
  BY DEF RInv, IInv, TypeOK
<1>2. IInv'
  BY <1>1, StepInvariant
<1>3. UNCHANGED levels => FiniteLevels'
  BY <1>1 DEF FiniteLevels
<1>4. ASSUME NEW order \in Submitted, PlaceLimit(order)
      PROVE  RInv'
  <2>1. UNCHANGED <<levels, trades>> /\ Idle
    BY <1>4 DEF PlaceLimit
  <2> QED  BY <2>1, <1>1, <1>2, <1>3 DEF RInv
<1>5. ASSUME NEW id \in OrderIds, Cancel(id)
      PROVE  RInv'
  <2>1. UNCHANGED <<incoming, trades>> /\ Idle
    BY <1>5 DEF Cancel
  <2>2. FiniteLevels'
    <3>1. \/ UNCHANGED levels
          \/ \E side, price, queue : levels' = [levels EXCEPT ![side] = SetLevel(@, price, queue)]
      BY <1>5 DEF Cancel
    <3> QED  BY <3>1, <1>1, <1>3, FiniteStays
  <2> QED  BY <2>1, <2>2, <1>1, <1>2 DEF RInv, Idle
<1>6. ASSUME NEW price \in Prices, FillMaker(price) \/ ReduceMaker(price)
      PROVE  RInv'
  <2>1. \E side, queue : levels' = [levels EXCEPT ![side] = SetLevel(@, price, queue)]
    BY <1>6 DEF FillMaker, ReduceMaker
  <2>2. FiniteLevels'
    BY <2>1, <1>1, FiniteStays
  <2>3. ~ Idle'
    <3>1. PICK maker : maker = Head(levels[Opposite(incoming.side)][price])
      OBVIOUS
    <3>2. Matchable(price) /\ ~ Idle
      BY <1>6 DEF FillMaker, ReduceMaker, Matchable
    <3>3. maker \in RestingOrders /\ incoming \in LimitOrder
      BY <3>1, <3>2, <1>1, MakerFacts
    <3>4. \/ maker.quantity <= incoming.quantity /\ Match(price, maker, maker.quantity)
          \/ Match(price, maker, incoming.quantity)
      BY <3>1, <1>6 DEF FillMaker, ReduceMaker, Exhausts
    <3>5. PICK fill \in Nat : fill <= incoming.quantity /\ Match(price, maker, fill)
      <4>1. maker.quantity \in Nat /\ incoming.quantity \in Nat
        BY <3>3 DEF RestingOrders, LimitOrder
      <4>2. incoming.quantity <= incoming.quantity
        BY <4>1
      <4> QED  BY <3>4, <4>1, <4>2
    <3>6. incoming' # NoOrder
      BY <3>2, <3>3, <3>5, <1>1, MatchTyping DEF IInv
    <3> QED  BY <3>6 DEF Idle
  <2> QED  BY <2>2, <2>3, <1>2 DEF RInv
<1>7. CASE Filled
  BY <1>7, <1>2, <1>3 DEF Filled, Return, RInv
<1>8. CASE Rest
  <2>1. trades' = << >> /\ \E side, price, queue : levels' = [levels EXCEPT ![side] = SetLevel(@, price, queue)]
    BY <1>8 DEF Rest, Return
  <2>2. FiniteLevels'
    BY <2>1, <1>1, FiniteStays
  <2> QED  BY <2>1, <2>2, <1>2 DEF RInv
<1>9. CASE UNCHANGED vars
  BY <1>9, <1>1, <1>2, <1>3 DEF vars, RInv, Idle
<1> QED  BY <1>4, <1>5, <1>6, <1>7, <1>8, <1>9 DEF Next, Loop

(* The empty book is the abstract empty book.                              *)
LEMMA InitRefines == Init => RInv /\ PTP!Init
<1> SUFFICES ASSUME Init PROVE RInv /\ PTP!Init
  OBVIOUS
<1>1. \A side \in Sides : levels[side] = << >> /\ DOMAIN levels[side] = {}
  BY DEF Init, EmptyLevels
<1>2. RInv
  <2>1. FiniteLevels
    BY <1>1, FS_EmptySet DEF FiniteLevels
  <2>2. IInv
    BY InitInvariant
  <2> QED  BY <2>1, <2>2 DEF RInv, Init
<1>3. CompletedBook = Queues /\ CompletedReply = Failed("None")
  BY DEF Init, CompletedBook, CompletedReply, Idle
<1>4. ASSUME NEW side \in Sides
      PROVE  Queues[side] = << >>
  <2>1. PICK queue : queue = Queues[side]
    OBVIOUS
  <2>2. queue \in Seq(RestingOrders) /\ \A i \in DOMAIN queue : FALSE
    BY <2>1, <1>1, <1>2, QueueMembers DEF Located
  <2>3. PICK n \in Nat : n = Len(queue) /\ DOMAIN queue = 1 .. n
    BY <2>2
  <2>4. n = 0
    <3>1. 1 \notin 1 .. n
      BY <2>2, <2>3
    <3> QED  BY <3>1
  <2>5. queue = << >>
    BY <2>2, <2>3, <2>4, EmptySeq
  <2> QED  BY <2>1, <2>5
<1>5. Queues = EmptyBook
  BY <1>4 DEF Queues, EmptyBook
<1> QED  BY <1>2, <1>3, <1>5, SameOperators DEF PTP!Init

(* Every step is a step of PriceTimePriority or changes nothing of it.     *)
LEMMA StepRefines == RInv /\ [Next]_vars => [PTP!Next]_(PTP!vars)
<1> SUFFICES ASSUME RInv, [Next]_vars PROVE PTP!Next \/ UNCHANGED PTP!vars
  OBVIOUS
<1> DEFINE Same == CompletedBook' = CompletedBook /\ CompletedReply' = CompletedReply
<1>1. Same => UNCHANGED PTP!vars
  BY DEF PTP!vars
<1> HIDE DEF Same
<1>2. ASSUME NEW order \in Submitted, PlaceLimit(order)
      PROVE  PTP!Next
  <2>1. PTP!PlaceLimit(order)
    BY <1>2, PlaceLimitSteps
  <2> QED  BY <2>1, SameOperators DEF PTP!Next
<1>3. ASSUME NEW id \in OrderIds, Cancel(id)
      PROVE  PTP!Next
  <2>1. PTP!Cancel(id)
    BY <1>3, CancelSteps
  <2> QED  BY <2>1 DEF PTP!Next
<1>4. ASSUME NEW price \in Prices, FillMaker(price) PROVE Same
  BY <1>4, FillMakerStutters DEF Same
<1>5. ASSUME NEW price \in Prices, ReduceMaker(price) PROVE Same
  BY <1>5, ReduceMakerStutters DEF Same
<1>6. CASE Filled
  BY <1>1, <1>6, FilledStutters DEF Same
<1>7. CASE Rest
  BY <1>1, <1>7, RestStutters DEF Same
<1>8. CASE UNCHANGED vars
  <2>1. UNCHANGED <<levels, incoming, trades, reply>>
    BY <1>8 DEF vars
  <2>2. Queues' = Queues /\ Idle' = Idle
    BY <2>1 DEF Queues, Idle
  <2>3. Same
    BY <2>1, <2>2 DEF CompletedBook, CompletedReply, Same
  <2> QED  BY <1>1, <2>3
<1> QED  BY <1>1, <1>2, <1>3, <1>4, <1>5, <1>6, <1>7, <1>8 DEF Next, Loop

(* Whatever the loops of place_limit and the scan of cancel do, a caller of *)
(* the order book sees one step of strict price-time priority per call: for *)
(* every set of ids, prices and quantities and every sequence of calls.    *)
THEOREM Refinement == Spec => ImplementsPriceTimePriority
BY InitRefines, StepRefines, RInvStep, PTL DEF Spec, ImplementsPriceTimePriority, PTP!Spec
===============================================================================
