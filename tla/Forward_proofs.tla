--------------------------- MODULE Forward_proofs ---------------------------
(***************************************************************************)
(* Proofs about Pool, for any accounts, sessions and limits, and then about   *)
(* Forward, whose handlers are the callers of the pool, for any number of     *)
(* requests.                                                                 *)
(***************************************************************************)
EXTENDS Forward, FiniteSetTheorems, SequenceTheorems, TLAPS

-----------------------------------------------------------------------------
(* The backoff.                                                             *)

LEMMA ShiftTyped ==
  ASSUME NEW n \in Nat \ {0}
  PROVE  ShiftedBackoff(n) \in Int
<1>1. 2 ^ (n - 1) \in Int
  OBVIOUS
<1>2. QED
  BY <1>1, BackoffAssumption DEF ShiftedBackoff

LEMMA BackoffRange ==
  ASSUME NEW n \in Nat \ {0}
  PROVE  Backoff(n) \in 0 .. MaxBackoff
BY ShiftTyped, BackoffAssumption DEF Backoff

-----------------------------------------------------------------------------
(* The LRU list.                                                            *)

LEMMA WithoutElement ==
  ASSUME NEW S, NEW s \in Seq(S), NEW i \in 1 .. Len(s)
  PROVE  /\ RemoveAt(s, i) \in Seq(S)
         /\ Len(RemoveAt(s, i)) = Len(s) - 1
         /\ \A j \in 1 .. Len(s) - 1 :
              RemoveAt(s, i)[j] = IF j < i THEN s[j] ELSE s[j + 1]
<1> DEFINE front == SubSeq(s, 1, i - 1)
           back == SubSeq(s, i + 1, Len(s))
<1>1. /\ front \in Seq(S) /\ Len(front) = i - 1
      /\ \A j \in 1 .. i - 1 : front[j] = s[j]
  OBVIOUS
<1>2. /\ back \in Seq(S) /\ Len(back) = Len(s) - i
      /\ \A j \in 1 .. Len(s) - i : back[j] = s[j + i]
  OBVIOUS
<1> HIDE DEF front, back
<1>3. /\ front \o back \in Seq(S)
      /\ Len(front \o back) = Len(s) - 1
      /\ \A j \in 1 .. Len(s) - 1 :
           (front \o back)[j] = IF j < i THEN front[j] ELSE back[j - (i - 1)]
  <2>1. /\ front \o back \in Seq(S)
        /\ Len(front \o back) = (i - 1) + (Len(s) - i)
        /\ \A j \in 1 .. (i - 1) + (Len(s) - i) :
             (front \o back)[j] = IF j <= i - 1 THEN front[j] ELSE back[j - (i - 1)]
    <3>1. front \in Seq(S) /\ back \in Seq(S)
      BY <1>1, <1>2
    <3>2. /\ front \o back \in Seq(S)
          /\ Len(front \o back) = Len(front) + Len(back)
          /\ \A j \in 1 .. Len(front) + Len(back) :
               (front \o back)[j] = IF j <= Len(front) THEN front[j] ELSE back[j - Len(front)]
      BY <3>1, ConcatProperties, Zenon
    <3>3. Len(front) = i - 1 /\ Len(back) = Len(s) - i
      BY <1>1, <1>2
    <3>4. QED
      BY <3>2, <3>3, Zenon
  <2>2. (i - 1) + (Len(s) - i) = Len(s) - 1
    OBVIOUS
  <2>3. \A j \in 1 .. Len(s) - 1 : j <= i - 1 <=> j < i
    OBVIOUS
  <2>4. QED
    BY <2>1, <2>2, <2>3
<1>4. \A j \in 1 .. Len(s) - 1 :
        (front \o back)[j] = IF j < i THEN s[j] ELSE s[j + 1]
  BY <1>1, <1>2, <1>3
<1>5. QED
  BY <1>3, <1>4 DEF RemoveAt, front, back

LEMMA WithoutFront ==
  ASSUME NEW S, NEW s \in Seq(S), NEW n \in 0 .. Len(s)
  PROVE  /\ SubSeq(s, n + 1, Len(s)) \in Seq(S)
         /\ Len(SubSeq(s, n + 1, Len(s))) = Len(s) - n
         /\ \A j \in 1 .. Len(s) - n : SubSeq(s, n + 1, Len(s))[j] = s[j + n]
OBVIOUS

-----------------------------------------------------------------------------
(* The sessions: what dropping keys and adding one at the back do to a map   *)
(* and the list that orders it.                                             *)

StickyMap == [Keys -> StickyEntry \cup {NoSticky}]

Cached(map) == {k \in Keys : map[k] # NoSticky}

Ordered(map, list) ==
  /\ Cached(map) = Range(list)
  /\ \A i, j \in 1 .. Len(list) : list[i] = list[j] => i = j
  /\ \A i, j \in 1 .. Len(list) : i < j => map[list[i]].left <= map[list[j]].left

Without(map, gone) == [k \in Keys |-> IF k \in gone THEN NoSticky ELSE map[k]]

\* old takes the places of list2, in order, to those places of list whose keys
\* are not gone.
Thins(list, list2, gone, old) ==
  /\ old \in [1 .. Len(list2) -> 1 .. Len(list)]
  /\ \A i, j \in 1 .. Len(list2) : i < j => old[i] < old[j]
  /\ \A i \in 1 .. Len(list2) : list2[i] = list[old[i]] /\ list2[i] \notin gone
  /\ \A i \in 1 .. Len(list) :
       list[i] \notin gone => \E j \in 1 .. Len(list2) : old[j] = i

\* A list that keeps its order and loses exactly the keys that leave the map.
LEMMA ThinOut ==
  ASSUME NEW map \in StickyMap, NEW list \in Seq(Keys), Ordered(map, list),
         NEW map2 \in StickyMap, NEW list2 \in Seq(Keys), NEW gone \in SUBSET Keys,
         map2 = Without(map, gone),
         NEW old, Thins(list, list2, gone, old)
  PROVE  Ordered(map2, list2)
<1> USE DEF Thins, Without
<1>1. Cached(map2) = Cached(map) \ gone
  BY DEF Cached, StickyMap
<1>2. Range(list2) = Range(list) \ gone
  <2>1. \A k \in Range(list2) : k \in Range(list) /\ k \notin gone
    BY DEF Range
  <2>2. ASSUME NEW k \in Range(list), k \notin gone
        PROVE  k \in Range(list2)
    <3>1. PICK i \in 1 .. Len(list) : list[i] = k
      BY DEF Range
    <3>2. PICK j \in 1 .. Len(list2) : old[j] = i
      BY <2>2, <3>1
    <3>3. list2[j] = k
      BY <3>1, <3>2
    <3>4. QED
      BY <3>3 DEF Range
  <2>3. QED
    BY <2>1, <2>2
<1>3. \A i, j \in 1 .. Len(list2) : list2[i] = list2[j] => i = j
  <2>1. ASSUME NEW i \in 1 .. Len(list2), NEW j \in 1 .. Len(list2), list2[i] = list2[j]
        PROVE  old[i] = old[j]
    <3>1. old[i] \in 1 .. Len(list) /\ old[j] \in 1 .. Len(list)
      OBVIOUS
    <3>2. list[old[i]] = list[old[j]]
      BY <2>1
    <3>3. QED
      BY <3>1, <3>2 DEF Ordered
  <2>2. ASSUME NEW i \in 1 .. Len(list2), NEW j \in 1 .. Len(list2), i < j
        PROVE  old[i] < old[j] /\ old[i] \in Int /\ old[j] \in Int
    <3>1. old[i] < old[j]
      BY <2>2
    <3>2. old[i] \in 1 .. Len(list) /\ old[j] \in 1 .. Len(list)
      OBVIOUS
    <3>3. QED
      BY <3>1, <3>2
  <2>3. \A i, j \in 1 .. Len(list2) : i < j => list2[i] # list2[j]
    BY <2>1, <2>2
  <2>4. ASSUME NEW i \in 1 .. Len(list2), NEW j \in 1 .. Len(list2), i # j
        PROVE  list2[i] # list2[j]
    <3>1. i < j \/ j < i
      BY <2>4
    <3>2. QED
      BY <2>3, <3>1
  <2>5. QED
    BY <2>4
<1>4. \A i \in 1 .. Len(list2) : map2[list2[i]] = map[list2[i]]
  BY DEF Range
<1>5. ASSUME NEW i \in 1 .. Len(list2), NEW j \in 1 .. Len(list2), i < j
      PROVE  map2[list2[i]].left <= map2[list2[j]].left
  <2>1. old[i] < old[j]
    BY <1>5
  <2>2. map[list[old[i]]].left <= map[list[old[j]]].left
    BY <2>1 DEF Ordered
  <2>3. QED
    BY <1>4, <2>2
<1>6. QED
  BY <1>1, <1>2, <1>3, <1>5 DEF Ordered

With(map, key, a) == [map EXCEPT ![key] = [account |-> a, left |-> StickyTTL]]

\* A new key at the back, with a full TTL.
LEMMA AddLast ==
  ASSUME NEW map \in StickyMap, NEW list \in Seq(Keys), Ordered(map, list),
         NEW key \in Keys, key \notin Cached(map), NEW a \in Accounts,
         NEW map2, map2 = With(map, key, a),
         NEW list2, list2 = Append(list, key)
  PROVE  /\ map2 \in StickyMap
         /\ list2 \in Seq(Keys)
         /\ Len(list2) = Len(list) + 1
         /\ Ordered(map2, list2)
<1> DEFINE new == [account |-> a, left |-> StickyTTL]
<1>1. /\ list2 \in Seq(Keys)
      /\ Len(list2) = Len(list) + 1
      /\ \A i \in 1 .. Len(list) : list2[i] = list[i]
      /\ list2[Len(list) + 1] = key
  OBVIOUS
<1>2. new \in StickyEntry /\ new # NoSticky /\ new.left = StickyTTL
  BY NoneAssumption, StickyAssumption DEF StickyEntry, NoSticky
<1> HIDE DEF new
<1>3. map2 \in StickyMap /\ map2[key] = new /\ \A k \in Keys \ {key} : map2[k] = map[k]
  BY <1>2 DEF StickyMap, With, new
<1>4. Cached(map2) = Cached(map) \cup {key}
  BY <1>2, <1>3 DEF Cached
<1>5. Range(list2) = Range(list) \cup {key}
  BY <1>1 DEF Range
<1>6. \A i \in 1 .. Len(list) : list[i] \in Keys /\ list[i] # key
  BY DEF Ordered, Range, Cached
<1>7. \A i, j \in 1 .. Len(list2) : list2[i] = list2[j] => i = j
  BY <1>1, <1>6 DEF Ordered
<1>8. \A k \in Keys : map[k].left \in Int /\ map[k].left <= StickyTTL
  BY StickyAssumption DEF StickyMap, StickyEntry, NoSticky
<1>9. ASSUME NEW i \in 1 .. Len(list2), NEW j \in 1 .. Len(list2), i < j
      PROVE  map2[list2[i]].left <= map2[list2[j]].left
  <2>1. i \in 1 .. Len(list) /\ map2[list2[i]] = map[list[i]]
    BY <1>1, <1>3, <1>6, <1>9
  <2>2. CASE j = Len(list) + 1
    BY <1>1, <1>2, <1>3, <1>6, <1>8, <2>1, <2>2
  <2>3. CASE j # Len(list) + 1
    BY <1>1, <1>3, <1>6, <1>9, <2>1, <2>3 DEF Ordered
  <2>4. QED
    BY <2>2, <2>3
<1>10. QED
  BY <1>1, <1>3, <1>4, <1>5, <1>7, <1>9 DEF Ordered

LEMMA RemoveOne ==
  ASSUME NEW map \in StickyMap, NEW list \in Seq(Keys), Ordered(map, list),
         NEW e \in 1 .. Len(list),
         NEW map2, map2 = [map EXCEPT ![list[e]] = NoSticky],
         NEW list2, list2 = RemoveAt(list, e)
  PROVE  /\ map2 \in StickyMap
         /\ list2 \in Seq(Keys)
         /\ Len(list2) = Len(list) - 1
         /\ list[e] \notin Cached(map2)
         /\ Ordered(map2, list2)
<1> DEFINE old == [i \in 1 .. Len(list2) |-> IF i < e THEN i ELSE i + 1]
<1>1. /\ list2 \in Seq(Keys)
      /\ Len(list2) = Len(list) - 1
      /\ \A i \in 1 .. Len(list) - 1 : list2[i] = IF i < e THEN list[i] ELSE list[i + 1]
  BY WithoutElement
<1>2. list[e] \in Keys
  OBVIOUS
<1>3. /\ map2 \in StickyMap
      /\ map2 = [k \in Keys |-> IF k \in {list[e]} THEN NoSticky ELSE map[k]]
  BY <1>2 DEF StickyMap
<1>4. old \in [1 .. Len(list2) -> 1 .. Len(list)]
  BY <1>1
<1>5. \A i, j \in 1 .. Len(list2) : i < j => old[i] < old[j]
  BY <1>1
<1>6. \A i \in 1 .. Len(list2) : list2[i] = list[old[i]] /\ old[i] # e
  BY <1>1
<1>7. \A i \in 1 .. Len(list2) : list2[i] \notin {list[e]}
  BY <1>4, <1>6 DEF Ordered
<1>8. ASSUME NEW i \in 1 .. Len(list), list[i] \notin {list[e]}
      PROVE  \E j \in 1 .. Len(list2) : old[j] = i
  <2>1. CASE i < e
    <3>1. i \in 1 .. Len(list2) /\ old[i] = i
      BY <1>1, <2>1
    <3>2. QED
      BY <3>1
  <2>2. CASE i > e
    <3>1. i - 1 \in 1 .. Len(list2) /\ old[i - 1] = i
      BY <1>1, <2>2
    <3>2. QED
      BY <3>1
  <2>3. QED
    BY <1>8, <2>1, <2>2
<1> HIDE DEF old
<1>9. Ordered(map2, list2)
  <2>1. map2 = Without(map, {list[e]})
    BY <1>3 DEF Without
  <2>2. Thins(list, list2, {list[e]}, old)
    BY <1>4, <1>5, <1>6, <1>7, <1>8 DEF Thins
  <2>3. {list[e]} \in SUBSET Keys
    BY <1>2
  <2>4. QED
    BY <1>1, <1>3, <2>1, <2>2, <2>3, ThinOut
<1>10. QED
  BY <1>1, <1>2, <1>3, <1>9 DEF Cached

Foremost(list, n) == {list[i] : i \in 1 .. n}

Behind(list, n) == SubSeq(list, n + 1, Len(list))

LEMMA RemoveFront ==
  ASSUME NEW map \in StickyMap, NEW list \in Seq(Keys), Ordered(map, list),
         NEW n \in 0 .. Len(list),
         NEW map2, map2 = Without(map, Foremost(list, n)),
         NEW list2, list2 = Behind(list, n)
  PROVE  /\ map2 \in StickyMap
         /\ list2 \in Seq(Keys)
         /\ Len(list2) = Len(list) - n
         /\ Ordered(map2, list2)
<1> DEFINE old == [i \in 1 .. Len(list2) |-> i + n]
<1> DEFINE front == Foremost(list, n)
<1> USE DEF Foremost
<1>1. /\ list2 \in Seq(Keys)
      /\ Len(list2) = Len(list) - n
      /\ \A i \in 1 .. Len(list) - n : list2[i] = list[i + n]
  BY WithoutFront DEF Behind
<1>2. map2 \in StickyMap
  BY DEF StickyMap, Without
<1>3. front \in SUBSET Keys
  OBVIOUS
<1>4. old \in [1 .. Len(list2) -> 1 .. Len(list)]
  BY <1>1
<1>5. \A i, j \in 1 .. Len(list2) : i < j => old[i] < old[j]
  BY <1>1
<1>6. \A i \in 1 .. Len(list2) : list2[i] = list[old[i]] /\ old[i] > n
  BY <1>1
<1>7. \A i \in 1 .. Len(list2) : list2[i] \notin front
  <2>1. \A i \in 1 .. Len(list2), j \in 1 .. n : list[old[i]] # list[j]
    BY <1>4, <1>6 DEF Ordered
  <2>2. \A i \in 1 .. Len(list2) : list[old[i]] \notin front
    BY <2>1
  <2>3. QED
    BY <1>6, <2>2, Zenon
<1>8. ASSUME NEW i \in 1 .. Len(list), list[i] \notin front
      PROVE  \E j \in 1 .. Len(list2) : old[j] = i
  <2>1. i > n
    BY <1>8
  <2>2. i - n \in 1 .. Len(list2) /\ old[i - n] = i
    BY <1>1, <2>1
  <2>3. QED
    BY <2>2
<1> HIDE DEF old
<1>9. Ordered(map2, list2)
  <2>1. Thins(list, list2, front, old)
    BY <1>4, <1>5, <1>6, <1>7, <1>8 DEF Thins
  <2>2. QED
    BY <1>1, <1>2, <1>3, <2>1, ThinOut
<1>10. QED
  BY <1>1, <1>2, <1>9

-----------------------------------------------------------------------------
(* The sessions under the operations of the pool.                           *)

SessionsTyped == sticky \in StickyMap /\ lru \in Seq(Keys)

SessionsOK ==
  /\ SessionsTyped
  /\ StickyAgrees
  /\ LruByExpiry

LEMMA SessionsOKMeans ==
  /\ SessionsOK <=> SessionsTyped /\ Ordered(sticky, lru) /\ Len(lru) <= StickyMax
  /\ SessionsOK' <=> SessionsTyped' /\ Ordered(sticky', lru') /\ Len(lru') <= StickyMax
BY DEF SessionsOK, StickyAgrees, LruByExpiry, Ordered, Cached, CachedKeys

LEMMA CacheSize ==
  ASSUME SessionsOK
  PROVE  Cardinality(CachedKeys) = Len(lru)
<1>1. lru \in [1 .. Len(lru) -> CachedKeys]
  BY DEF SessionsOK, SessionsTyped, StickyAgrees, Range
<1>2. lru \in Bijection(1 .. Len(lru), CachedKeys)
  BY <1>1 DEF SessionsOK, StickyAgrees, Range, Bijection, Injection, Surjection, IsInjective
<1>3. QED
  BY <1>2, FS_CountingElements DEF ExistsBijection, SessionsOK, SessionsTyped

LEMMA ElemFound ==
  ASSUME SessionsOK, NEW key \in CachedKeys
  PROVE  Elem(key) \in 1 .. Len(lru) /\ lru[Elem(key)] = key
<1>1. \E i \in DOMAIN lru : lru[i] = key
  BY DEF SessionsOK, StickyAgrees, Range
<1>2. DOMAIN lru = 1 .. Len(lru)
  BY DEF SessionsOK, SessionsTyped
<1>3. QED
  BY <1>1, <1>2 DEF Elem

LEMMA TouchKeeps ==
  ASSUME SessionsOK, NEW key \in CachedKeys, NEW a \in Accounts, Touch(key, a)
  PROVE  SessionsOK'
<1> DEFINE e == Elem(key)
           map == [sticky EXCEPT ![lru[e]] = NoSticky]
           list == RemoveAt(lru, e)
<1>1. e \in 1 .. Len(lru) /\ lru[e] = key
  BY ElemFound
<1>2. sticky \in StickyMap /\ lru \in Seq(Keys) /\ Ordered(sticky, lru) /\ Len(lru) <= StickyMax
  BY SessionsOKMeans DEF SessionsTyped
<1> HIDE DEF e
<1>3. /\ map \in StickyMap /\ list \in Seq(Keys) /\ Len(list) = Len(lru) - 1
      /\ key \notin Cached(map) /\ Ordered(map, list)
  BY <1>1, <1>2, RemoveOne
<1>4. sticky' = With(map, key, a)
  BY <1>1, <1>2 DEF Touch, StickyMap, With
<1>5. lru' = Append(list, key)
  BY DEF Touch, LruWithout, e
<1>6. key \in Keys
  BY DEF CachedKeys
<1> HIDE DEF map, list
<1>7. /\ sticky' \in StickyMap /\ lru' \in Seq(Keys)
      /\ Len(lru') = Len(list) + 1 /\ Ordered(sticky', lru')
  BY <1>3, <1>4, <1>5, <1>6, AddLast
<1>8. Len(lru') <= StickyMax
  BY <1>2, <1>3, <1>7
<1>9. QED
  BY <1>7, <1>8, SessionsOKMeans DEF SessionsTyped

LEMMA DropKeeps ==
  ASSUME SessionsOK, NEW key \in CachedKeys,
         sticky' = [sticky EXCEPT ![key] = NoSticky],
         lru' = LruWithout(key)
  PROVE  SessionsOK'
<1> DEFINE e == Elem(key)
<1>1. e \in 1 .. Len(lru) /\ lru[e] = key
  BY ElemFound
<1>2. sticky \in StickyMap /\ lru \in Seq(Keys) /\ Ordered(sticky, lru) /\ Len(lru) <= StickyMax
  BY SessionsOKMeans DEF SessionsTyped
<1>3. lru' = RemoveAt(lru, e)
  BY DEF LruWithout
<1> HIDE DEF e
<1>4. /\ sticky' \in StickyMap /\ lru' \in Seq(Keys)
      /\ Len(lru') = Len(lru) - 1 /\ Ordered(sticky', lru')
  BY <1>1, <1>2, <1>3, RemoveOne
<1>5. Len(lru') <= StickyMax
  BY <1>2, <1>4, StickyAssumption
<1>6. QED
  BY <1>4, <1>5, SessionsOKMeans DEF SessionsTyped

\* Room is made before the new key goes in: the limit is never passed.
LEMMA InsertKeeps ==
  ASSUME SessionsOK, NEW key \in Keys, key \notin CachedKeys, NEW a \in Accounts,
         Insert(key, a)
  PROVE  SessionsOK'
<1> DEFINE n == Evictions
           map == Without(sticky, Evicted)
           list == SubSeq(lru, n + 1, Len(lru))
<1>1. sticky \in StickyMap /\ lru \in Seq(Keys) /\ Ordered(sticky, lru) /\ Len(lru) <= StickyMax
  BY SessionsOKMeans DEF SessionsTyped
<1>2. n \in 0 .. Len(lru) /\ Len(lru) - n < StickyMax
  BY <1>1, CacheSize, StickyAssumption DEF Evictions
<1>3. Evicted = Foremost(lru, n)
  BY DEF Evicted, Foremost
<1> HIDE DEF n
<1>4. /\ map \in StickyMap /\ list \in Seq(Keys) /\ Len(list) = Len(lru) - n
      /\ Ordered(map, list)
  <2>1. map = Without(sticky, Foremost(lru, n)) /\ list = Behind(lru, n)
    BY <1>3 DEF Behind
  <2> HIDE DEF map, list
  <2>2. QED
    BY <1>1, <1>2, <2>1, RemoveFront
<1>5. key \notin Cached(map)
  BY <1>1 DEF Cached, CachedKeys, Without
<1>6. sticky' = With(map, key, a)
  BY DEF Insert, Without, With
<1>7. lru' = Append(list, key)
  BY DEF Insert, n
<1> HIDE DEF map, list
<1>8. /\ sticky' \in StickyMap /\ lru' \in Seq(Keys)
      /\ Len(lru') = Len(list) + 1 /\ Ordered(sticky', lru')
  BY <1>4, <1>5, <1>6, <1>7, AddLast
<1>9. Len(lru') <= StickyMax
  BY <1>1, <1>2, <1>4, <1>8, StickyAssumption
<1>10. QED
  BY <1>8, <1>9, SessionsOKMeans DEF SessionsTyped

LEMMA TickKeeps ==
  ASSUME SessionsOK, Tick
  PROVE  SessionsOK'
<1>1. /\ lru' = lru
      /\ sticky' = [k \in Keys |-> [sticky[k] EXCEPT !.left = Elapse(@, -1)]]
  BY DEF Tick
<1>2. sticky \in StickyMap /\ lru \in Seq(Keys) /\ Ordered(sticky, lru) /\ Len(lru) <= StickyMax
  BY SessionsOKMeans DEF SessionsTyped
<1>3. ASSUME NEW k \in Keys
      PROVE  /\ sticky'[k] \in StickyEntry \cup {NoSticky}
             /\ sticky'[k] = NoSticky <=> sticky[k] = NoSticky
             /\ sticky'[k].left = Elapse(sticky[k].left, -1)
             /\ sticky[k].left \in Int
  <2>1. CASE sticky[k] = NoSticky
    BY <1>1, <2>1 DEF Elapse, NoSticky
  <2>2. CASE sticky[k] \in StickyEntry
    <3>1. PICK a \in Accounts, n \in -1 .. StickyTTL : sticky[k] = [account |-> a, left |-> n]
      BY <2>2 DEF StickyEntry
    <3>2. sticky'[k] = [account |-> a, left |-> Elapse(n, -1)]
      BY <1>1, <3>1
    <3>3. Elapse(n, -1) \in -1 .. StickyTTL
      BY StickyAssumption DEF Elapse
    <3>4. QED
      BY <3>1, <3>2, <3>3, NoneAssumption DEF StickyEntry, NoSticky
  <2>3. QED
    BY <1>2, <2>1, <2>2 DEF StickyMap
<1>4. sticky' \in StickyMap /\ Cached(sticky') = Cached(sticky)
  <2>1. sticky' = [k \in Keys |-> sticky'[k]]
    BY <1>1
  <2>2. QED
    BY <1>3, <2>1 DEF StickyMap, Cached
<1>5. ASSUME NEW i \in 1 .. Len(lru), NEW j \in 1 .. Len(lru), i < j
      PROVE  sticky'[lru[i]].left <= sticky'[lru[j]].left
  <2>1. lru[i] \in Keys /\ lru[j] \in Keys
    BY <1>2
  <2>2. sticky[lru[i]].left <= sticky[lru[j]].left
    BY <1>2, <1>5 DEF Ordered
  <2>3. Elapse(sticky[lru[i]].left, -1) <= Elapse(sticky[lru[j]].left, -1)
    BY <1>3, <2>1, <2>2 DEF Elapse
  <2>4. QED
    BY <1>3, <2>1, <2>3
<1>6. Ordered(sticky', lru')
  BY <1>1, <1>2, <1>4, <1>5 DEF Ordered
<1>7. QED
  BY <1>1, <1>2, <1>4, <1>6, SessionsOKMeans DEF SessionsTyped

LEMMA SessionsStep ==
  ASSUME SessionsOK, [Next]_poolVars
  PROVE  SessionsOK'
<1>1. ASSUME UNCHANGED sessionVars
      PROVE  SessionsOK'
  BY <1>1 DEF SessionsOK, SessionsTyped, StickyAgrees, LruByExpiry, CachedKeys, sessionVars
<1>2. ASSUME NEW out \in SUBSET Accounts, NEW key \in Keys \cup {None},
             NEW a \in Accounts, Pick(out, key, a)
      PROVE  SessionsOK'
  <2>1. CASE PickSticky(out, key, a)
    <3>1. key \in CachedKeys /\ Touch(key, a)
      BY <2>1 DEF PickSticky, StickyHit
    <3>2. QED
      BY <3>1, TouchKeeps
  <2>2. CASE PickDrawn(out, key, a)
    <3>1. CASE key = None
      BY <1>1, <2>2, <3>1 DEF PickDrawn, SetSticky
    <3>2. CASE key # None /\ key \in CachedKeys
      BY <2>2, <3>2, TouchKeeps DEF PickDrawn, SetSticky
    <3>3. CASE key # None /\ key \notin CachedKeys
      BY <2>2, <3>3, InsertKeeps DEF PickDrawn, SetSticky
    <3>4. QED
      BY <3>1, <3>2, <3>3
  <2>3. QED
    BY <1>2, <2>1, <2>2 DEF Pick
<1>3. ASSUME NEW out \in SUBSET Accounts, NEW key \in Keys \cup {None},
             PickNothing(out, key)
      PROVE  SessionsOK'
  <2>1. CASE key # None /\ Expired(key)
    BY <1>3, <2>1, DropKeeps DEF PickNothing, DropExpired, Expired
  <2>2. CASE ~(key # None /\ Expired(key))
    BY <1>1, <1>3, <2>2 DEF PickNothing, DropExpired
  <2>3. QED
    BY <2>1, <2>2
<1>4. CASE Tick
  BY <1>4, TickKeeps
<1>5. ASSUME NEW listing \in [Accounts -> Listings], Reload(listing)
      PROVE  SessionsOK'
  BY <1>1, <1>5 DEF Reload, sessionVars
<1>6. ASSUME NEW a \in Accounts, NEW q \in Quotas, ApplyQuota(a, q)
      PROVE  SessionsOK'
  BY <1>1, <1>6 DEF ApplyQuota, sessionVars
<1>7. ASSUME NEW a \in Accounts, ReportSuccess(a)
      PROVE  SessionsOK'
  BY <1>1, <1>7 DEF ReportSuccess, sessionVars
<1>8. ASSUME NEW a \in Accounts, NEW relayFault \in BOOLEAN, ReportFailure(a, relayFault)
      PROVE  SessionsOK'
  BY <1>1, <1>8 DEF ReportFailure, sessionVars
<1>9. CASE UNCHANGED poolVars
  BY <1>1, <1>9 DEF poolVars, sessionVars
<1>10. QED
  BY <1>2, <1>3, <1>4, <1>5, <1>6, <1>7, <1>8, <1>9 DEF Next, Environment

-----------------------------------------------------------------------------
(* The health of the accounts.                                              *)

HealthTyped ==
  /\ status \in [Accounts -> {"absent", "on", "off", "gone"}]
  /\ failures \in [Accounts -> 0 .. MaxFailures]
  /\ cooldown \in [Accounts -> 0 .. MaxBackoff]
  /\ quota \in [Accounts -> {"none", "open", "barred"}]

HealthOK == HealthTyped /\ CoolingIsEarned

LEMMA FailureKeeps ==
  ASSUME HealthOK, NEW a \in Accounts, NEW relayFault \in BOOLEAN,
         ReportFailure(a, relayFault)
  PROVE  HealthOK'
<1>1. CASE relayFault
  BY <1>1 DEF ReportFailure, healthVars, HealthOK, HealthTyped, CoolingIsEarned
<1>2. CASE ~relayFault
  <2>1. failures[a] + 1 \in 1 .. MaxFailures
    BY <1>2, BackoffAssumption DEF ReportFailure, HealthOK, HealthTyped
  <2>2. Backoff(failures[a] + 1) \in 0 .. MaxBackoff
    BY <2>1, BackoffRange
  <2>3. /\ failures' = [failures EXCEPT ![a] = failures[a] + 1]
        /\ cooldown' = [cooldown EXCEPT ![a] = Backoff(failures[a] + 1)]
        /\ UNCHANGED <<status, quota>>
    BY <1>2 DEF ReportFailure
  <2>4. HealthTyped'
    BY <2>1, <2>2, <2>3, BackoffAssumption DEF HealthOK, HealthTyped
  <2>5. ASSUME NEW b \in Accounts, cooldown'[b] > 0
        PROVE  failures'[b] > 0 /\ cooldown'[b] <= Backoff(failures'[b])
    <3>1. CASE b = a
      BY <2>1, <2>2, <2>3, <3>1 DEF HealthOK, HealthTyped
    <3>2. CASE b # a
      BY <2>3, <2>5, <3>2 DEF HealthOK, HealthTyped, CoolingIsEarned
    <3>3. QED
      BY <3>1, <3>2
  <2>6. QED
    BY <2>4, <2>5 DEF HealthOK, CoolingIsEarned
<1>3. QED
  BY <1>1, <1>2

LEMMA CoolDown ==
  ASSUME HealthOK, Tick
  PROVE  HealthOK'
<1>1. \A a \in Accounts :
        /\ cooldown'[a] \in 0 .. MaxBackoff
        /\ cooldown'[a] <= cooldown[a]
        /\ cooldown'[a] > 0 => cooldown[a] > 0
  BY BackoffAssumption DEF Tick, Elapse, HealthOK, HealthTyped
<1>2. HealthTyped'
  BY <1>1 DEF Tick, HealthOK, HealthTyped
<1>3. ASSUME NEW a \in Accounts, cooldown'[a] > 0
      PROVE  failures'[a] > 0 /\ cooldown'[a] <= Backoff(failures'[a])
  <2>1. /\ failures' = failures
        /\ cooldown[a] \in Nat /\ cooldown'[a] \in Nat
        /\ failures[a] > 0 /\ cooldown[a] <= Backoff(failures[a])
    BY <1>1, <1>3 DEF Tick, HealthOK, HealthTyped, CoolingIsEarned
  <2>2. Backoff(failures[a]) \in 0 .. MaxBackoff
    BY <2>1, BackoffRange DEF HealthOK, HealthTyped
  <2>3. QED
    BY <1>1, <2>1, <2>2
<1>4. QED
  BY <1>2, <1>3 DEF HealthOK, CoolingIsEarned

LEMMA HealthStep ==
  ASSUME HealthOK, [Next]_poolVars
  PROVE  HealthOK'
<1> USE DEF HealthOK, HealthTyped, CoolingIsEarned
<1>1. ASSUME NEW out \in SUBSET Accounts, NEW key \in Keys \cup {None},
             \/ \E a \in Accounts : Pick(out, key, a)
             \/ PickNothing(out, key)
      PROVE  HealthOK'
  BY <1>1 DEF Pick, PickSticky, PickDrawn, PickNothing
<1>2. CASE Tick
  BY <1>2, CoolDown
<1>3. ASSUME NEW listing \in [Accounts -> Listings], Reload(listing)
      PROVE  HealthOK'
  BY <1>3, InputAssumption DEF Reload
<1>4. ASSUME NEW a \in Accounts, NEW q \in Quotas, ApplyQuota(a, q)
      PROVE  HealthOK'
  BY <1>4, InputAssumption DEF ApplyQuota
<1>5. ASSUME NEW a \in Accounts, ReportSuccess(a)
      PROVE  HealthOK'
  BY <1>5, BackoffAssumption DEF ReportSuccess
<1>6. ASSUME NEW a \in Accounts, NEW relayFault \in BOOLEAN, ReportFailure(a, relayFault)
      PROVE  HealthOK'
  BY <1>6, FailureKeeps
<1>7. CASE UNCHANGED poolVars
  BY <1>7 DEF poolVars
<1>8. QED
  BY <1>1, <1>2, <1>3, <1>4, <1>5, <1>6, <1>7 DEF Next, Environment

-----------------------------------------------------------------------------
(* The theorems.                                                            *)

PoolInv == SessionsOK /\ HealthOK

LEMMA PoolInvStep == PoolInv /\ [Next]_poolVars => PoolInv'
BY SessionsStep, HealthStep DEF PoolInv

LEMMA PoolInvInit == Init => PoolInv
<1> SUFFICES ASSUME Init PROVE PoolInv
  OBVIOUS
<1>1. HealthOK
  BY BackoffAssumption DEF Init, HealthOK, HealthTyped, CoolingIsEarned
<1>2. SessionsOK
  BY StickyAssumption DEF Init, SessionsOK, SessionsTyped, StickyMap, StickyAgrees,
     LruByExpiry, CachedKeys, Range
<1>3. QED
  BY <1>1, <1>2 DEF PoolInv

\* Pool.entries, Pool.sticky and Pool.lru keep their types under every
\* sequence of calls; the list is why this needs StickyAgrees.
THEOREM PoolTypeCorrect == Spec => []TypeOK
<1>1. PoolInv => TypeOK
  BY DEF PoolInv, SessionsOK, SessionsTyped, StickyMap, HealthOK, HealthTyped, TypeOK
<1>2. QED
  BY <1>1, PoolInvInit, PoolInvStep, PTL DEF Spec

\* The sticky map and its LRU list (pool.go: Pick, setSticky, removeSticky)
\* name the same sessions, for any number of sessions and any limit.
THEOREM SessionsAgree == Spec => []StickyAgrees
<1>1. PoolInv => StickyAgrees
  BY DEF PoolInv, SessionsOK
<1>2. QED
  BY <1>1, PoolInvInit, PoolInvStep, PTL DEF Spec

\* The front of the LRU list is always the session that expires first.
THEOREM EvictsFirstToExpire == Spec => []LruByExpiry
<1>1. PoolInv => LruByExpiry
  BY DEF PoolInv, SessionsOK
<1>2. QED
  BY <1>1, PoolInvInit, PoolInvStep, PTL DEF Spec

\* An account cools only for failures that are on its record
\* (pool.go: ReportSuccess, ReportFailure).
THEOREM CoolingEarned == Spec => []CoolingIsEarned
<1>1. PoolInv => CoolingIsEarned
  BY DEF PoolInv, HealthOK
<1>2. QED
  BY <1>1, PoolInvInit, PoolInvStep, PTL DEF Spec

\* Until the shift has lost every bit, the backoff of one more failure is not
\* shorter, and never zero.
LEMMA BackoffGrows ==
  ASSUME NEW n \in 0 .. MaxFailures, n < MaxFailures, ShiftedBackoff(n + 1) # 0
  PROVE  /\ Backoff(n + 1) > 0
         /\ n > 0 => Backoff(n) <= Backoff(n + 1)
<1>1. /\ n \in Nat /\ n + 1 \in 1 .. MaxFailures /\ (n + 1) - 1 = n
      /\ BaseBackoff \in Nat \ {0} /\ MaxBackoff \in Nat \ {0}
  BY BackoffAssumption
<1>2. ShiftedBackoff(n + 1) \in Int /\ (n > 0 => ShiftedBackoff(n) \in Int)
  BY <1>1, ShiftTyped
<1>3. n > 0 => Backoff(n) \in 0 .. MaxBackoff
  BY <1>1, BackoffRange
<1>4. CASE ShiftedBackoff(n + 1) > MaxBackoff \/ ShiftedBackoff(n + 1) < 0
  <2>1. Backoff(n + 1) = MaxBackoff
    BY <1>4 DEF Backoff
  <2>2. QED
    BY <1>1, <1>3, <2>1
<1>5. CASE ShiftedBackoff(n + 1) \in 1 .. MaxBackoff
  <2>1. Backoff(n + 1) = ShiftedBackoff(n + 1)
    BY <1>1, <1>5 DEF Backoff
  <2>2. n > 0 => ShiftedBackoff(n + 1) = 2 * ShiftedBackoff(n)
    BY <1>1, <1>5, WordAssumption
  <2>3. n > 0 => Backoff(n) = ShiftedBackoff(n)
    BY <1>1, <1>2, <1>5, <2>2 DEF Backoff
  <2>4. QED
    BY <1>1, <1>2, <1>5, <2>1, <2>2, <2>3
<1> QED
  BY <1>1, <1>2, <1>4, <1>5

\* Every counted failure cools, at least as long as what was left of the last
\* cooldown (pool.go: ReportFailure), until the shift has lost every bit.
THEOREM FailuresCool == Spec => FailureCools
<1> DEFINE Holds == \A a \in Accounts :
                      failures'[a] > failures[a] =>
                        \/ cooldown'[a] > 0 /\ cooldown'[a] >= cooldown[a]
                        \/ ShiftedBackoff(failures'[a]) = 0
<1>1. ASSUME HealthOK, NEW a \in Accounts, NEW relayFault \in BOOLEAN,
             ReportFailure(a, relayFault)
      PROVE  Holds
  <2>1. CASE relayFault
    BY <1>1, <2>1 DEF ReportFailure, healthVars, HealthOK, HealthTyped
  <2>2. CASE ~relayFault
    <3> DEFINE n == failures[a]
    <3>1. /\ n \in 0 .. MaxFailures /\ n < MaxFailures
          /\ failures' = [failures EXCEPT ![a] = n + 1]
          /\ cooldown' = [cooldown EXCEPT ![a] = Backoff(n + 1)]
      BY <1>1, <2>2 DEF ReportFailure, HealthOK, HealthTyped
    <3>2. n + 1 \in 1 .. MaxFailures /\ Backoff(n + 1) \in 0 .. MaxBackoff
      BY <3>1, BackoffRange, BackoffAssumption
    <3>3. ASSUME ShiftedBackoff(n + 1) # 0
          PROVE  Backoff(n + 1) > 0 /\ cooldown[a] <= Backoff(n + 1)
      <4>1. Backoff(n + 1) > 0 /\ (n > 0 => Backoff(n) <= Backoff(n + 1))
        BY <3>1, <3>3, BackoffGrows
      <4>2. CASE cooldown[a] > 0
        <5>1. n \in 1 .. MaxFailures /\ cooldown[a] <= Backoff(n)
          BY <1>1, <3>1, <4>2 DEF HealthOK, HealthTyped, CoolingIsEarned
        <5>2. Backoff(n) \in 0 .. MaxBackoff /\ cooldown[a] \in Nat
          BY <1>1, <5>1, BackoffRange, BackoffAssumption DEF HealthOK, HealthTyped
        <5>3. QED
          BY <3>2, <4>1, <5>1, <5>2
      <4>3. CASE cooldown[a] = 0
        BY <3>2, <4>1, <4>3
      <4>4. QED
        BY <1>1, <4>2, <4>3 DEF HealthOK, HealthTyped
    <3> HIDE DEF n
    <3>4. \A b \in Accounts \ {a} : failures'[b] = failures[b] /\ failures[b] \in Nat
      BY <1>1, <3>1 DEF HealthOK, HealthTyped
    <3>5. cooldown'[a] = Backoff(n + 1) /\ failures'[a] = n + 1
      BY <1>1, <3>1 DEF HealthOK, HealthTyped
    <3>6. QED
      BY <3>2, <3>3, <3>4, <3>5
  <2>3. QED
    BY <2>1, <2>2
<1>2. ASSUME HealthOK, UNCHANGED failures
      PROVE  Holds
  BY <1>2 DEF HealthOK, HealthTyped
<1>3. ASSUME HealthOK, NEW a \in Accounts, ReportSuccess(a)
      PROVE  Holds
  BY <1>3 DEF ReportSuccess, HealthOK, HealthTyped
<1>4. PoolInv /\ [Next]_poolVars => [Holds]_poolVars
  <2> SUFFICES ASSUME PoolInv, Next PROVE Holds
    OBVIOUS
  <2>1. HealthOK
    BY DEF PoolInv
  <2>2. \/ UNCHANGED failures
        \/ \E a \in Accounts : ReportSuccess(a)
        \/ \E a \in Accounts, relayFault \in BOOLEAN : ReportFailure(a, relayFault)
    BY DEF Next, Environment, Tick, Reload, ApplyQuota, Pick, PickSticky, PickDrawn, PickNothing
  <2> HIDE DEF Holds
  <2>3. QED
    BY <1>1, <1>2, <1>3, <2>1, <2>2
<1>5. FailureCools <=> [][Holds]_poolVars
  BY DEF FailureCools
<1> HIDE DEF Holds
<1>6. QED
  BY <1>4, <1>5, PoolInvInit, PoolInvStep, PTL DEF Spec

-----------------------------------------------------------------------------
(* The handlers.                                                            *)

Active(r) == pc[r] \in Holding \cup {"acquire"}

RequestsTyped ==
  /\ pc \in [Requests -> {"idle", "pick", "acquire", "done"} \cup Holding]
  /\ client \in [Requests -> BOOLEAN]
  /\ affinity \in [Requests -> Keys \cup {None}]
  /\ entry \in [Requests -> Accounts \cup {None}]
  /\ exclude \in [Requests -> SUBSET Accounts]
  /\ attempt \in [Requests -> 0 .. CapacityRetries]
  /\ refused \in [Requests -> SUBSET Accounts]
  /\ broken \in [Requests -> SUBSET Accounts]
  /\ outcome \in [Requests -> Outcomes]
  /\ ticket \in [Accounts -> BOOLEAN]

\* A request under way holds an account of the pool that it has not ruled out.
EntryInv(r) ==
  Active(r) => /\ entry[r] \in Accounts
               /\ entry[r] \notin exclude[r]
               /\ status[entry[r]] # "absent"

\* The accounts that answered 401 are ruled out, but for the one in hand; only
\* an answered request may have two of them.
RefusalInv(r) ==
  /\ IsFiniteSet(refused[r])
  /\ pc[r] \notin {"respond", "done"} => /\ Cardinality(refused[r]) <= 1
                                         /\ outcome[r] # "unauthorized"
  /\ pc[r] \notin {"switch", "respond", "done"} => refused[r] \subseteq exclude[r]
  /\ pc[r] = "switch" => refused[r] \subseteq exclude[r] \cup {entry[r]}
  /\ Cardinality(refused[r]) <= 2
  /\ outcome[r] = "unauthorized" <=> Cardinality(refused[r]) = 2

\* A backoff is only begun with a retry left.
RetryInv(r) == pc[r] = "backoff" => attempt[r] < CapacityRetries

RequestInv(r) == EntryInv(r) /\ RefusalInv(r) /\ RetryInv(r)

LoopInv == RequestsTyped /\ \A r \in Requests : RequestInv(r)

-----------------------------------------------------------------------------
(* The loop uses the pool only through the pool's operations.               *)

LEMMA StepOfPool ==
  ASSUME LoopInv, [ForwardNext]_vars
  PROVE  [Next]_poolVars
<1>1. CASE PoolStep
  BY <1>1 DEF PoolStep, Next
<1>2. ASSUME NEW a \in Accounts, TicketExpires(a)
      PROVE  UNCHANGED poolVars
  BY <1>2 DEF TicketExpires
<1>3. ASSUME NEW r \in Requests, PickEntry(r)
      PROVE  Next
  <2>1. exclude[r] \in SUBSET Accounts /\ affinity[r] \in Keys \cup {None}
    BY DEF LoopInv, RequestsTyped
  <2>2. (\E a \in Accounts : Pick(exclude[r], affinity[r], a)) \/ PickNothing(exclude[r], affinity[r])
    BY <1>3 DEF PickEntry
  <2>3. QED
    BY <2>1, <2>2 DEF Next
<1>4. ASSUME NEW r \in Requests, Active(r),
             \/ ReportSuccess(entry[r])
             \/ \E relayFault \in BOOLEAN : ReportFailure(entry[r], relayFault)
      PROVE  Next
  <2>1. entry[r] \in Accounts /\ status[entry[r]] # "absent"
    BY <1>4 DEF LoopInv, RequestInv, EntryInv
  <2>2. QED
    BY <1>4, <2>1 DEF Next
<1>5. ASSUME NEW r \in Requests, Handle(r)
      PROVE  Next \/ UNCHANGED poolVars
  <2>1. CASE PickEntry(r)
    BY <1>3, <2>1
  <2>2. CASE SealFails(r) \/ MintFails(r) \/ SendFails(r) \/ Succeed(r)
    BY <1>4, <2>2 DEF SealFails, MintFails, SendFails, Succeed, Active, Holding
  <2>3. CASE PassThrough(r)
    BY <1>4, <2>3 DEF PassThrough, BlameForStatus, Active, Holding
  <2>4. CASE \/ AcquireSlot(r) \/ Sign(r) \/ MintOK(r) \/ ClientGone(r) \/ NoCapacity(r)
             \/ BackoffOver(r) \/ Unauthorized(r) \/ BodyEnds(r) \/ Switch(r) \/ Respond(r)
    BY <2>4 DEF AcquireSlot, Sign, MintOK, ClientGone, NoCapacity, BackoffOver,
       Unauthorized, BodyEnds, Switch, Respond
  <2>5. QED
    BY <1>5, <2>1, <2>2, <2>3, <2>4 DEF Handle
<1>6. ASSUME NEW r \in Requests, (\E key \in Affinities : Arrive(r, key)) \/ Disconnect(r) \/ Return(r)
      PROVE  UNCHANGED poolVars
  BY <1>6 DEF Arrive, Disconnect, Return
<1>7. CASE UNCHANGED vars
  BY <1>7 DEF vars
<1>8. QED
  BY <1>1, <1>2, <1>5, <1>6, <1>7 DEF ForwardNext

LEMMA AccountsStay ==
  ASSUME [Next]_poolVars, NEW a \in Accounts, status[a] # "absent"
  PROVE  status'[a] # "absent"
BY DEF Next, Environment, Tick, Reload, ApplyQuota, Pick, PickSticky, PickDrawn, PickNothing,
   ReportSuccess, ReportFailure, poolVars

-----------------------------------------------------------------------------
(* What a step does to the request that takes it and to the others.         *)

LEMMA TypesStay ==
  ASSUME LoopInv, [ForwardNext]_vars
  PROVE  RequestsTyped'
<1> USE DEF LoopInv, RequestsTyped, Holding, Outcomes
<1>1. CASE PoolStep
  BY <1>1 DEF PoolStep, requestVars
<1>2. ASSUME NEW a \in Accounts, TicketExpires(a)
      PROVE  RequestsTyped'
  BY <1>2 DEF TicketExpires, requestVars
<1>3. ASSUME NEW r \in Requests, NEW key \in Affinities, Arrive(r, key)
      PROVE  RequestsTyped'
  BY <1>3, RequestAssumption DEF Arrive
<1>4. ASSUME NEW r \in Requests, Disconnect(r) \/ Return(r)
      PROVE  RequestsTyped'
  <2>1. CASE Disconnect(r)
    BY <2>1 DEF Disconnect
  <2>2. CASE Return(r)
    <3>1. 0 \in 0 .. CapacityRetries
      BY RequestAssumption
    <3>2. QED
      BY <2>2, <3>1 DEF Return
  <2>3. QED
    BY <1>4, <2>1, <2>2
<1>5. ASSUME NEW r \in Requests, Handle(r)
      PROVE  RequestsTyped'
  <2> USE RequestAssumption
  <2>1. CASE PickEntry(r)
    BY <2>1 DEF PickEntry
  <2>2. CASE AcquireSlot(r)
    <3>1. entry[r] \in Accounts
      BY <2>2 DEF AcquireSlot, Active, RequestInv, EntryInv
    <3>2. QED
      BY <2>2, <3>1 DEF AcquireSlot
  <2>3. CASE Sign(r) \/ MintOK(r) \/ ClientGone(r)
    <3>1. CASE Sign(r)
      BY <3>1 DEF Sign
    <3>2. CASE MintOK(r)
      BY <3>2 DEF MintOK
    <3>3. CASE ClientGone(r)
      BY <3>3 DEF ClientGone
    <3>4. QED
      BY <2>3, <3>1, <3>2, <3>3
  <2>11. CASE SealFails(r) \/ MintFails(r) \/ SendFails(r)
    <3>1. entry[r] \in Accounts
      BY <2>11 DEF SealFails, MintFails, SendFails, Active, RequestInv, EntryInv
    <3>2. /\ broken' = [broken EXCEPT ![r] = @ \cup {entry[r]}]
          /\ pc' = [pc EXCEPT ![r] = "switch"]
          /\ UNCHANGED <<client, affinity, entry, exclude, attempt, refused, outcome>>
      BY <2>11 DEF SealFails, MintFails, SendFails
    <3>4. ticket' \in [Accounts -> BOOLEAN]
      BY <2>11, <3>1 DEF SealFails, MintFails, SendFails
    <3>3. QED
      BY <3>1, <3>2, <3>4
  <2>4. CASE NoCapacity(r)
    BY <2>4 DEF NoCapacity
  <2>5. CASE BackoffOver(r)
    <3>1. attempt[r] + 1 \in 0 .. CapacityRetries
      BY <2>5 DEF BackoffOver, RequestInv, RetryInv
    <3>2. QED
      BY <2>5, <3>1 DEF BackoffOver, NextAttempt
  <2>6. CASE Unauthorized(r)
    <3>1. entry[r] \in Accounts
      BY <2>6 DEF Unauthorized, Active, RequestInv, EntryInv
    <3>2. QED
      BY <2>6, <3>1 DEF Unauthorized
  <2>7. CASE Succeed(r) \/ BodyEnds(r) \/ PassThrough(r)
    BY <2>7 DEF Succeed, BodyEnds, PassThrough
  <2>8. CASE Switch(r)
    <3>1. entry[r] \in Accounts
      BY <2>8 DEF Switch, Active, RequestInv, EntryInv
    <3>2. QED
      BY <2>8, <3>1 DEF Switch, ExcludeEntry
  <2>9. CASE Respond(r)
    BY <2>9 DEF Respond
  <2>10. QED
    BY <1>5, <2>1, <2>2, <2>3, <2>4, <2>5, <2>6, <2>7, <2>8, <2>9, <2>11 DEF Handle
<1>6. CASE UNCHANGED vars
  BY <1>6 DEF vars, requestVars
<1>7. QED
  BY <1>1, <1>2, <1>3, <1>4, <1>5, <1>6 DEF ForwardNext

\* A request that a step does not move keeps what is known of it.
LEMMA Unmoved ==
  ASSUME LoopInv, [Next]_poolVars, NEW q \in Requests,
         pc'[q] = pc[q], entry'[q] = entry[q], exclude'[q] = exclude[q],
         attempt'[q] = attempt[q], refused'[q] = refused[q], outcome'[q] = outcome[q]
  PROVE  RequestInv(q)'
<1>1. EntryInv(q)'
  BY AccountsStay DEF LoopInv, RequestInv, EntryInv, Active
<1>2. RefusalInv(q)' /\ RetryInv(q)'
  BY DEF LoopInv, RequestInv, RefusalInv, RetryInv
<1>3. QED
  BY <1>1, <1>2 DEF RequestInv

\* The same for a request that moves on with the account in hand and the same
\* accounts ruled out.
LEMMA MovesOn ==
  ASSUME LoopInv, [Next]_poolVars, NEW r \in Requests,
         Active(r), pc[r] \notin {"switch", "respond"},
         entry'[r] = entry[r], exclude'[r] = exclude[r], refused'[r] = refused[r],
         \/ outcome'[r] = outcome[r]
         \/ pc'[r] \in {"respond", "body"} /\ outcome'[r] # "unauthorized",
         pc'[r] = "backoff" => attempt'[r] < CapacityRetries
  PROVE  RequestInv(r)'
<1>1. EntryInv(r)'
  BY AccountsStay DEF LoopInv, RequestInv, EntryInv
<1>2. RefusalInv(r)'
  <2>1. /\ IsFiniteSet(refused[r]) /\ Cardinality(refused[r]) <= 1
        /\ outcome[r] # "unauthorized"
        /\ refused[r] \subseteq exclude[r]
        /\ outcome[r] = "unauthorized" <=> Cardinality(refused[r]) = 2
        /\ Cardinality(refused[r]) <= 2
    BY DEF LoopInv, RequestInv, RefusalInv, Active, Holding
  <2>2. QED
    BY <2>1 DEF RefusalInv
<1>3. QED
  BY <1>1, <1>2 DEF RequestInv, RetryInv

\* A 401 adds an account that had not answered one.
LEMMA RefusalAdds ==
  ASSUME LoopInv, NEW r \in Requests, Unauthorized(r)
  PROVE  /\ refused[r] \subseteq exclude[r]
         /\ IsFiniteSet(refused'[r])
         /\ refused'[r] = refused[r] \cup {entry[r]}
         /\ SecondRefusal(r) => Cardinality(refused'[r]) = 2
         /\ ~SecondRefusal(r) => Cardinality(refused'[r]) = 1
<1>1. /\ IsFiniteSet(refused[r]) /\ Cardinality(refused[r]) <= 1
      /\ refused[r] \subseteq exclude[r] /\ entry[r] \notin exclude[r]
  BY DEF Unauthorized, LoopInv, RequestInv, RefusalInv, EntryInv, Active, Holding
<1>2. refused'[r] = refused[r] \cup {entry[r]}
  BY DEF Unauthorized, LoopInv, RequestsTyped
<1>3. IsFiniteSet(refused'[r]) /\ Cardinality(refused'[r]) = Cardinality(refused[r]) + 1
  BY <1>1, <1>2, FS_AddElement
<1>4. Cardinality(refused[r]) \in Nat /\ (Cardinality(refused[r]) = 0 <=> refused[r] = {})
  BY <1>1, FS_EmptySet, FS_CardinalityType
<1>5. QED
  BY <1>1, <1>2, <1>3, <1>4 DEF SecondRefusal

LEMMA RequestMoves ==
  ASSUME LoopInv, [Next]_poolVars, NEW r \in Requests, Handle(r)
  PROVE  RequestInv(r)'
<1> USE DEF LoopInv, RequestsTyped
<1>1. CASE PickEntry(r)
  <2>1. /\ RefusalInv(r) /\ pc[r] = "pick"
        /\ UNCHANGED <<exclude, attempt, refused>>
    BY <1>1 DEF PickEntry, RequestInv
  <2>2. \/ \E a \in Accounts : /\ Pick(exclude[r], affinity[r], a)
                                /\ pc'[r] = "acquire" /\ entry'[r] = a /\ outcome'[r] = outcome[r]
        \/ pc'[r] = "done" /\ outcome'[r] \in {"badgateway", "unavailable"}
    BY <1>1 DEF PickEntry
  <2>3. CASE \E a \in Accounts : /\ Pick(exclude[r], affinity[r], a)
                                 /\ pc'[r] = "acquire" /\ entry'[r] = a /\ outcome'[r] = outcome[r]
    <3>1. PICK a \in Accounts : /\ Pick(exclude[r], affinity[r], a)
                               /\ pc'[r] = "acquire" /\ entry'[r] = a /\ outcome'[r] = outcome[r]
      BY <2>3
    <3>2. a \notin exclude[r] /\ status[a] = "on"
      BY <3>1 DEF Pick, PickSticky, PickDrawn, StickyHit, Candidates, Usable
    <3>3. status'[a] # "absent"
      BY <3>2, AccountsStay
    <3>4. QED
      BY <2>1, <3>1, <3>2, <3>3 DEF RequestInv, EntryInv, RefusalInv, RetryInv
  <2>4. CASE pc'[r] = "done" /\ outcome'[r] \in {"badgateway", "unavailable"}
    BY <2>1, <2>4 DEF RequestInv, EntryInv, RefusalInv, RetryInv, Active, Holding
  <2>5. QED
    BY <2>2, <2>3, <2>4
<1>2. CASE AcquireSlot(r)
  <2>1. CASE SlotFree(entry[r])
    BY <1>2, <2>1, MovesOn DEF AcquireSlot, Active
  <2>2. CASE ~SlotFree(entry[r])
    BY <1>2, <2>2 DEF AcquireSlot, RequestInv, EntryInv, RefusalInv, RetryInv, Active, Holding
  <2>3. QED
    BY <2>1, <2>2
<1>3. CASE Sign(r)
  BY <1>3, MovesOn DEF Sign, Active, Holding
<1>4. CASE MintOK(r)
  BY <1>4, MovesOn DEF MintOK, Active, Holding
<1>5. CASE SealFails(r) \/ MintFails(r) \/ SendFails(r)
  <2>1. /\ pc[r] \in {"sign", "mint", "send"} /\ pc'[r] = "switch"
        /\ UNCHANGED <<entry, exclude, attempt, refused, outcome>>
    BY <1>5 DEF SealFails, MintFails, SendFails
  <2>2. QED
    BY <2>1, MovesOn DEF Active, Holding
<1>6. CASE ClientGone(r)
  BY <1>6, MovesOn DEF ClientGone, Active, Holding
<1>7. CASE NoCapacity(r)
  BY <1>7, MovesOn DEF NoCapacity, RetriesLeft, Active, Holding
<1>8. CASE BackoffOver(r)
  BY <1>8, MovesOn DEF BackoffOver, Active, Holding
<1>9. CASE Unauthorized(r)
  <2>1. /\ pc[r] = "send" /\ UNCHANGED <<entry, exclude>>
        /\ SecondRefusal(r) => pc'[r] = "respond" /\ outcome'[r] = "unauthorized"
        /\ ~SecondRefusal(r) => pc'[r] = "switch" /\ outcome'[r] = outcome[r]
    BY <1>9 DEF Unauthorized
  <2>2. EntryInv(r)'
    BY <2>1, AccountsStay DEF RequestInv, EntryInv, Active, Holding
  <2>3. outcome[r] # "unauthorized"
    BY <2>1 DEF RequestInv, RefusalInv
  <2>4. RefusalInv(r)'
    BY <1>9, <2>1, <2>3, RefusalAdds DEF RefusalInv
  <2>5. QED
    BY <2>1, <2>2, <2>4 DEF RequestInv, RetryInv
<1>10. CASE Succeed(r)
  BY <1>10, MovesOn DEF Succeed, Active, Holding
<1>11. CASE BodyEnds(r)
  BY <1>11, MovesOn DEF BodyEnds, Active, Holding
<1>12. CASE PassThrough(r)
  BY <1>12, MovesOn DEF PassThrough, Active, Holding
<1>13. CASE Switch(r)
  BY <1>13 DEF Switch, ExcludeEntry, RequestInv, EntryInv, RefusalInv, RetryInv, Active, Holding
<1>14. CASE Respond(r)
  BY <1>14 DEF Respond, RequestInv, EntryInv, RefusalInv, RetryInv, Active, Holding
<1>15. QED
  BY <1>1, <1>2, <1>3, <1>4, <1>5, <1>6, <1>7, <1>8, <1>9, <1>10, <1>11, <1>12, <1>13, <1>14
     DEF Handle

\* A handler moves its own request only.
LEMMA OthersStay ==
  ASSUME LoopInv, NEW r \in Requests, Handle(r), NEW q \in Requests \ {r}
  PROVE  /\ pc'[q] = pc[q] /\ entry'[q] = entry[q] /\ exclude'[q] = exclude[q]
         /\ attempt'[q] = attempt[q] /\ refused'[q] = refused[q] /\ outcome'[q] = outcome[q]
<1> USE DEF LoopInv, RequestsTyped
<1>1. CASE PickEntry(r)
  BY <1>1 DEF PickEntry
<1>2. CASE AcquireSlot(r)
  BY <1>2 DEF AcquireSlot
<1>3. CASE Sign(r) \/ SealFails(r) \/ MintOK(r) \/ MintFails(r) \/ SendFails(r) \/ ClientGone(r)
  BY <1>3 DEF Sign, SealFails, MintOK, MintFails, SendFails, ClientGone
<1>4. CASE NoCapacity(r) \/ BackoffOver(r) \/ BodyEnds(r) \/ Respond(r)
  BY <1>4 DEF NoCapacity, BackoffOver, BodyEnds, Respond
<1>5. CASE Unauthorized(r)
  BY <1>5 DEF Unauthorized
<1>6. CASE Succeed(r) \/ PassThrough(r)
  BY <1>6 DEF Succeed, PassThrough
<1>7. CASE Switch(r)
  BY <1>7 DEF Switch
<1>8. QED
  BY <1>1, <1>2, <1>3, <1>4, <1>5, <1>6, <1>7 DEF Handle

LEMMA LoopInvStep ==
  ASSUME LoopInv, [ForwardNext]_vars
  PROVE  LoopInv'
<1>1. RequestsTyped' /\ [Next]_poolVars
  BY TypesStay, StepOfPool
<1>2. ASSUME NEW r \in Requests, Handle(r), NEW q \in Requests \ {r}
      PROVE  RequestInv(q)'
  BY <1>1, <1>2, OthersStay, Unmoved
<1>3. ASSUME NEW r \in Requests, NEW key \in Affinities, Arrive(r, key)
      PROVE  \A q \in Requests : RequestInv(q)'
  <2>1. RequestInv(r)'
    BY <1>3 DEF Arrive, LoopInv, RequestsTyped, RequestInv, EntryInv, RefusalInv, RetryInv, Active, Holding
  <2>2. ASSUME NEW q \in Requests \ {r}
        PROVE  RequestInv(q)'
    BY <1>1, <1>3, Unmoved DEF Arrive, LoopInv, RequestsTyped
  <2>3. QED
    BY <2>1, <2>2
<1>4. ASSUME NEW r \in Requests, Return(r)
      PROVE  \A q \in Requests : RequestInv(q)'
  <2>1. RequestInv(r)'
    BY <1>4, FS_EmptySet
       DEF Return, LoopInv, RequestsTyped, RequestInv, EntryInv, RefusalInv, RetryInv, Active, Holding
  <2>2. ASSUME NEW q \in Requests \ {r}
        PROVE  RequestInv(q)'
    BY <1>1, <1>4, Unmoved DEF Return, LoopInv, RequestsTyped
  <2>3. QED
    BY <2>1, <2>2
<1>5. ASSUME NEW r \in Requests, Disconnect(r)
      PROVE  \A q \in Requests : RequestInv(q)'
  BY <1>1, <1>5, Unmoved DEF Disconnect
<1>6. ASSUME UNCHANGED requestVars
      PROVE  \A q \in Requests : RequestInv(q)'
  BY <1>1, <1>6, Unmoved DEF requestVars
<1>7. ASSUME NEW r \in Requests, Handle(r)
      PROVE  \A q \in Requests : RequestInv(q)'
  BY <1>1, <1>2, <1>7, RequestMoves
<1>8. \A q \in Requests : RequestInv(q)'
  BY <1>3, <1>4, <1>5, <1>6, <1>7 DEF ForwardNext, PoolStep, TicketExpires, vars
<1>9. QED
  BY <1>1, <1>8 DEF LoopInv

LEMMA LoopInvInit == ForwardInit => LoopInv
BY FS_EmptySet, RequestAssumption
   DEF ForwardInit, LoopInv, RequestsTyped, RequestInv, EntryInv, RefusalInv, RetryInv, Active,
   Holding, Outcomes

-----------------------------------------------------------------------------
(* The slots.                                                               *)

SlotsTyped == inflight \in [Accounts -> 0 .. AccountMax]

SlotInv == SlotsTyped /\ SlotsConserved

LEMMA HoldersFinite ==
  ASSUME NEW a
  PROVE  IsFiniteSet(Holders(a)) /\ Cardinality(Holders(a)) \in Nat
<1>1. Holders(a) \in SUBSET Requests
  BY DEF Holders
<1>2. QED
  BY <1>1, RequestAssumption, FS_Subset, FS_CardinalityType

\* A step that leaves the counters alone and every request with what it holds.
LEMMA SlotsKept ==
  ASSUME SlotInv, UNCHANGED inflight,
         \A q \in Requests : (pc'[q] \in Holding <=> pc[q] \in Holding)
                            /\ (pc[q] \in Holding => entry'[q] = entry[q])
  PROVE  SlotInv'
<1>1. ASSUME NEW a
      PROVE  Holders(a)' = Holders(a)
  BY DEF Holders
<1>2. QED
  BY <1>1 DEF SlotInv, SlotsTyped, SlotsConserved

LEMMA SlotTaken ==
  ASSUME LoopInv, SlotInv, NEW r \in Requests, AcquireSlot(r)
  PROVE  SlotInv'
<1> USE DEF LoopInv, RequestsTyped, AcquireSlot
<1>1. entry[r] \in Accounts
  BY DEF RequestInv, EntryInv, Active
<1>2. CASE SlotFree(entry[r])
  <2>1. inflight' = [inflight EXCEPT ![entry[r]] = @ + 1]
    BY <1>2
  <2>2. \A a \in Accounts :
          Holders(a)' = IF a = entry[r] THEN Holders(a) \cup {r} ELSE Holders(a)
    BY <1>2 DEF Holders, Holding
  <2>3. r \notin Holders(entry[r])
    BY DEF Holders, Holding
  <2>4. Cardinality(Holders(entry[r])') = Cardinality(Holders(entry[r])) + 1
    <3>1. Holders(entry[r])' = Holders(entry[r]) \cup {r}
      BY <1>1, <1>2 DEF Holders, Holding
    <3>2. QED
      BY <2>3, <3>1, HoldersFinite, FS_AddElement
  <2>5. inflight[entry[r]] + 1 <= AccountMax
    BY <1>1, <1>2, RequestAssumption DEF SlotFree, SlotInv, SlotsTyped
  <2>6. QED
    BY <1>1, <2>1, <2>2, <2>4, <2>5, RequestAssumption DEF SlotInv, SlotsTyped, SlotsConserved
<1>3. CASE ~SlotFree(entry[r])
  BY <1>3, SlotsKept DEF Holding
<1>4. QED
  BY <1>2, <1>3

LEMMA SlotGivenBack ==
  ASSUME LoopInv, SlotInv, NEW r \in Requests, Switch(r) \/ Respond(r)
  PROVE  SlotInv'
<1> USE DEF LoopInv, RequestsTyped
<1>1. PICK a \in Accounts : a = entry[r]
  BY DEF Switch, Respond, RequestInv, EntryInv, Active, Holding
<1>2. r \in Holders(a)
  BY <1>1 DEF Switch, Respond, Holders, Holding
<1>3. /\ inflight' = [inflight EXCEPT ![a] = @ - 1]
      /\ pc'[r] \notin Holding
      /\ \A q \in Requests \ {r} : pc'[q] = pc[q] /\ entry'[q] = entry[q]
  BY <1>1 DEF Switch, Respond, Holding
<1>4. Holders(a)' = Holders(a) \ {r}
  BY <1>3 DEF Holders
<1>5. \A b \in Accounts \ {a} : Holders(b)' = Holders(b)
  BY <1>1, <1>3 DEF Holders
<1>6. Cardinality(Holders(a)') = Cardinality(Holders(a)) - 1
  BY <1>2, <1>4, HoldersFinite, FS_RemoveElement
<1>7. Cardinality(Holders(a)) > 0
  BY <1>2, HoldersFinite, FS_EmptySet
<1>8. QED
  BY <1>3, <1>5, <1>6, <1>7, RequestAssumption DEF SlotInv, SlotsTyped, SlotsConserved

LEMMA SlotInvStep ==
  ASSUME LoopInv, SlotInv, [ForwardNext]_vars
  PROVE  SlotInv'
<1> USE DEF LoopInv, RequestsTyped
<1>1. ASSUME NEW r \in Requests, Handle(r)
      PROVE  SlotInv'
  <2>1. CASE AcquireSlot(r)
    BY <2>1, SlotTaken
  <2>2. CASE Switch(r) \/ Respond(r)
    BY <2>2, SlotGivenBack
  <2>3. CASE PickEntry(r)
    BY <2>3, SlotsKept DEF PickEntry, Holding
  <2>4. CASE Sign(r) \/ SealFails(r) \/ MintOK(r) \/ MintFails(r) \/ SendFails(r) \/ ClientGone(r)
    <3>1. /\ pc[r] \in Holding /\ pc'[r] \in Holding
          /\ \A q \in Requests \ {r} : pc'[q] = pc[q]
          /\ UNCHANGED <<inflight, entry>>
      BY <2>4 DEF Sign, SealFails, MintOK, MintFails, SendFails, ClientGone, Holding
    <3>2. QED
      BY <3>1, SlotsKept
  <2>5. CASE NoCapacity(r) \/ BackoffOver(r) \/ BodyEnds(r)
    <3>1. /\ pc[r] \in Holding /\ pc'[r] \in Holding
          /\ \A q \in Requests \ {r} : pc'[q] = pc[q]
          /\ UNCHANGED <<inflight, entry>>
      BY <2>5 DEF NoCapacity, BackoffOver, BodyEnds, Holding
    <3>2. QED
      BY <3>1, SlotsKept
  <2>6. CASE Unauthorized(r) \/ Succeed(r) \/ PassThrough(r)
    <3>1. /\ pc[r] \in Holding /\ pc'[r] \in Holding
          /\ \A q \in Requests \ {r} : pc'[q] = pc[q]
          /\ UNCHANGED <<inflight, entry>>
      BY <2>6 DEF Unauthorized, Succeed, PassThrough, Holding
    <3>2. QED
      BY <3>1, SlotsKept
  <2>7. QED
    BY <1>1, <2>1, <2>2, <2>3, <2>4, <2>5, <2>6 DEF Handle
<1>2. ASSUME NEW r \in Requests,
             (\E key \in Affinities : Arrive(r, key)) \/ Disconnect(r) \/ Return(r)
      PROVE  SlotInv'
  <2>1. /\ pc[r] \in Holding <=> pc'[r] \in Holding
        /\ pc[r] \in Holding => entry'[r] = entry[r]
        /\ \A q \in Requests \ {r} : pc'[q] = pc[q] /\ entry'[q] = entry[q]
        /\ UNCHANGED inflight
    BY <1>2 DEF Arrive, Disconnect, Return, Holding
  <2>2. QED
    BY <2>1, SlotsKept
<1>3. ASSUME UNCHANGED <<inflight, requestVars>>
      PROVE  SlotInv'
  BY <1>3, SlotsKept DEF requestVars
<1>4. QED
  BY <1>1, <1>2, <1>3 DEF ForwardNext, PoolStep, TicketExpires, vars

LEMMA SlotInvInit == ForwardInit => SlotInv
<1> SUFFICES ASSUME ForwardInit PROVE SlotInv
  OBVIOUS
<1>1. \A a : Holders(a) = {}
  BY DEF ForwardInit, Holders, Holding
<1>2. \A a : Cardinality(Holders(a)) = 0
  BY <1>1, FS_EmptySet
<1>3. \A a \in Accounts : inflight[a] = 0
  BY DEF ForwardInit
<1>4. QED
  BY <1>2, <1>3, RequestAssumption DEF ForwardInit, SlotInv, SlotsTyped, SlotsConserved

-----------------------------------------------------------------------------
(* How far a request is from its answer.                                    *)

LEMMA StageDown ==
  ASSUME NEW r \in Requests, exclude'[r] = exclude[r], attempt'[r] = attempt[r],
         Stage(r)' < Stage(r)
  PROVE  Nearer(r)
BY DEF Nearer, Untried, Retries

\* An account ruled out leaves one less to try.
LEMMA OneLess ==
  ASSUME NEW r \in Requests, exclude[r] \in SUBSET Accounts,
         NEW a \in Accounts \ exclude[r], exclude'[r] = exclude[r] \cup {a}
  PROVE  Nearer(r)
<1>1. Accounts \ exclude'[r] = (Accounts \ exclude[r]) \ {a}
  OBVIOUS
<1>2. IsFiniteSet(Accounts \ exclude[r])
  BY RequestAssumption, FS_Difference
<1>3. Cardinality(Accounts \ exclude'[r]) = Cardinality(Accounts \ exclude[r]) - 1
  <2> DEFINE left == Accounts \ exclude[r]
  <2>1. IsFiniteSet(left) /\ a \in left
    BY <1>2
  <2> HIDE DEF left
  <2>2. Cardinality(left \ {a}) = Cardinality(left) - 1
    BY <2>1, FS_RemoveElement
  <2>3. QED
    BY <1>1, <2>2 DEF left
<1>4. Cardinality(Accounts \ exclude[r]) \in Nat
  BY <1>2, FS_CardinalityType
<1>5. QED
  BY <1>3, <1>4 DEF Nearer, Untried

LEMMA HandleNears ==
  ASSUME LoopInv, NEW r \in Requests, Handle(r)
  PROVE  Nearer(r)
<1> USE DEF LoopInv, RequestsTyped, Stage
<1>1. CASE PickEntry(r)
  <2>1. /\ pc[r] = "pick" /\ pc'[r] \in {"acquire", "done"}
        /\ exclude'[r] = exclude[r] /\ attempt'[r] = attempt[r]
    BY <1>1 DEF PickEntry
  <2>2. QED
    BY <2>1, StageDown
<1>2. CASE AcquireSlot(r)
  <2>1. CASE SlotFree(entry[r])
    BY <1>2, <2>1, StageDown DEF AcquireSlot
  <2>2. CASE ~SlotFree(entry[r])
    <3>1. entry[r] \in Accounts \ exclude[r] /\ exclude[r] \in SUBSET Accounts
      BY <1>2 DEF AcquireSlot, RequestInv, EntryInv, Active
    <3>2. exclude'[r] = exclude[r] \cup {entry[r]}
      BY <1>2, <2>2 DEF AcquireSlot
    <3>3. QED
      BY <3>1, <3>2, OneLess
  <2>3. QED
    BY <2>1, <2>2
<1>3. CASE Sign(r) \/ MintOK(r) \/ ClientGone(r) \/ NoCapacity(r)
  <2>1. /\ \/ pc[r] = "sign" /\ pc'[r] \in {"mint", "send"}
           \/ pc[r] = "mint" /\ pc'[r] = "send"
           \/ pc[r] \in {"send", "backoff"} /\ pc'[r] = "respond"
           \/ pc[r] = "send" /\ pc'[r] = "backoff"
        /\ exclude'[r] = exclude[r] /\ attempt'[r] = attempt[r]
    BY <1>3 DEF Sign, MintOK, ClientGone, NoCapacity
  <2>2. QED
    BY <2>1, StageDown
<1>4. CASE SealFails(r) \/ MintFails(r) \/ SendFails(r)
  <2>1. /\ pc[r] \in {"sign", "mint", "send"} /\ pc'[r] = "switch"
        /\ exclude'[r] = exclude[r] /\ attempt'[r] = attempt[r]
    BY <1>4 DEF SealFails, MintFails, SendFails
  <2>2. QED
    BY <2>1, StageDown
<1>5. CASE BackoffOver(r)
  <2>1. exclude'[r] = exclude[r] /\ attempt'[r] = attempt[r] + 1
    BY <1>5 DEF BackoffOver, NextAttempt
  <2>2. attempt[r] \in Int /\ CapacityRetries \in Int
    BY RequestAssumption
  <2>3. Untried(r)' = Untried(r)
    BY <2>1 DEF Untried
  <2>4. Retries(r)' < Retries(r)
    BY <2>1, <2>2 DEF Retries
  <2>5. QED
    BY <2>3, <2>4 DEF Nearer
<1>6. CASE Unauthorized(r) \/ Succeed(r) \/ PassThrough(r)
  <2>1. /\ pc[r] = "send" /\ pc'[r] \in {"switch", "respond", "body"}
        /\ exclude'[r] = exclude[r] /\ attempt'[r] = attempt[r]
    BY <1>6 DEF Unauthorized, Succeed, PassThrough
  <2>2. QED
    BY <2>1, StageDown
<1>7. CASE BodyEnds(r) \/ Respond(r)
  <2>1. /\ \/ pc[r] = "body" /\ pc'[r] = "respond"
           \/ pc[r] = "respond" /\ pc'[r] = "done"
        /\ exclude'[r] = exclude[r] /\ attempt'[r] = attempt[r]
    BY <1>7 DEF BodyEnds, Respond
  <2>2. QED
    BY <2>1, StageDown
<1>8. CASE Switch(r)
  <2>1. entry[r] \in Accounts \ exclude[r] /\ exclude[r] \in SUBSET Accounts
    BY <1>8 DEF Switch, RequestInv, EntryInv, Active, Holding
  <2>2. exclude'[r] = exclude[r] \cup {entry[r]}
    BY <1>8 DEF Switch, ExcludeEntry
  <2>3. QED
    BY <2>1, <2>2, OneLess
<1>9. QED
  BY <1>1, <1>2, <1>3, <1>4, <1>5, <1>6, <1>7, <1>8 DEF Handle

LEMMA NearsStep ==
  ASSUME LoopInv, [ForwardNext]_vars, NEW r \in Requests, pc[r] \notin {"idle", "done"}
  PROVE  Nearer(r) \/ UNCHANGED <<pc[r], entry[r], exclude[r], attempt[r]>>
<1>1. CASE Handle(r)
  BY <1>1, HandleNears
<1>2. ASSUME NEW q \in Requests \ {r}, Handle(q)
      PROVE  UNCHANGED <<pc[r], entry[r], exclude[r], attempt[r]>>
  BY <1>2, OthersStay
<1>3. ASSUME NEW q \in Requests,
             (\E key \in Affinities : Arrive(q, key)) \/ Disconnect(q) \/ Return(q)
      PROVE  UNCHANGED <<pc[r], entry[r], exclude[r], attempt[r]>>
  BY <1>3 DEF Arrive, Disconnect, Return, LoopInv, RequestsTyped
<1>4. CASE UNCHANGED requestVars
  BY <1>4 DEF requestVars
<1>5. QED
  BY <1>1, <1>2, <1>3, <1>4 DEF ForwardNext, PoolStep, TicketExpires, vars

-----------------------------------------------------------------------------
(* What moves a session.                                                    *)

Settled(k) == k \in CachedKeys /\ ~Expired(k) /\ Usable(sticky[k].account)

Moves(k) == sticky'[k].account # sticky[k].account

\* At most one session makes room for a new one, the first of the list.
LEMMA EvictsFirst ==
  ASSUME SessionsOK, NEW k \in Evicted
  PROVE  k = lru[1]
<1>1. Cardinality(CachedKeys) = Len(lru) /\ Len(lru) \in Nat /\ Len(lru) <= StickyMax
  BY CacheSize DEF SessionsOK, SessionsTyped, StickyAgrees
<1>2. Evictions \in 0 .. 1
  BY <1>1, StickyAssumption DEF Evictions
<1>3. PICK i \in 1 .. Evictions : k = lru[i]
  BY DEF Evicted
<1>4. i = 1
  BY <1>2, <1>3
<1> QED
  BY <1>3, <1>4

\* A draw replaces the account of a settled session only when the caller has
\* ruled that account out; for any other session it can only be the eviction.
LEMMA DrawMoves ==
  ASSUME SessionsOK, NEW ruled \in SUBSET Accounts, NEW key \in Keys \cup {None},
         NEW a \in Accounts, PickDrawn(ruled, key, a),
         NEW k \in Keys, Settled(k), Moves(k)
  PROVE  \/ sticky'[k] = NoSticky /\ k = lru[1]
         \/ key = k /\ sticky[k].account \in ruled
<1>1. /\ SetSticky(key, a) /\ sticky \in StickyMap
      /\ key = None \/ \A b \in Accounts : ~StickyHit(ruled, key, b)
  BY DEF PickDrawn, SessionsOK, SessionsTyped
<1>2. key # None
  BY <1>1 DEF SetSticky, sessionVars, Moves
<1>3. CASE key \in CachedKeys
  <2>1. key = k
    BY <1>1, <1>2, <1>3 DEF SetSticky, Touch, Moves, StickyMap
  <2>2. sticky[k].account \in Accounts
    BY <1>1 DEF Settled, CachedKeys, StickyMap, StickyEntry
  <2>3. ~StickyHit(ruled, k, sticky[k].account)
    BY <1>1, <1>2, <2>1, <2>2
  <2> QED
    BY <2>1, <2>3 DEF StickyHit, Settled
<1>4. CASE key \notin CachedKeys
  <2>1. Insert(key, a) /\ k # key
    BY <1>1, <1>2, <1>4 DEF SetSticky, Settled
  <2>2. k \in Evicted /\ sticky'[k] = NoSticky
    BY <2>1 DEF Insert, Moves
  <2> QED
    BY <2>2, EvictsFirst
<1> QED
  BY <1>3, <1>4

\* Nothing else does.
LEMMA OnlyDrawsMove ==
  ASSUME SessionsOK, LoopInv, [ForwardNext]_vars, NEW k \in Keys, Settled(k), Moves(k)
  PROVE  \E r \in Requests, a \in Accounts :
           pc[r] = "pick" /\ PickDrawn(exclude[r], affinity[r], a)
<1>1. sticky \in StickyMap
  BY DEF SessionsOK, SessionsTyped
<1>2. ASSUME NEW r \in Requests, PickEntry(r)
      PROVE  \E a \in Accounts : pc[r] = "pick" /\ PickDrawn(exclude[r], affinity[r], a)
  <2>1. pc[r] = "pick"
    BY <1>2 DEF PickEntry
  <2>2. ASSUME NEW a \in Accounts, PickSticky(exclude[r], affinity[r], a)
        PROVE  FALSE
    <3>1. Touch(affinity[r], a) /\ a = sticky[affinity[r]].account
      BY <2>2 DEF PickSticky, StickyHit
    <3>2. k = affinity[r]
      BY <1>1, <3>1 DEF Touch, Moves, StickyMap
    <3> QED
      BY <1>1, <3>1, <3>2 DEF Touch, Moves, StickyMap
  <2>3. ASSUME PickNothing(exclude[r], affinity[r])
        PROVE  FALSE
    <3>1. affinity[r] # None /\ Expired(affinity[r]) /\ k # affinity[r]
      BY <2>3 DEF PickNothing, DropExpired, sessionVars, Moves, Settled
    <3> QED
      BY <1>1, <2>3, <3>1 DEF PickNothing, DropExpired, Moves, StickyMap
  <2> QED
    BY <1>2, <2>1, <2>2, <2>3 DEF PickEntry, Pick
<1>3. ASSUME PoolStep
      PROVE  FALSE
  <2>1. CASE Tick
    <3>1. sticky'[k] = [sticky[k] EXCEPT !.left = Elapse(@, -1)]
      BY <2>1 DEF Tick
    <3>2. sticky[k] \in StickyEntry
      BY <1>1 DEF Settled, CachedKeys, StickyMap
    <3> QED
      BY <3>1, <3>2 DEF Moves, StickyEntry
  <2>2. CASE UNCHANGED sticky
    BY <2>2 DEF Moves
  <2> QED
    BY <1>3, <2>1, <2>2 DEF PoolStep, Environment, Reload, ApplyQuota
<1>4. ASSUME NEW r \in Requests, Handle(r), ~PickEntry(r)
      PROVE  UNCHANGED sticky
  BY <1>4
  DEF Handle, AcquireSlot, Sign, SealFails, MintOK, MintFails, SendFails, ClientGone, NoCapacity, BackoffOver,
      Unauthorized, Succeed, BodyEnds, PassThrough, BlameForStatus, Switch, Respond,
      ReportSuccess, ReportFailure, poolVars
<1>5. ASSUME NEW a \in Accounts, TicketExpires(a)
      PROVE  UNCHANGED sticky
  BY <1>5 DEF TicketExpires, poolVars
<1>6. ASSUME NEW r \in Requests,
             (\E key \in Affinities : Arrive(r, key)) \/ Disconnect(r) \/ Return(r)
      PROVE  UNCHANGED sticky
  BY <1>6 DEF Arrive, Disconnect, Return, poolVars
<1>7. ~UNCHANGED sticky
  BY DEF Moves
<1>8. ForwardNext
  BY <1>7 DEF vars, poolVars
<1>9. PICK r \in Requests : Handle(r)
  BY <1>3, <1>5, <1>6, <1>7, <1>8 DEF ForwardNext
<1>10. PickEntry(r)
  BY <1>4, <1>7, <1>9
<1> QED
  BY <1>2, <1>10

LEMMA MovesForCause ==
  ASSUME SessionsOK, LoopInv, [ForwardNext]_vars, NEW k \in Keys, Settled(k), Moves(k)
  PROVE  \/ sticky'[k] = NoSticky /\ k = lru[1]
         \/ \E r \in Requests : /\ pc[r] = "pick"
                                /\ affinity[r] = k
                                /\ sticky[k].account \in exclude[r]
<1>1. PICK r \in Requests, a \in Accounts :
        pc[r] = "pick" /\ PickDrawn(exclude[r], affinity[r], a)
  BY OnlyDrawsMove
<1>2. exclude[r] \in SUBSET Accounts /\ affinity[r] \in Keys \cup {None}
  BY DEF LoopInv, RequestsTyped
<1>3. \/ sticky'[k] = NoSticky /\ k = lru[1]
      \/ affinity[r] = k /\ sticky[k].account \in exclude[r]
  BY <1>1, <1>2, DrawMoves
<1> QED
  BY <1>1, <1>3

-----------------------------------------------------------------------------
(* The theorems.                                                            *)

LEMMA ForwardInvariant == ForwardSpec => [](LoopInv /\ SlotInv)
<1>1. LoopInv /\ SlotInv /\ [ForwardNext]_vars => (LoopInv /\ SlotInv)'
  BY LoopInvStep, SlotInvStep
<1>2. QED
  BY <1>1, LoopInvInit, SlotInvInit, PTL DEF ForwardSpec

\* The handlers are callers of the pool: what is proved of Pool under any caller
\* holds under the loop of forward.go.
LEMMA ForwardUsesPool == ForwardSpec => Spec
<1>1. ForwardInit => Init
  BY DEF ForwardInit
<1>2. LoopInv /\ [ForwardNext]_vars => [Next]_poolVars
  BY StepOfPool
<1>3. QED
  BY <1>1, <1>2, ForwardInvariant, PTL DEF ForwardSpec, Spec

\* Handlers and pool keep their types.
THEOREM ForwardTypeCorrect == ForwardSpec => []ForwardTypeOK
<1>1. TypeOK /\ LoopInv /\ SlotInv => ForwardTypeOK
  BY DEF LoopInv, RequestsTyped, SlotInv, SlotsTyped, ForwardTypeOK
<1>2. ForwardSpec => []TypeOK
  BY ForwardUsesPool, PoolTypeCorrect, PTL
<1>3. QED
  BY <1>1, <1>2, ForwardInvariant, PTL

\* The slot counter of an account (pool.go: TryAcquire, Release) is the number
\* of attempts under way on it, and never passes the limit, for any number of
\* concurrent requests.
THEOREM ForwardConservesSlots == ForwardSpec => []SlotsConserved
<1>1. SlotInv => SlotsConserved
  BY DEF SlotInv
<1>2. QED
  BY <1>1, ForwardInvariant, PTL

\* A request never comes back to an account it has left (forward.go: exclude).
THEOREM ForwardNeverReturns == ForwardSpec => []NoSecondTry
<1>1. LoopInv => NoSecondTry
  BY DEF LoopInv, RequestInv, EntryInv, Active, NoSecondTry
<1>2. QED
  BY <1>1, ForwardInvariant, PTL

\* A client sees a 401 exactly when two different accounts gave one
\* (forward.go: retried401).
THEOREM ForwardRefusedTwice == ForwardSpec => []RefusedTwice
<1>1. LoopInv => RefusedTwice
  BY DEF LoopInv, RequestInv, RefusalInv, RefusedTwice
<1>2. QED
  BY <1>1, ForwardInvariant, PTL

\* Each step a handler takes brings its request nearer to an answer, whatever
\* the pool and the other requests do: the loop of forward.go cannot go round
\* for ever.
THEOREM ForwardNears == ForwardSpec => AnswerNears
<1>1. LoopInv /\ [ForwardNext]_vars =>
        [\A r \in Requests :
           pc[r] \notin {"idle", "done"} =>
             \/ UNCHANGED <<pc[r], entry[r], exclude[r], attempt[r]>>
             \/ Nearer(r)]_vars
  BY NearsStep
<1>2. QED
  BY <1>1, ForwardInvariant, PTL DEF ForwardSpec, AnswerNears

\* The account of a session that is alive and usable is replaced only by a
\* request of that session that has ruled the account out, or by the eviction
\* of the least recently used one (pool.go: Pick, setSticky), for any number of
\* requests, sessions and accounts.
THEOREM ForwardMovesForCause == ForwardSpec => SessionMovesForCause
<1>1. SessionsOK /\ LoopInv /\ [ForwardNext]_vars =>
        [\A k \in Keys :
           (/\ k \in CachedKeys
            /\ ~Expired(k)
            /\ Usable(sticky[k].account)
            /\ sticky'[k].account # sticky[k].account)
           => \/ sticky'[k] = NoSticky /\ k = lru[1]
              \/ \E r \in Requests : /\ pc[r] = "pick"
                                     /\ affinity[r] = k
                                     /\ sticky[k].account \in exclude[r]]_vars
  BY MovesForCause DEF Settled, Moves
<1>2. ForwardSpec => []PoolInv
  BY ForwardUsesPool, PoolInvInit, PoolInvStep, PTL DEF Spec
<1>3. PoolInv => SessionsOK
  BY DEF PoolInv
<1>4. QED
  BY <1>1, <1>2, <1>3, ForwardInvariant, PTL DEF ForwardSpec, SessionMovesForCause
=============================================================================
