--------------------------- MODULE LruCacheProofs ---------------------------
(***************************************************************************)
(* Proofs about LruCache, for every finite set of names, every capacity,   *)
(* every set of sizes and times to live, and any number of calls.          *)
(*                                                                         *)
(* ExpiresOnTime and LivesItsTtl are about what a timeout finds when it    *)
(* fires.  The invariant below says which timeouts there are: one for each *)
(* key in this.timers, due at the deadline that was last set for the key,  *)
(* which is the one it was promised (Timeouts); what is in the map has one *)
(* and no deadline has passed (Awaited).                                   *)
(***************************************************************************)
EXTENDS LruCache, CacheProofs

\* What set, delete, expiry and eviction keep of the map
Contents ==
  /\ Sound(cache)
  /\ Used(cache) <= MaxMemory
  /\ RecencyOrder
  /\ \A k \in Key : usedAt[k] <= calls

Timeouts ==
  /\ timeouts = {<<k, deadline[k]>> : k \in cache.timers}
  /\ deadline = promised

Awaited ==
  /\ Cached(cache) \subseteq cache.timers
  /\ \A k \in cache.timers : now <= deadline[k]

IInv == TypeOK /\ Contents /\ Timeouts /\ Awaited

-----------------------------------------------------------------------------
(* The order of last use                                                   *)

Ordered(s, used) == \A i, j \in 1..Len(s) : i < j => used[s[i]] < used[s[j]]

(* Taking keys out of the list keeps its order.                            *)
LEMMA OrderKept ==
  ASSUME NEW r, NEW s, NEW used, Ordered(s, used), Keeps(r, s)
  PROVE  Ordered(r, used)
  BY DEF Ordered, Keeps

(* So does moving the key that is used now to the end.                     *)
LEMMA OrderAtUse ==
  ASSUME NEW s, NEW used \in [Key -> Nat], Ordered(s, used),
         NEW r \in Seq(Key), Keeps(r, s), NEW k \in Key, k \notin Range(r),
         NEW n \in Nat, \A x \in Key : used[x] < n
  PROVE  Ordered(Append(r, k), [used EXCEPT ![k] = n])
<1> DEFINE q == Append(r, k)
           v == [used EXCEPT ![k] = n]
<1>1. /\ Len(q) = Len(r) + 1 /\ q[Len(r) + 1] = k
      /\ \A i \in 1..Len(r) : q[i] = r[i]
  BY AppendProperties
<1>2. Len(r) \in Nat /\ \A i \in 1..Len(r) : r[i] \in Key /\ r[i] # k
  BY Members
<1>3. Ordered(r, used)
  BY OrderKept
<1> HIDE DEF q
<1> SUFFICES ASSUME NEW i \in 1..Len(q), NEW j \in 1..Len(q), i < j
             PROVE  v[q[i]] < v[q[j]]
  BY DEF Ordered, q
<1>4. i \in 1..Len(r) /\ (j \in 1..Len(r) \/ j = Len(r) + 1)
  BY <1>1, <1>2
<1>5. v[q[i]] = used[r[i]] /\ used[r[i]] < n
  BY <1>1, <1>2, <1>4
<1>6. CASE j \in 1..Len(r)
  BY <1>1, <1>2, <1>3, <1>4, <1>5, <1>6 DEF Ordered
<1>7. CASE j = Len(r) + 1
  BY <1>1, <1>5, <1>7
<1> QED BY <1>4, <1>6, <1>7

-----------------------------------------------------------------------------
(* Times to live                                                           *)

(* The smaller and the larger of two numbers                               *)
LEMMA MinMax ==
  ASSUME NEW a \in Int, NEW b \in Int
  PROVE  /\ Min({a, b}) = IF a <= b THEN a ELSE b
         /\ Max({a, b}) = IF a <= b THEN b ELSE a
<1>1. Min({a, b}) \in {a, b} /\ Min({a, b}) <= a /\ Min({a, b}) <= b
  <2>1. \E x \in {a, b} : \A y \in {a, b} : x <= y
    OBVIOUS
  <2> QED BY <2>1 DEF Min
<1>2. Max({a, b}) \in {a, b} /\ Max({a, b}) >= a /\ Max({a, b}) >= b
  <2>1. \E x \in {a, b} : \A y \in {a, b} : x >= y
    OBVIOUS
  <2> QED BY <2>1 DEF Max
<1> QED BY <1>1, <1>2

(* The timeout runs exactly as long as the value may live: maxTtl is a     *)
(* delay that setTimeout can wait, so no ttl is cut to nothing.            *)
LEMMA DelayIsLifetime ==
  ASSUME NEW ttl \in Ttl
  PROVE  Delay(ttl) = Lifetime(ttl) /\ Delay(ttl) \in 0..MaxDelay
<1> DEFINE m == Min({ttl, MaxTtl})
<1>1. ttl \in Int /\ MaxTtl \in Nat /\ MaxDelay \in Nat /\ MaxTtl <= MaxDelay
  BY LruAssumption
<1>2. m = (IF ttl <= MaxTtl THEN ttl ELSE MaxTtl) /\ m \in Int
  BY <1>1, MinMax
<1> HIDE DEF m
<1>3. Max({0, m}) = IF 0 <= m THEN m ELSE 0
  BY <1>2, MinMax
<1>4. Lifetime(ttl) = Max({0, m}) /\ Delay(ttl) = IF m \in 1..MaxDelay THEN m ELSE 0
  BY DEF Lifetime, Delay, m
<1> QED BY <1>1, <1>2, <1>3, <1>4

(* clearTimeout takes away the timeout of the key, and no other.           *)
LEMMA ClearedIs ==
  ASSUME Timeouts, NEW k
  PROVE  Cleared(k) = {<<x, deadline[x]>> : x \in cache.timers \ {k}}
  BY DEF Timeouts, Cleared

-----------------------------------------------------------------------------
(* The invariant, action by action                                         *)

(* At the beginning the cache is empty and no timeout is armed.            *)
LEMMA InitInv == Init => IInv
<1> SUFFICES ASSUME Init PROVE IInv
  OBVIOUS
<1> USE DEF Init
<1>1. Sound(cache) /\ Cached(cache) = {} /\ Used(cache) = 0 /\ cache.timers = {}
      /\ Len(cache.lru) = 0
  BY EmptyIs DEF EmptyCache
<1>2. MaxTime \in Nat /\ MaxDelay \in Nat /\ MaxCalls \in Nat
  BY LruAssumption
<1>3. TypeOK
  BY <1>1, <1>2 DEF TypeOK, Time, Sound
<1>4. Contents
  BY <1>1, MaxMemoryAssumption DEF Contents, RecencyOrder
<1>5. Timeouts /\ Awaited
  BY <1>1 DEF Timeouts, Awaited
<1> QED BY <1>3, <1>4, <1>5 DEF IInv

(* set(): the old timeout of the key is replaced by one for the new        *)
(* promise, whatever becomes of the value.                                 *)
LEMMA SetStep ==
  ASSUME IInv, NEW k \in Key, NEW size \in Size, NEW ttl \in Ttl, Set(k, size, ttl)
  PROVE  IInv' /\ removed' = Cached(cache) \ Cached(cache')
<1> USE DEF IInv
<1>0. /\ size \in Nat /\ MaxTime \in Nat /\ MaxDelay \in Nat /\ MaxCalls \in Nat
      /\ calls \in 0..MaxCalls /\ now \in 0..MaxTime /\ Sound(cache)
  BY LruAssumption DEF TypeOK, Contents
<1>1. /\ calls' = calls + 1 /\ calls < MaxCalls /\ now' = now
      /\ deadline' = [deadline EXCEPT ![k] = now + Delay(ttl)]
      /\ promised' = [promised EXCEPT ![k] = now + Lifetime(ttl)]
      /\ timeouts' = Cleared(k) \cup {<<k, now + Delay(ttl)>>}
      /\ cache' = CacheSet(cache, k, size) /\ removed' = SetRemoves(cache, k, size)
      /\ usedAt' = IF SetThrows(size) \/ TooLarge(size) THEN usedAt
                   ELSE [usedAt EXCEPT ![k] = calls + 1]
  BY DEF Set, Called
<1>2. /\ Sound(cache') /\ cache'.timers = cache.timers \cup {k}
      /\ removed' = Cached(cache) \ Cached(cache')
      /\ Cached(cache') \subseteq Cached(cache) \cup {k} /\ Used(cache') <= MaxMemory
      /\ \/ /\ SetThrows(size) \/ TooLarge(size)
            /\ Keeps(cache'.lru, cache.lru)
         \/ /\ ~ SetThrows(size) /\ ~ TooLarge(size)
            /\ \E r \in Seq(Key) : /\ cache'.lru = Append(r, k)
                                   /\ Keeps(r, cache.lru) /\ k \notin Range(r)
  <2>1. /\ Sound(cache') /\ cache'.timers = cache.timers \cup {k}
        /\ removed' = Cached(cache) \ Cached(cache')
        /\ Cached(cache') \subseteq Cached(cache) \cup {k}
    BY <1>0, <1>1, SetIs
  <2>2. Used(cache') <= MaxMemory
    BY <1>0, <1>1, SetIs DEF Contents
  <2>3. \/ /\ SetThrows(size) \/ TooLarge(size)
           /\ Keeps(cache'.lru, cache.lru)
        \/ /\ ~ SetThrows(size) /\ ~ TooLarge(size)
           /\ \E r \in Seq(Key) : /\ cache'.lru = Append(r, k)
                                  /\ Keeps(r, cache.lru) /\ k \notin Range(r)
    BY <1>0, <1>1, SetIs
  <2> QED BY <2>1, <2>2, <2>3
<1>3. Delay(ttl) = Lifetime(ttl) /\ now + Delay(ttl) \in Time /\ now <= now + Delay(ttl)
  BY <1>0, DelayIsLifetime DEF Time
<1>4. Timeouts'
  <2>1. timeouts' = {<<x, deadline[x]>> : x \in cache.timers \ {k}}
                      \cup {<<k, now + Delay(ttl)>>}
    BY <1>1, ClearedIs
  <2>2. deadline'[k] = now + Delay(ttl) /\ \A x \in Key \ {k} : deadline'[x] = deadline[x]
    BY <1>1 DEF TypeOK
  <2>3. cache'.timers = (cache.timers \ {k}) \cup {k} /\ cache.timers \in SUBSET Key
    BY <1>0, <1>2, Fields DEF Sound
  <2>4. timeouts' = {<<x, deadline'[x]>> : x \in cache'.timers}
    BY <2>1, <2>2, <2>3
  <2> QED BY <1>1, <1>3, <2>4 DEF Timeouts
<1>5. Awaited'
  BY <1>0, <1>1, <1>2, <1>3 DEF Awaited, TypeOK
<1>6. usedAt' \in [Key -> 0..MaxCalls] /\ \A x \in Key : usedAt'[x] <= calls'
  BY <1>0, <1>1 DEF TypeOK, Contents
<1>7. RecencyOrder'
  <2>1. Ordered(cache.lru, usedAt)
    BY DEF Contents, RecencyOrder, Ordered
  <2>2. Ordered(cache'.lru, usedAt')
    <3>1. CASE SetThrows(size) \/ TooLarge(size)
      BY <1>1, <1>2, <2>1, <3>1, OrderKept
    <3>2. CASE ~ SetThrows(size) /\ ~ TooLarge(size)
      <4>1. PICK r \in Seq(Key) : /\ cache'.lru = Append(r, k)
                                  /\ Keeps(r, cache.lru) /\ k \notin Range(r)
        BY <1>2, <3>2
      <4>2. usedAt \in [Key -> Nat] /\ calls + 1 \in Nat /\ \A x \in Key : usedAt[x] < calls + 1
        BY <1>0 DEF TypeOK, Contents
      <4>3. Ordered(Append(r, k), [usedAt EXCEPT ![k] = calls + 1])
        BY <2>1, <4>1, <4>2, OrderAtUse
      <4> QED BY <1>1, <3>2, <4>1, <4>3
    <3> QED BY <3>1, <3>2
  <2> QED BY <2>2 DEF RecencyOrder, Ordered
<1>8. TypeOK'
  <2>1. timeouts' \subseteq Key \X Time
    BY <1>1, <1>3 DEF TypeOK, Cleared
  <2>2. removed' \subseteq Key
    BY <1>0, <1>2, Fields DEF Sound
  <2>3. deadline' \in [Key -> Time] /\ promised' \in [Key -> Time]
    BY <1>1, <1>3 DEF TypeOK
  <2>4. calls' \in 0..MaxCalls /\ now' \in 0..MaxTime /\ cache' \in CacheValue
    BY <1>0, <1>1, <1>2 DEF Sound
  <2> QED BY <1>6, <2>1, <2>2, <2>3, <2>4 DEF TypeOK
<1> QED BY <1>2, <1>4, <1>5, <1>6, <1>7, <1>8 DEF Contents

(* get(): the key that is used is the last one.                            *)
LEMMA GetStep ==
  ASSUME IInv, NEW k \in Key, Get(k)
  PROVE  IInv' /\ removed' = Cached(cache) \ Cached(cache')
<1> USE DEF IInv
<1>0. /\ MaxCalls \in Nat /\ calls \in 0..MaxCalls /\ Sound(cache)
  BY LruAssumption DEF TypeOK, Contents
<1>1. /\ calls' = calls + 1 /\ calls < MaxCalls /\ k \in Cached(cache)
      /\ cache' = CacheGet(cache, k) /\ removed' = {}
      /\ usedAt' = [usedAt EXCEPT ![k] = calls + 1]
      /\ UNCHANGED <<deadline, timeouts, now, promised>>
  BY DEF Get, Called
<1>2. /\ Sound(cache') /\ Cached(cache') = Cached(cache) /\ cache'.timers = cache.timers
      /\ Used(cache') = Used(cache)
      /\ \E r \in Seq(Key) : /\ cache'.lru = Append(r, k)
                             /\ Keeps(r, cache.lru) /\ k \notin Range(r)
  BY <1>0, <1>1, GetIs
<1>3. Timeouts' /\ Awaited'
  BY <1>1, <1>2 DEF Timeouts, Awaited
<1>4. usedAt' \in [Key -> 0..MaxCalls] /\ \A x \in Key : usedAt'[x] <= calls'
  BY <1>0, <1>1 DEF TypeOK, Contents
<1>5. RecencyOrder'
  <2>1. Ordered(cache.lru, usedAt)
    BY DEF Contents, RecencyOrder, Ordered
  <2>2. PICK r \in Seq(Key) : /\ cache'.lru = Append(r, k)
                              /\ Keeps(r, cache.lru) /\ k \notin Range(r)
    BY <1>2
  <2>3. usedAt \in [Key -> Nat] /\ calls + 1 \in Nat /\ \A x \in Key : usedAt[x] < calls + 1
    BY <1>0 DEF TypeOK, Contents
  <2>4. Ordered(Append(r, k), [usedAt EXCEPT ![k] = calls + 1])
    BY <2>1, <2>2, <2>3, OrderAtUse
  <2> QED BY <1>1, <2>2, <2>4 DEF RecencyOrder, Ordered
<1>6. TypeOK'
  BY <1>0, <1>1, <1>2, <1>4 DEF TypeOK, Sound
<1> QED BY <1>1, <1>2, <1>3, <1>4, <1>5, <1>6 DEF Contents

(* A key that is deleted, by a call or by its timer, takes its timeout     *)
(* with it.                                                                *)
LEMMA DeleteStep ==
  ASSUME IInv, NEW k \in Key, DeleteKey(k), timeouts' = Cleared(k), calls' \in 0..MaxCalls,
         calls <= calls'
  PROVE  IInv' /\ removed' = Cached(cache) \ Cached(cache')
<1> USE DEF IInv
<1>0. Sound(cache) /\ MaxCalls \in Nat /\ calls \in 0..MaxCalls
  BY LruAssumption DEF Contents, TypeOK
<1>1. /\ cache' = CacheDelete(cache, k) /\ removed' = Cached(cache) \cap {k}
      /\ UNCHANGED <<deadline, now, usedAt, promised>>
  BY DEF DeleteKey, DeleteRemoves
<1>2. /\ Sound(cache') /\ Cached(cache') = Cached(cache) \ {k}
      /\ cache'.timers = cache.timers \ {k}
      /\ Keeps(cache'.lru, cache.lru) /\ Used(cache') = Used(cache) - cache.size[k]
  BY <1>0, <1>1, DeleteIs
<1>3. Timeouts'
  BY <1>1, <1>2, ClearedIs DEF Timeouts
<1>4. Awaited'
  BY <1>1, <1>2 DEF Awaited
<1>5. Used(cache') <= MaxMemory
  <2>1. cache.size[k] \in Nat /\ Used(cache) \in Nat
    BY <1>0, Fields DEF Sound
  <2> QED BY <1>2, <2>1, MaxMemoryAssumption DEF Contents
<1>6. RecencyOrder'
  <2>1. Ordered(cache.lru, usedAt)
    BY DEF Contents, RecencyOrder, Ordered
  <2>2. Ordered(cache'.lru, usedAt)
    BY <1>2, <2>1, OrderKept
  <2> QED BY <1>1, <2>2 DEF RecencyOrder, Ordered
<1>7. \A x \in Key : usedAt'[x] <= calls'
  BY <1>0, <1>1 DEF Contents, TypeOK
<1>8. TypeOK'
  <2>1. timeouts' \subseteq Key \X Time /\ removed' \subseteq Key
    BY <1>1 DEF TypeOK, Cleared
  <2> QED BY <1>1, <1>2, <2>1 DEF TypeOK, Sound
<1> QED BY <1>1, <1>2, <1>3, <1>4, <1>5, <1>6, <1>7, <1>8 DEF Contents

(* delete() and the timer of a key                                         *)
LEMMA RemoveSteps ==
  ASSUME IInv, NEW k \in Key,
         Delete(k) \/ \E due \in Time : TimerFires(k, due)
  PROVE  IInv' /\ removed' = Cached(cache) \ Cached(cache')
<1>1. MaxCalls \in Nat /\ calls \in 0..MaxCalls
  BY LruAssumption DEF IInv, TypeOK
<1>2. CASE Delete(k)
  <2>1. DeleteKey(k) /\ timeouts' = Cleared(k) /\ calls' \in 0..MaxCalls /\ calls <= calls'
    BY <1>1, <1>2 DEF Delete, Called
  <2> QED BY <2>1, DeleteStep
<1>3. ASSUME NEW due \in Time, TimerFires(k, due)
      PROVE  IInv' /\ removed' = Cached(cache) \ Cached(cache')
  <2>1. DeleteKey(k) /\ timeouts' = Cleared(k) \ {<<k, due>>} /\ calls' = calls
    BY <1>3 DEF TimerFires
  <2>2. Cleared(k) \ {<<k, due>>} = Cleared(k)
    BY ClearedIs DEF IInv
  <2>3. timeouts' = Cleared(k) /\ calls' \in 0..MaxCalls /\ calls <= calls'
    BY <1>1, <2>1, <2>2
  <2> QED BY <2>1, <2>3, DeleteStep
<1> QED BY <1>2, <1>3

(* clear()                                                                 *)
LEMMA ClearStep ==
  ASSUME IInv, Clear
  PROVE  IInv' /\ removed' = Cached(cache) \ Cached(cache')
<1> USE DEF IInv
<1>0. MaxCalls \in Nat /\ calls \in 0..MaxCalls /\ Sound(cache)
  BY LruAssumption DEF TypeOK, Contents
<1>1. /\ cache' = EmptyCache /\ calls' = calls + 1 /\ calls < MaxCalls
      /\ timeouts' = {t \in timeouts : t[1] \notin cache.timers}
      /\ removed' = Cached(cache) /\ UNCHANGED <<deadline, now, usedAt, promised>>
  BY DEF Clear, Called
<1>2. /\ Sound(cache') /\ Cached(cache') = {} /\ Used(cache') = 0 /\ cache'.timers = {}
      /\ Len(cache'.lru) = 0
  BY <1>1, EmptyIs DEF EmptyCache
<1>3. Timeouts' /\ Awaited'
  BY <1>1, <1>2 DEF Timeouts, Awaited
<1>4. Contents'
  <2>1. RecencyOrder'
    BY <1>2 DEF RecencyOrder
  <2>2. \A x \in Key : usedAt'[x] <= calls'
    BY <1>0, <1>1 DEF Contents, TypeOK
  <2> QED BY <1>2, <2>1, <2>2, MaxMemoryAssumption DEF Contents
<1>5. TypeOK'
  <2>1. removed' \subseteq Key
    BY <1>0, <1>1, Fields DEF Sound
  <2> QED BY <1>0, <1>1, <1>2, <2>1 DEF TypeOK, Sound
<1> QED BY <1>1, <1>2, <1>3, <1>4, <1>5

(* Time does not pass a timeout that is due.                               *)
LEMMA TickStep ==
  ASSUME IInv, Tick
  PROVE  IInv' /\ removed' = Cached(cache) \ Cached(cache')
<1> USE DEF IInv
<1>1. /\ now < MaxTime /\ now' = now + 1 /\ removed' = {}
      /\ \A t \in timeouts : t[2] > now
      /\ UNCHANGED <<cache, deadline, timeouts, calls, usedAt, promised>>
  BY DEF Tick
<1>2. MaxTime \in Nat /\ now \in 0..MaxTime
  BY LruAssumption DEF TypeOK
<1>3. Awaited'
  <2>1. \A k \in cache.timers : deadline[k] > now
    <3> TAKE k \in cache.timers
    <3>1. <<k, deadline[k]>> \in timeouts
      BY DEF Timeouts
    <3>2. <<k, deadline[k]>>[2] > now
      BY <1>1, <3>1
    <3> QED BY <3>2
  <2>2. \A k \in cache.timers : deadline[k] \in Int
    BY LruAssumption, Fields DEF TypeOK, Time
  <2> QED BY <1>1, <1>2, <2>1, <2>2 DEF Awaited
<1>4. Timeouts' /\ Contents'
  BY <1>1 DEF Timeouts, Contents, RecencyOrder
<1>5. TypeOK'
  BY <1>1, <1>2 DEF TypeOK
<1> QED BY <1>1, <1>3, <1>4, <1>5

(* Every step keeps the invariant and announces exactly the keys that left.*)
LEMMA NextInv ==
  ASSUME IInv, Next
  PROVE  IInv' /\ removed' = Cached(cache) \ Cached(cache')
<1>1. ASSUME NEW k \in Key, NEW size \in Size, NEW ttl \in Ttl, Set(k, size, ttl)
      PROVE  IInv' /\ removed' = Cached(cache) \ Cached(cache')
  BY <1>1, SetStep
<1>2. ASSUME NEW k \in Key, Get(k)
      PROVE  IInv' /\ removed' = Cached(cache) \ Cached(cache')
  BY <1>2, GetStep
<1>3. ASSUME NEW k \in Key, Delete(k) \/ \E due \in Time : TimerFires(k, due)
      PROVE  IInv' /\ removed' = Cached(cache) \ Cached(cache')
  BY <1>3, RemoveSteps
<1>4. CASE Clear
  BY <1>4, ClearStep
<1>5. CASE Tick
  BY <1>5, TickStep
<1> QED BY <1>1, <1>2, <1>3, <1>4, <1>5 DEF Next

(* A step that changes nothing keeps the invariant.                        *)
LEMMA StutterInv == ASSUME IInv, UNCHANGED vars PROVE IInv'
  BY DEF IInv, TypeOK, Contents, RecencyOrder, Timeouts, Awaited, vars

(* The inductive invariant holds throughout.                               *)
THEOREM Invariance == Spec => []IInv
<1>1. IInv /\ [Next]_vars => IInv'
  BY NextInv, StutterInv
<1> QED BY <1>1, InitInv, PTL DEF Spec

(* Every variable stays within its range.                                  *)
THEOREM TypesKept == Spec => []TypeOK
<1>1. IInv => TypeOK
  BY DEF IInv
<1> QED BY <1>1, Invariance, PTL

(* The recorded sizes never add up to more than maxMemory, and the keys    *)
(* with a size are the keys in the map, for every capacity and every       *)
(* sequence of set, get, delete, clear and expiry.                         *)
THEOREM CapacityKept == Spec => []Capacity
<1>1. IInv => Capacity
  BY DEF IInv, Contents, Sound, Capacity
<1> QED BY <1>1, Invariance, PTL

(* No value is in the map past the time it was promised.                   *)
THEOREM NothingOutlivesItsTtl == Spec => []ExpiresOnTime
<1>1. IInv => ExpiresOnTime
  BY DEF IInv, Awaited, Timeouts, ExpiresOnTime
<1> QED BY <1>1, Invariance, PTL

(* The list is in the order of last use.                                   *)
THEOREM LeastRecentFirst == Spec => []RecencyOrder
<1>1. IInv => RecencyOrder
  BY DEF IInv, Contents
<1> QED BY <1>1, Invariance, PTL

(* 'remove' is emitted for the keys that left the map and for no other.    *)
THEOREM RemovesAreExact == Spec => RemoveEventsExact
<1>1. IInv /\ [Next]_vars => [removed' = Cached(cache) \ Cached(cache')]_vars
  BY NextInv
<1> QED BY <1>1, Invariance, PTL DEF Spec, RemoveEventsExact

(* A step that is not a call takes a key away only when its time is over.  *)
LEMMA ExpiryStep ==
  ASSUME IInv, Next, calls' = calls
  PROVE  \A k \in removed' : now >= promised[k]
<1>0. calls \in Int
  BY LruAssumption DEF IInv, TypeOK
<1>1. calls # calls + 1
  BY <1>0
<1>2. CASE Tick
  BY <1>2 DEF Tick
<1>3. ASSUME NEW k \in Key, NEW due \in Time, TimerFires(k, due)
      PROVE  \A x \in removed' : now >= promised[x]
  <2>1. <<k, due>> \in timeouts /\ due <= now /\ removed' \subseteq {k}
    BY <1>3 DEF TimerFires, DeleteKey, DeleteRemoves
  <2>2. due = promised[k]
    BY <2>1 DEF IInv, Timeouts
  <2> QED BY <2>1, <2>2 DEF Time
<1> QED BY <1>1, <1>2, <1>3 DEF Next, Set, Get, Delete, Clear, Called

(* No timeout takes a value away before the time it was promised, whatever *)
(* timeouts were armed for earlier values of the same key.                 *)
THEOREM NothingExpiresEarly == Spec => LivesItsTtl
<1>1. IInv /\ [Next]_vars
        => [\A k \in removed' : calls' = calls => now >= promised[k]]_vars
  BY ExpiryStep
<1> QED BY <1>1, Invariance, PTL DEF Spec, LivesItsTtl

(* When set evicts, the most recently used of the keys it evicts would not *)
(* have fitted beside the new value.                                       *)
LEMMA EvictionStep ==
  ASSUME IInv, NEW k \in Key, NEW size \in Size, NEW ttl \in Ttl, Set(k, size, ttl),
         usedAt' # usedAt, NEW x \in removed', \A y \in removed' : usedAt[y] <= usedAt[x]
  PROVE  Used(cache') + cache.size[x] > MaxMemory
<1>0. Sound(cache) /\ size \in Nat
  BY LruAssumption DEF IInv, Contents
<1>1. /\ ~ SetThrows(size) /\ ~ TooLarge(size)
      /\ removed' = SetRemoves(cache, k, size) /\ cache' = CacheSet(cache, k, size)
  BY DEF Set
<1>2. PICK s \in Seq(Key), n \in Nat :
        /\ Keeps(s, cache.lru) /\ n \in 1..Len(s)
        /\ removed' = {s[i] : i \in 1..n}
        /\ Used(cache') + cache.size[s[n]] > MaxMemory
  <2>1. SetRemoves(cache, k, size) # {}
    BY <1>1
  <2> QED BY <1>0, <1>1, <2>1, SetEvicts
<1>3. Ordered(s, usedAt)
  <2>1. Ordered(cache.lru, usedAt)
    BY DEF IInv, Contents, RecencyOrder, Ordered
  <2> QED BY <1>2, <2>1, OrderKept
<1>4. PICK i \in 1..n : x = s[i]
  BY <1>2
<1>5. i = n
  <2>1. ASSUME i < n PROVE FALSE
    <3>1. s[n] \in removed'
      BY <1>2
    <3>2. i \in 1..Len(s) /\ n \in 1..Len(s) /\ Len(s) \in Nat
      BY <1>2, Members
    <3>3. usedAt[s[i]] < usedAt[s[n]]
      BY <1>3, <2>1, <3>2 DEF Ordered
    <3>4. s[i] \in Key /\ s[n] \in Key
      BY <3>2, Members
    <3>5. usedAt[s[i]] \in Int /\ usedAt[s[n]] \in Int
      BY <3>4, LruAssumption DEF IInv, TypeOK
    <3> QED BY <1>4, <3>1, <3>3, <3>5
  <2> QED BY <1>4, <2>1
<1> QED BY <1>2, <1>4, <1>5

(* Making room evicts no more than it must.                                *)
THEOREM EvictionIsMinimal == Spec => MinimalEviction
<1> DEFINE A == usedAt' # usedAt
                  => \A x \in removed' :
                       (\A y \in removed' : usedAt[y] <= usedAt[x])
                         => Used(cache') + cache.size[x] > MaxMemory
<1>1. ASSUME IInv, Next PROVE A
  <2>1. ASSUME NEW k \in Key, NEW size \in Size, NEW ttl \in Ttl, Set(k, size, ttl)
        PROVE  A
    BY <1>1, <2>1, EvictionStep
  <2>2. ASSUME NEW k \in Key, Get(k) PROVE A
    BY <2>2 DEF Get
  <2>3. ASSUME NEW k \in Key, Delete(k) \/ \E due \in Time : TimerFires(k, due)
        PROVE  A
    BY <2>3 DEF Delete, TimerFires, DeleteKey
  <2>4. CASE Clear \/ Tick
    BY <2>4 DEF Clear, Tick
  <2> HIDE DEF A
  <2> QED BY <1>1, <2>1, <2>2, <2>3, <2>4 DEF Next
<1>2. IInv /\ [Next]_vars => [A]_vars
  <2> HIDE DEF A
  <2> QED BY <1>1
<1> QED BY <1>2, Invariance, PTL DEF Spec, MinimalEviction
=============================================================================
