------------------------------ MODULE LruCache ------------------------------
(***************************************************************************)
(* The Cache class driven by its callers: DiskStorage and MemoryStorage    *)
(* set, get and delete entries, clear() empties it, and the timeouts the   *)
(* class arms fire on their own.  Time is counted in seconds; it does not  *)
(* advance past a timeout that is due, but calls may still come before the *)
(* timeout has run.  When a key was last used and how long it may live are *)
(* recorded for the properties; the code has neither.                      *)
(***************************************************************************)
EXTENDS Cache

CONSTANTS Size,      \* the sizes offered to set(), 0 among them
          Ttl,       \* the times to live offered to set(), any 32-bit integer
          MaxTtl,    \* options.maxTtl
          MaxDelay,  \* what setTimeout can wait at most, 2^31 - 1 milliseconds
          MaxCalls,  \* bound on the calls
          MaxTime    \* bound on the time that passes

\* max_ttl is configuration; it must be a delay that setTimeout can wait.
ASSUME LruAssumption ==
  /\ Size \subseteq Nat
  /\ Ttl \subseteq Int
  /\ MaxTtl \in Nat
  /\ MaxDelay \in Nat /\ MaxTtl <= MaxDelay
  /\ MaxCalls \in Nat
  /\ MaxTime \in Nat

VARIABLES cache,     \* this.data and this.timers
          deadline,  \* when the timeout in this.timers is due, by key
          timeouts,  \* all timeouts that Node has armed: key and due time
          removed,   \* keys announced by 'remove' in the last call
          now, calls, usedAt, promised

vars == <<cache, deadline, timeouts, removed, now, calls, usedAt, promised>>

Time == 0..MaxTime + MaxDelay

TypeOK ==
  /\ cache \in CacheValue
  /\ deadline \in [Key -> Time]
  /\ timeouts \subseteq Key \X Time
  /\ removed \subseteq Key
  /\ now \in 0..MaxTime
  /\ calls \in 0..MaxCalls
  /\ usedAt \in [Key -> 0..MaxCalls]
  /\ promised \in [Key -> Time]

Init ==
  /\ cache = EmptyCache
  /\ deadline = [k \in Key |-> 0]
  /\ timeouts = {}
  /\ removed = {}
  /\ now = 0
  /\ calls = 0
  /\ usedAt = [k \in Key |-> 0]
  /\ promised = [k \in Key |-> 0]

\* The life a value is set for: its ttl, but no more than maxTtl.
Lifetime(ttl) == Max({0, Min({ttl, MaxTtl})})

DelayMaximum(ttl) == Max({0, ttl, MaxTtl})   \* mutant: Math.max for Math.min

\* setTimeout fires at once when the delay is below 1 or more than it can wait.
Delay(ttl) ==
  LET parsedTtl == Min({ttl, MaxTtl})
  IN  IF parsedTtl \in 1..MaxDelay THEN parsedTtl ELSE 0

ClearedNever(k) == timeouts   \* mutant: without clearTimeout

\* clearTimeout of what this.timers holds for k
Cleared(k) == timeouts \ {<<x, deadline[x]>> : x \in {k} \cap cache.timers}

Called == calls < MaxCalls /\ calls' = calls + 1

Set(k, size, ttl) ==
  /\ Called
  /\ deadline' = [deadline EXCEPT ![k] = now + Delay(ttl)]
  /\ timeouts' = Cleared(k) \cup {<<k, now + Delay(ttl)>>}
  /\ cache' = CacheSet(cache, k, size)
  /\ removed' = SetRemoves(cache, k, size)
  /\ promised' = [promised EXCEPT ![k] = now + Lifetime(ttl)]
  /\ usedAt' = IF SetThrows(size) \/ TooLarge(size) THEN usedAt
                                                    ELSE [usedAt EXCEPT ![k] = calls']
  /\ UNCHANGED now

Get(k) ==
  /\ Called
  /\ k \in Cached(cache)
  /\ cache' = CacheGet(cache, k)
  /\ removed' = {}
  /\ usedAt' = [usedAt EXCEPT ![k] = calls']
  /\ UNCHANGED <<deadline, timeouts, now, promised>>

DeleteKey(k) ==
  /\ cache' = CacheDelete(cache, k)
  /\ removed' = DeleteRemoves(cache, k)
  /\ UNCHANGED <<deadline, now, usedAt, promised>>

Delete(k) ==
  /\ Called
  /\ k \in cache.timers
  /\ timeouts' = Cleared(k)
  /\ DeleteKey(k)

TimerFires(k, due) ==
  /\ <<k, due>> \in timeouts
  /\ due <= now
  /\ timeouts' = Cleared(k) \ {<<k, due>>}
  /\ DeleteKey(k)
  /\ UNCHANGED calls

Clear ==
  /\ Called
  /\ cache' = EmptyCache
  /\ timeouts' = {t \in timeouts : t[1] \notin cache.timers}
  /\ removed' = Cached(cache)
  /\ UNCHANGED <<deadline, now, usedAt, promised>>

Tick ==
  /\ now < MaxTime
  /\ \A t \in timeouts : t[2] > now
  /\ now' = now + 1
  /\ removed' = {}
  /\ UNCHANGED <<cache, deadline, timeouts, calls, usedAt, promised>>

Next ==
  \/ \E k \in Key : \/ \E size \in Size, ttl \in Ttl : Set(k, size, ttl)
                    \/ Get(k) \/ Delete(k)
                    \/ \E due \in Time : TimerFires(k, due)
  \/ Clear
  \/ Tick

Spec == Init /\ [][Next]_vars

-----------------------------------------------------------------------------
(* The recorded sizes never add up to more than maxMemory, and the total   *)
(* counts exactly the keys that are in the map (set, delete, eviction).    *)
Capacity ==
  /\ Used(cache) <= MaxMemory
  /\ \A k \in Key : cache.size[k] > 0 <=> k \in Cached(cache)

(* No value outlives the ttl of the last set() of its key, nor maxTtl,     *)
(* whatever sequence of overwrites, rejected sets, evictions and deletes   *)
(* led here (set arms a timeout for whatever is in the map).               *)
ExpiresOnTime == \A k \in Cached(cache) : now <= promised[k]

(* Nor does a timeout take a value away before that time: the timeout of   *)
(* an overwritten, evicted or deleted value never meets the value that     *)
(* came after it (clearTimeout in set, delete and clear), and no delay is  *)
(* one that setTimeout would cut to nothing.                               *)
LivesItsTtl ==
  [][\A k \in removed' : calls' = calls => now >= promised[k]]_vars

(* The list is in order of last use, without repetition, so that evicting  *)
(* from its head is evicting the least recently used.                      *)
RecencyOrder ==
  \A i, j \in 1..Len(cache.lru) :
    i < j => usedAt[cache.lru[i]] < usedAt[cache.lru[j]]

(* 'remove' is emitted for exactly the keys that left the cache: never for *)
(* a value that was overwritten, never for a key that is still there       *)
(* (DiskStorage unlinks the files of a key it is told about).              *)
RemoveEventsExact ==
  [][removed' = Cached(cache) \ Cached(cache')]_vars

(* Making room evicts no more than needed: with the last of the evicted    *)
(* keys kept, the value that was set would not have fitted.                *)
MinimalEviction ==
  [][usedAt' # usedAt
       => \A x \in removed' :
            (\A y \in removed' : usedAt[y] <= usedAt[x])
              => Used(cache') + cache.size[x] > MaxMemory]_vars
=============================================================================
