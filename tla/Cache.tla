------------------------------- MODULE Cache -------------------------------
(***************************************************************************)
(* The value of a Cache (src/src/helpers/cache.ts): an LRU map bounded by  *)
(* the sum of the recorded sizes of its entries, with one expiry timer per *)
(* stored key.  The map itself is the lru-cache package, modelled from the *)
(* options cache.ts gives it (maxSize, sizeCalculation, dispose,           *)
(* noDisposeOnSet).  An operation is a function of the old value; what the *)
(* cache announces through its 'remove' event is a second operator.        *)
(***************************************************************************)
EXTENDS Integers, SequencesExt

CONSTANTS Key,        \* file names
          MaxMemory   \* options.maxMemory, in units of size

\* A file system has finitely many names, of 255 bytes at most.
ASSUME KeyAssumption == IsFiniteSet(Key)

ASSUME MaxMemoryAssumption == MaxMemory \in Nat \ {0}

(* lru: the keys from the least to the most recently used; size: the size  *)
(* recorded for a key, 0 for a key that is absent; timers: the keys of the *)
(* Map of armed timeouts.                                                  *)
CacheValue == [lru: Seq(Key), size: [Key -> Nat], timers: SUBSET Key]

EmptyCache == [lru |-> <<>>, size |-> [k \in Key |-> 0], timers |-> {}]

Cached(c) == Range(c.lru)

\* lru-cache's calculatedSize
Used(c) == SumFunction(c.size)

Position(c, k) == CHOOSE i \in 1..Len(c.lru) : c.lru[i] = k

\* mutant: the size of a removed entry is subtracted twice
ForgetTwice(c, k) ==
  [c EXCEPT !.lru = SelectSeq(@, LAMBDA x : x # k), !.size[k] = -@]

\* The map without k; its timer is left alone.
Forget(c, k) ==
  IF k \in Cached(c)
  THEN [c EXCEPT !.lru = RemoveAt(@, Position(c, k)), !.size[k] = 0]
  ELSE c

-----------------------------------------------------------------------------
(* get: a hit becomes the most recently used key.                          *)
CacheGetQuietly(c, k) == c   \* mutant: a hit does not touch the order

CacheGet(c, k) ==
  IF k \in Cached(c) THEN [c EXCEPT !.lru = Append(RemoveAt(@, Position(c, k)), k)]
                     ELSE c

(* delete: also called by the timer of k.  'remove' is emitted for k when  *)
(* it was there.                                                           *)
CacheDelete(c, k) == [Forget(c, k) EXCEPT !.timers = @ \ {k}]

DeleteRemoves(c, k) == Cached(c) \cap {k}

-----------------------------------------------------------------------------
(* set.  The timer of k is replaced first, whatever lru-cache does next:   *)
(* it rejects a size that is not a positive integer with an exception,     *)
(* deletes k when the value can never fit, and otherwise makes room by     *)
(* evicting from the least recently used end until the value fits.  The    *)
(* value it overwrites is not announced (noDisposeOnSet).                  *)
SetThrows(size) == size = 0

TooLarge(size) == size > MaxMemory

\* mutant: room is made before the new value is counted
FitsUncounted(c, i, size) ==
  SumFunctionOnSet(c.size, Range(SubSeq(c.lru, i + 1, Len(c.lru)))) <= MaxMemory

Fits(c, i, size) ==
  SumFunctionOnSet(c.size, Range(SubSeq(c.lru, i + 1, Len(c.lru)))) + size <= MaxMemory

EvictAll(c, size) == Len(c.lru)   \* mutant: the whole cache is evicted

EvictCount(c, size) ==
  Min({i \in 0..Len(c.lru) : Fits(c, i, size)} \cup {Len(c.lru)})

Evicted(c, size) == Range(SubSeq(c.lru, 1, EvictCount(c, size)))

Store(c, k, size) ==
  [c EXCEPT !.lru  = Append(SubSeq(@, EvictCount(c, size) + 1, Len(@)), k),
            !.size = [x \in Key |-> IF x = k THEN size
                                    ELSE IF x \in Evicted(c, size) THEN 0 ELSE @[x]]]

Arm(c, k) == [c EXCEPT !.timers = @ \cup {k}]

CacheSet(c, k, size) ==
  CASE SetThrows(size) -> Arm(c, k)
    [] TooLarge(size)  -> Forget(Arm(c, k), k)
    [] OTHER           -> Store(Forget(Arm(c, k), k), k, size)

\* mutant: without noDisposeOnSet
SetRemovesOverwritten(c, k, size) ==
  (Cached(c) \cap {k}) \cup (IF SetThrows(size) \/ TooLarge(size)
                           THEN {} ELSE Evicted(Forget(c, k), size))

SetRemoves(c, k, size) ==
  CASE SetThrows(size) -> {}
    [] TooLarge(size)  -> Cached(c) \cap {k}
    [] OTHER           -> Evicted(Forget(c, k), size)
=============================================================================
