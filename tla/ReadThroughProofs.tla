-------------------------- MODULE ReadThroughProofs --------------------------
(***************************************************************************)
(* Proofs about ReadThrough, for every set of names and downloads, every   *)
(* chunk size and file length, and any number of uploads.                  *)
(*                                                                         *)
(* What lies on the disk under a settled name, one that is not being       *)
(* committed and whose last commit was not cut, is of the upload that was  *)
(* announced last, the data and the metadata, if they are there (Disk): a  *)
(* commit that is not cut has left nothing else when its renames are over. *)
(* While a download is not late its name is settled, so what it was told   *)
(* and what it reads is of that upload (Downloads), and so is a copy that  *)
(* such a download makes (Copies).                                         *)
(*                                                                         *)
(* The downloadFile helper, of DownloadClient, acts on what it has         *)
(* received; the claim about it is proved of its log, what it was          *)
(* answered so far (ClientInv).                                            *)
(***************************************************************************)
EXTENDS DownloadClient, CacheProofs

Disk ==
  \A k \in Key :
    /\ ~ Unsettled(k) => \A p \in Part : visible[k][p] \in {0, announced[k]}
    /\ committing[k] = 0 => renames[k] = {}
    /\ committing[k] # 0 /\ k \notin cut
         => \A p \in Part \ renames[k] : visible[k][p] \in {0, committing[k]}
    /\ committing[k] # 0 /\ k \in cut => renames[k] # {}

Copies ==
  \A k \in Cached(ram) :
    ~ copy[k].late => copy[k].content = announced[k] /\ copy[k].metadata = announced[k]

Faithful(d) ==
  /\ phase[d] # "idle" => name[d] \in Key
  /\ phase[d] \in {"idle", "load", "describe", "absent", "known", "open"} => head[d] = 0
  /\ d \notin late =>
       /\ phase[d] \in {"load", "describe", "known", "open", "read"} => ~ Unsettled(name[d])
       /\ phase[d] \in {"known", "open", "read"} => info[d].version = announced[name[d]]
       /\ phase[d] = "read" => rfd[d] = announced[name[d]]
       /\ phase[d] = "done" => rfd[d] = info[d].version

Downloads == \A d \in Download : Faithful(d)

IInv == /\ TypeOK /\ Sound(ram) /\ MemorySizeCovers
        /\ Disk /\ Copies /\ Downloads

-----------------------------------------------------------------------------
(* RAM                                                                     *)

(* Deleting a name from RAM takes away what was counted for it at most.    *)
LEMMA DeleteFromRam ==
  ASSUME IInv, NEW k \in Key, MemoryDelete(k)
  PROVE  /\ Sound(ram') /\ Cached(ram') = Cached(ram) \ {k}
         /\ memory_size' \in Int /\ MemorySizeCovers'
<1>0. Sound(ram) /\ memory_size \in Int /\ Used(ram) <= memory_size
  BY DEF IInv, TypeOK, MemorySizeCovers
<1>1. /\ ram' = CacheDelete(ram, k)
      /\ memory_size' = memory_size - SumFunctionOnSet(ram.size, DeleteRemoves(ram, k))
  BY DEF MemoryDelete, RemoveItems
<1>2. memory_size' = memory_size - ram.size[k] /\ ram.size[k] \in Nat /\ Used(ram) \in Nat
  BY <1>0, <1>1, RemovedSize, Fields DEF Sound
<1>3. Sound(ram') /\ Cached(ram') = Cached(ram) \ {k} /\ Used(ram') = Used(ram) - ram.size[k]
  BY <1>0, <1>1, DeleteIs
<1> QED BY <1>0, <1>2, <1>3 DEF MemorySizeCovers

(* save() counts what it was sent, stored or not, and takes away what it   *)
(* removes; what it overwrites stays counted.                              *)
LEMMA SaveToRam ==
  ASSUME IInv, NEW d \in Download, name[d] \in Key, MemorySave(d)
  PROVE  /\ Sound(ram') /\ memory_size' \in Int /\ MemorySizeCovers'
         /\ \/ head[d] = 0 /\ UNCHANGED ramVars
            \/ /\ head[d] # 0
               /\ Cached(ram') \subseteq Cached(ram) \cup {name[d]}
               /\ copy' = [copy EXCEPT ![name[d]] =
                             [content |-> rfd[d], metadata |-> info[d].version,
                              late |-> d \in late]]
<1>0. Sound(ram) /\ memory_size \in Int /\ Used(ram) <= memory_size /\ head[d] \in Nat
  BY DEF IInv, TypeOK, MemorySizeCovers
<1>1. CASE head[d] = 0
  <2>1. UNCHANGED ramVars
    BY <1>1 DEF MemorySave
  <2> QED BY <1>0, <1>1, <2>1 DEF ramVars, MemorySizeCovers
<1>2. CASE head[d] # 0
  <2> DEFINE R == SetRemoves(ram, name[d], head[d])
  <2>1. /\ ram' = CacheSet(ram, name[d], head[d])
        /\ copy' = [copy EXCEPT ![name[d]] =
                      [content |-> rfd[d], metadata |-> info[d].version,
                       late |-> d \in late]]
        /\ memory_size' = memory_size + head[d] - SumFunctionOnSet(ram.size, R)
    BY <1>2 DEF MemorySave, Counted, RemoveItems
  <2>2. /\ Sound(ram') /\ Cached(ram') \subseteq Cached(ram) \cup {name[d]}
        /\ Used(ram') + SumFunctionOnSet(ram.size, R) <= Used(ram) + head[d]
    BY <1>0, <2>1, SetIs
  <2>3. SumFunctionOnSet(ram.size, R) \in Nat
    <3>1. R \subseteq Cached(ram)
      BY <1>0, SetIs
    <3>2. IsFiniteSet(R)
      BY <1>0, <3>1, Fields, FS_Subset DEF Sound
    <3>3. \A x \in R : ram.size[x] \in Nat
      BY <1>0, <3>1, Fields DEF Sound
    <3> QED BY <3>2, <3>3, SumOfSizes
  <2>4. Used(ram') \in Nat /\ Used(ram) \in Nat
    BY <1>0, <2>2, Fields DEF Sound
  <2>5. memory_size' \in Int /\ Used(ram') <= memory_size'
    <3> HIDE DEF R
    <3> QED BY <1>0, <2>1, <2>2, <2>3, <2>4
  <2> QED BY <1>2, <2>1, <2>2, <2>5 DEF MemorySizeCovers
<1> QED BY <1>1, <1>2

(* Reading from RAM leaves what is there.                                  *)
LEMMA ReadFromRam ==
  ASSUME IInv, NEW k, ram' = CacheGet(ram, k), UNCHANGED memory_size
  PROVE  /\ Sound(ram') /\ Cached(ram') = Cached(ram)
         /\ memory_size' \in Int /\ MemorySizeCovers'
<1>1. Sound(ram) /\ memory_size \in Int /\ Used(ram) <= memory_size
  BY DEF IInv, TypeOK, MemorySizeCovers
<1>2. Sound(ram') /\ Cached(ram') = Cached(ram) /\ Used(ram') = Used(ram)
  BY <1>1, GetIs
<1> QED BY <1>1, <1>2 DEF MemorySizeCovers

-----------------------------------------------------------------------------
(* Types                                                                   *)

(* A file of a name is replaced by another version, or by none.            *)
LEMMA FileTypes ==
  ASSUME TypeOK, NEW k \in Key, NEW p \in Part, NEW v \in Version,
         visible' = [visible EXCEPT ![k][p] = v]
  PROVE  /\ visible' \in [Key -> [Part -> Version]] /\ visible'[k][p] = v
         /\ \A q \in Part \ {p} : visible'[k][q] = visible[k][q]
         /\ \A x \in Key \ {k} : visible'[x] = visible[x]
<1>1. visible \in [Key -> [Part -> Version]]
  BY DEF TypeOK
<1>2. visible' = [visible EXCEPT ![k] = [visible[k] EXCEPT ![p] = v]]
  OBVIOUS
<1>3. visible[k] \in [Part -> Version] /\ [visible[k] EXCEPT ![p] = v] \in [Part -> Version]
  BY <1>1
<1> QED BY <1>1, <1>2, <1>3

(* The steps of the disk and of RAM stay within the types.                 *)
LEMMA DiskTypes == ASSUME IInv, DiskStep PROVE TypeOK'
<1>0. latest \in Nat /\ MaxVersion \in Nat /\ 0 \in Version
  BY ReadAssumption DEF IInv, TypeOK, Version
<1>1. ASSUME NEW k \in Key, NEW n \in Length, Commit(k, n) PROVE TypeOK'
  <2>1. latest' \in Version
    BY <1>0, <1>1 DEF Commit, Version
  <2> QED BY <1>0, <1>1, <2>1 DEF Commit, IInv, TypeOK, ramVars, downloadVars, Active
<1>2. ASSUME NEW k \in Key, NEW p \in Part, NEW fails \in BOOLEAN, Rename(k, p, fails)
      PROVE  TypeOK'
  <2>1. committing[k] \in Version
    BY DEF IInv, TypeOK
  <2>2. visible' \in [Key -> [Part -> Version]]
    <3>1. CASE visible' = visible
      BY <3>1 DEF IInv, TypeOK
    <3>2. CASE visible' = [visible EXCEPT ![k][p] = committing[k]]
      BY <2>1, <3>2, FileTypes DEF IInv
    <3> QED BY <1>2, <3>1, <3>2 DEF Rename
  <2>3. committing' \in [Key -> Version]
    BY <1>0, <1>2 DEF Rename, IInv, TypeOK
  <2>4. renames' \in [Key -> SUBSET Part] /\ cut' \subseteq Key
    BY <1>2 DEF Rename, IInv, TypeOK
  <2> QED BY <1>2, <2>2, <2>3, <2>4 DEF Rename, IInv, TypeOK, ramVars, downloadVars
<1>3. ASSUME NEW k \in Key, Announce(k) PROVE TypeOK'
  <2>1. ram' \in CacheValue /\ memory_size' \in Int
    BY <1>3, DeleteFromRam DEF Announce, Invalidate, Sound
  <2> QED BY <1>0, <1>3, <2>1 DEF Announce, IInv, TypeOK, downloadVars
<1>4. ASSUME NEW k \in Key, Refuse(k) PROVE TypeOK'
  BY <1>0, <1>4 DEF Refuse, IInv, TypeOK, ramVars, downloadVars
<1>5. ASSUME NEW k \in Key, DiskRemove(k) PROVE TypeOK'
  BY <1>5 DEF DiskRemove, IInv, TypeOK, ramVars, downloadVars
<1>6. ASSUME NEW k \in Key, NEW p \in Part, DiskUnlink(k, p) PROVE TypeOK'
  <2>1. visible' \in [Key -> [Part -> Version]]
    BY <1>0, <1>6, FileTypes DEF DiskUnlink, IInv
  <2> QED BY <1>6, <2>1 DEF DiskUnlink, IInv, TypeOK, ramVars, downloadVars
<1>7. ASSUME NEW k \in Key, RamExpire(k) PROVE TypeOK'
  <2>1. ram' \in CacheValue /\ memory_size' \in Int
    BY <1>7, DeleteFromRam DEF RamExpire, Sound
  <2> QED BY <1>7, <2>1 DEF RamExpire, IInv, TypeOK, diskVars, downloadVars
<1> QED BY <1>1, <1>2, <1>3, <1>4, <1>5, <1>6, <1>7 DEF DiskStep

(* The greatest of the two versions of a name                              *)
LEMMA Greatest ==
  ASSUME TypeOK, NEW k \in Key
  PROVE  /\ Max({visible[k][p] : p \in Part}) \in Version
         /\ ~ Mixed(k) => \A p \in Part : \/ visible[k][p] = 0
                                        \/ visible[k][p] = Max({visible[k][q] : q \in Part})
<1> DEFINE a == visible[k]["bin"]
           b == visible[k]["metadata"]
<1>1. a \in Nat /\ b \in Nat /\ a \in Version /\ b \in Version
  BY ReadAssumption DEF TypeOK, Part, Version
<1>2. {visible[k][p] : p \in Part} = {a, b}
  BY DEF Part
<1>3. ASSUME NEW x \in Nat, NEW y \in Nat
      PROVE  Max({x, y}) \in {x, y} /\ Max({x, y}) >= x /\ Max({x, y}) >= y
  <2>1. \E m \in {x, y} : \A n \in {x, y} : m >= n
    OBVIOUS
  <2> QED BY <2>1 DEF Max
<1>4. Max({a, b}) \in {a, b} /\ Max({a, b}) >= a /\ Max({a, b}) >= b
  BY <1>1, <1>3
<1>5. ~ Mixed(k) => a = 0 \/ b = 0 \/ a = b
  BY DEF Mixed, Part
<1>6. \A p \in Part : visible[k][p] = a \/ visible[k][p] = b
  BY DEF Part
<1> HIDE DEF a, b
<1>7. Max({a, b}) \in Version
  BY <1>1, <1>4
<1>8. ~ Mixed(k) => (a = 0 \/ a = Max({a, b})) /\ (b = 0 \/ b = Max({a, b}))
  BY <1>1, <1>4, <1>5
<1> QED BY <1>2, <1>6, <1>7, <1>8

(* A new process starts from the types.                                    *)
LEMMA RestartTypes == ASSUME IInv, Restart PROVE TypeOK'
<1>0. 0 \in Version
  BY ReadAssumption DEF Version
<1>1. announced' \in [Key -> Version]
  <2>1. \A k \in Key : Max({visible[k][p] : p \in Part}) \in Version /\ announced[k] \in Version
    BY Greatest DEF IInv, TypeOK
  <2> QED BY <2>1 DEF Restart
<1>2. /\ committing' \in [Key -> Version] /\ renames' \in [Key -> SUBSET Part]
      /\ unlinking' = {} /\ indexed' \subseteq Key /\ cut' \subseteq Key
  BY <1>0 DEF Restart
<1>3. ram' \in CacheValue /\ memory_size' \in Int
  BY EmptyIs DEF Restart, Sound
<1>4. copy' \in [Key -> [content: Version, metadata: Version, late: BOOLEAN]]
  <2>1. NoCopy \in [content: Version, metadata: Version, late: BOOLEAN]
    BY <1>0 DEF NoCopy
  <2> QED BY <2>1 DEF Restart
<1>5. phase' \in [Download -> {"idle", "load", "describe", "absent", "known", "open", "read",
                               "done", "failed"}]
  BY DEF Restart, IInv, TypeOK
<1>6. info' \in [Download -> [version: Version, size: Nat]]
  <2>1. NoInfo \in [version: Version, size: Nat]
    BY <1>0 DEF NoInfo
  <2>2. \A d \in Download : info[d] \in [version: Version, size: Nat]
    BY DEF IInv, TypeOK
  <2> HIDE DEF NoInfo
  <2> QED BY <2>1, <2>2 DEF Restart
<1>7. /\ rfd' \in [Download -> Version] /\ chunkSize' \in [Download -> Nat]
      /\ head' \in [Download -> Nat] /\ late' \subseteq Download
  BY <1>0 DEF Restart, IInv, TypeOK
<1>8. UNCHANGED <<latest, length, visible, name, sent>> /\ getStreams' = {} /\ old' = {}
  BY DEF Restart
<1> QED BY <1>1, <1>2, <1>3, <1>4, <1>5, <1>6, <1>7, <1>8 DEF IInv, TypeOK

(* The requests of a download                                              *)
LEMMA RequestTypes ==
  ASSUME IInv, NEW d \in Download,
         \/ \E k \in Key : GetFileData(d, k)
         \/ \E requested \in Requested : EmitFileChunks(d, requested)
  PROVE  TypeOK'
<1>0. ram.size \in [Key -> Nat] /\ Cached(ram) \in SUBSET Key
  BY Fields DEF IInv, Sound
<1>1. ASSUME NEW k \in Key, GetFileData(d, k) PROVE TypeOK'
  <2>1. CASE k \in Cached(ram)
    <3>1. ram' = CacheGet(ram, k) /\ UNCHANGED memory_size
      BY <1>1, <2>1 DEF GetFileData
    <3>2. ram' \in CacheValue /\ memory_size' \in Int
      BY <3>1, ReadFromRam DEF Sound
    <3>3. ram.size[k] \in Nat
      BY <1>0
    <3>4. info' \in [Download -> [version: Version, size: Nat]]
      <4>1. copy[k].metadata \in Version
        BY DEF IInv, TypeOK
      <4> DEFINE given == [version |-> copy[k].metadata, size |-> ram.size[k]]
      <4>2. given \in [version: Version, size: Nat]
        BY <3>3, <4>1
      <4>3. info' = [info EXCEPT ![d] = given]
        BY <1>1, <2>1 DEF GetFileData
      <4> HIDE DEF given
      <4> QED BY <4>2, <4>3 DEF IInv, TypeOK
    <3> QED BY <1>1, <2>1, <3>2, <3>4 DEF GetFileData, To, Joins, IInv, TypeOK, diskVars
  <2>2. CASE k \notin Cached(ram)
    BY <1>1, <2>2 DEF GetFileData, To, Joins, IInv, TypeOK, diskVars
  <2> QED BY <2>1, <2>2
<1>2. ASSUME EmitRefused(d) PROVE TypeOK'
  BY <1>2 DEF EmitRefused, To, IInv, TypeOK, diskVars, ramVars
<1>3. ASSUME EmitFromRam(d) PROVE TypeOK'
  <2>1. ram' = CacheGet(ram, name[d]) /\ UNCHANGED memory_size /\ name[d] \in Cached(ram)
    BY <1>3 DEF EmitFromRam
  <2>2. ram' \in CacheValue /\ memory_size' \in Int
    BY <2>1, ReadFromRam DEF Sound
  <2>3. ram.size[name[d]] \in Nat /\ copy[name[d]].content \in Version
    BY <1>0, <2>1 DEF IInv, TypeOK
  <2> QED BY <1>3, <2>2, <2>3 DEF EmitFromRam, Unregister, To, Joins, IInv, TypeOK, diskVars
<1>4. ASSUME NEW requested \in Requested, EmitFromDisk(d, requested) PROVE TypeOK'
  <2>1. ReadChunkSize(requested) \in Nat
    BY ReadAssumption DEF ReadChunkSize
  <2> QED BY <1>4, <2>1 DEF EmitFromDisk, To, IInv, TypeOK, diskVars, ramVars
<1> QED BY <1>1, <1>2, <1>3, <1>4 DEF EmitFileChunks

(* The length of every version                                             *)
LEMMA Lengths == ASSUME TypeOK, NEW v \in Version PROVE length[v] \in Nat
<1>1. length[v] \in Length \cup {0}
  BY DEF TypeOK
<1>2. \A n \in Length \cup {0} : n \in Nat
  BY ReadAssumption
<1> QED BY <1>1, <1>2

(* A chunk has as many bytes as it was asked for or as are left.           *)
LEMMA ChunkSent ==
  ASSUME IInv, NEW d \in Download, ReadChunk(d)
  PROVE  \E bytes \in Nat :
           /\ sent' = [sent EXCEPT ![d] = @ + bytes]
           /\ head' = [head EXCEPT ![d] = IF sent[d] = 0 THEN bytes ELSE @]
<1> DEFINE bytes == Min({chunkSize[d], length[rfd[d]] - sent[d]})
<1>1. chunkSize[d] \in Nat /\ length[rfd[d]] \in Nat /\ sent[d] \in Nat
  <2>1. rfd[d] \in Version /\ chunkSize[d] \in Nat /\ sent[d] \in Nat
    BY DEF IInv, TypeOK
  <2> QED BY <2>1, Lengths DEF IInv
<1>2. length[rfd[d]] - sent[d] \in Nat
  BY <1>1 DEF ReadChunk
<1>3. bytes \in Nat
  <2>1. \A a, b \in Nat : Min({a, b}) \in Nat
    <3> TAKE a \in Nat, b \in Nat
    <3>1. \E x \in {a, b} : \A y \in {a, b} : x <= y
      OBVIOUS
    <3> QED BY <3>1 DEF Min
  <2> QED BY <1>1, <1>2, <2>1
<1>4. /\ sent' = [sent EXCEPT ![d] = @ + bytes]
      /\ head' = [head EXCEPT ![d] = IF sent[d] = 0 THEN bytes ELSE @]
  BY DEF ReadChunk
<1> HIDE DEF bytes
<1> QED BY <1>3, <1>4

(* What serves it                                                          *)
LEMMA ServeTypes ==
  ASSUME IInv, NEW d \in Download, ServeStep(d)
  PROVE  TypeOK'
<1>0. Length \subseteq Nat /\ 0 \in Version
  BY ReadAssumption DEF Version
<1>1. ASSUME LoadStat(d) PROVE TypeOK'
  <2>1. name[d] \in Key
    BY <1>1 DEF LoadStat, IInv, Downloads, Faithful
  <2>2. visible[name[d]]["bin"] \in Version
    BY <2>1 DEF IInv, TypeOK, Part
  <2>3. length[visible[name[d]]["bin"]] \in Nat
    BY <2>2, Lengths DEF IInv
  <2>4. info' \in [Download -> [version: Version, size: Nat]]
    BY <1>1, <2>3 DEF LoadStat, IInv, TypeOK
  <2> QED BY <1>1, <2>4 DEF LoadStat, To, IInv, TypeOK, diskVars, ramVars
<1>6. ASSUME LoadMetadata(d) PROVE TypeOK'
  <2>1. name[d] \in Key
    BY <1>6 DEF LoadMetadata, IInv, Downloads, Faithful
  <2>2. visible[name[d]]["metadata"] \in Version
    BY <2>1 DEF IInv, TypeOK, Part
  <2>3. info' \in [Download -> [version: Version, size: Nat]]
    BY <1>6, <2>2 DEF LoadMetadata, IInv, TypeOK
  <2> QED BY <1>6, <2>3 DEF LoadMetadata, To, IInv, TypeOK, diskVars, ramVars
<1>2. ASSUME Open(d) PROVE TypeOK'
  <2>1. name[d] \in Key
    BY <1>2 DEF Open, IInv, Downloads, Faithful
  <2>2. visible[name[d]]["bin"] \in Version
    BY <2>1 DEF IInv, TypeOK, Part
  <2> QED BY <1>2, <2>2 DEF Open, To, IInv, TypeOK, diskVars, ramVars
<1>3. ASSUME ReadChunk(d) PROVE TypeOK'
  <2>1. PICK bytes \in Nat :
          /\ sent' = [sent EXCEPT ![d] = @ + bytes]
          /\ head' = [head EXCEPT ![d] = IF sent[d] = 0 THEN bytes ELSE @]
    BY <1>3, ChunkSent
  <2>2. UNCHANGED <<diskVars, ramVars, getStreams, old, phase, name, info, chunkSize,
                    rfd, late>>
    BY <1>3 DEF ReadChunk
  <2>3. sent' \in [Download -> Nat] /\ head' \in [Download -> Nat]
    BY <2>1 DEF IInv, TypeOK
  <2> QED BY <2>2, <2>3 DEF IInv, TypeOK, diskVars, ramVars
<1>4. ASSUME NEW timedOut \in BOOLEAN, ReadEnd(d) \/ ReadFails(d, timedOut) PROVE TypeOK'
  <2>1. /\ MemorySave(d) /\ name[d] \in Key
        /\ UNCHANGED <<diskVars, name, info, chunkSize, rfd, sent, head, late>>
    BY <1>4 DEF ReadEnd, ReadFails, Timed, IInv, Downloads, Faithful
  <2>2. ram' \in CacheValue /\ memory_size' \in Int
    BY <2>1, SaveToRam DEF Sound
  <2>3. copy' \in [Key -> [content: Version, metadata: Version, late: BOOLEAN]]
    <3>1. CASE UNCHANGED ramVars
      BY <3>1 DEF ramVars, IInv, TypeOK
    <3> DEFINE made == [content |-> rfd[d], metadata |-> info[d].version, late |-> d \in late]
    <3>2. CASE copy' = [copy EXCEPT ![name[d]] = made]
      <4>1. rfd[d] \in Version /\ info[d].version \in Version
        BY DEF IInv, TypeOK
      <4>2. made \in [content: Version, metadata: Version, late: BOOLEAN]
        BY <4>1
      <4> HIDE DEF made
      <4> QED BY <2>1, <3>2, <4>2 DEF IInv, TypeOK
    <3> HIDE DEF made
    <3>3. UNCHANGED ramVars \/ copy' = [copy EXCEPT ![name[d]] = made]
      BY <2>1, SaveToRam DEF made
    <3> QED BY <3>1, <3>2, <3>3
  <2>4. getStreams' \subseteq Download /\ old' \subseteq Download
    BY <1>4 DEF ReadEnd, ReadFails, Unregister, IInv, TypeOK
  <2>5. phase' \in [Download -> {"idle", "load", "describe", "absent", "known", "open", "read",
                                 "done", "failed"}]
    BY <1>4 DEF ReadEnd, ReadFails, To, IInv, TypeOK
  <2> QED BY <2>1, <2>2, <2>3, <2>4, <2>5 DEF IInv, TypeOK, diskVars
<1>5. ASSUME Ages(d) PROVE TypeOK'
  BY <1>5 DEF Ages, IInv, TypeOK, diskVars, ramVars, downloadVars
<1> QED BY <1>1, <1>2, <1>3, <1>4, <1>5, <1>6 DEF ServeStep

(* Every step                                                              *)
LEMMA NextTypes == ASSUME IInv, Next PROVE TypeOK'
<1>1. CASE GarbageCollection
  BY <1>1 DEF GarbageCollection, Kept, IInv, TypeOK, diskVars, ramVars, downloadVars
<1> QED BY <1>1, DiskTypes, RequestTypes, ServeTypes, RestartTypes DEF Next

-----------------------------------------------------------------------------
(* RAM, the disk, the copies and the downloads                             *)

(* What a step does to RAM: a deletion, a save, a hit or nothing           *)
LEMMA RamSteps ==
  ASSUME Next
  PROVE  \/ \E k \in Key : MemoryDelete(k) /\ UNCHANGED copy
         \/ \E d \in Download :
              /\ phase[d] \in {"open", "read"} /\ MemorySave(d)
              /\ UNCHANGED <<diskVars, late>>
         \/ (\E k \in Key : ram' = CacheGet(ram, k)) /\ UNCHANGED <<copy, memory_size>>
         \/ (\E d \in Download : ram' = CacheGet(ram, name[d]))
              /\ UNCHANGED <<copy, memory_size>>
         \/ UNCHANGED ramVars
         \/ ram' = EmptyCache /\ memory_size' = 0 /\ Restart
<1>1. CASE DiskStep
  BY <1>1 DEF DiskStep, Commit, Rename, Announce, Invalidate, Refuse, DiskRemove, DiskUnlink,
              RamExpire
<1>2. ASSUME NEW d \in Download, NEW k \in Key, GetFileData(d, k)
      PROVE  \/ ram' = CacheGet(ram, k) /\ UNCHANGED <<copy, memory_size>>
             \/ UNCHANGED ramVars
  BY <1>2 DEF GetFileData, ramVars
<1>3. ASSUME NEW d \in Download, NEW requested \in Requested, EmitFileChunks(d, requested)
      PROVE  \/ ram' = CacheGet(ram, name[d]) /\ UNCHANGED <<copy, memory_size>>
             \/ UNCHANGED ramVars
  BY <1>3 DEF EmitFileChunks, EmitRefused, EmitFromRam, EmitFromDisk, ramVars
<1>4. ASSUME NEW d \in Download, ServeStep(d)
      PROVE  \/ /\ phase[d] \in {"open", "read"} /\ MemorySave(d)
                /\ UNCHANGED <<diskVars, late>>
             \/ UNCHANGED ramVars
  BY <1>4 DEF ServeStep, LoadStat, LoadMetadata, Open, ReadChunk, ReadEnd, ReadFails, Timed,
              Ages
<1>5. CASE GarbageCollection
  BY <1>5 DEF GarbageCollection
<1>6. CASE Restart
  BY <1>6 DEF Restart
<1> QED BY <1>1, <1>2, <1>3, <1>4, <1>5, <1>6 DEF Next

(* RAM stays sound and memory_size covers it.                              *)
LEMMA RamStep == ASSUME IInv, Next PROVE Sound(ram') /\ MemorySizeCovers'
<1>1. ASSUME NEW k \in Key, MemoryDelete(k) PROVE Sound(ram') /\ MemorySizeCovers'
  BY <1>1, DeleteFromRam
<1>2. ASSUME NEW d \in Download, phase[d] \in {"open", "read"}, MemorySave(d)
      PROVE  Sound(ram') /\ MemorySizeCovers'
  <2>1. name[d] \in Key
    BY <1>2 DEF IInv, Downloads, Faithful
  <2> QED BY <1>2, <2>1, SaveToRam
<1>3. ASSUME NEW k, ram' = CacheGet(ram, k), UNCHANGED memory_size
      PROVE  Sound(ram') /\ MemorySizeCovers'
  BY <1>3, ReadFromRam
<1>4. CASE UNCHANGED ramVars
  BY <1>4 DEF IInv, ramVars, MemorySizeCovers
<1>5. CASE ram' = EmptyCache /\ memory_size' = 0
  BY <1>5, EmptyIs DEF Sound, MemorySizeCovers
<1> QED BY <1>1, <1>2, <1>3, <1>4, <1>5, RamSteps

(* What a step does not touch of the disk keeps what is known of it.       *)
LEMMA DiskKept ==
  ASSUME IInv, UNCHANGED <<visible, committing, renames, announced, cut>>
  PROVE  Disk'
  BY DEF IInv, Disk, Unsettled

(* What lies under a settled name is of the last announced upload.         *)
LEMMA DiskSteps == ASSUME IInv, Next PROVE Disk'
<1> USE DEF IInv
<1>0. /\ \A k \in Key : committing[k] \in Version /\ announced[k] \in Version
      /\ latest \in Nat
  BY ReadAssumption DEF TypeOK, Version
<1>1. ASSUME NEW k \in Key, NEW n \in Length, Commit(k, n) PROVE Disk'
  <2>1. /\ committing' = [committing EXCEPT ![k] = latest'] /\ latest' # 0
        /\ renames' = [renames EXCEPT ![k] = Part] /\ cut' = cut \ {k}
        /\ UNCHANGED <<visible, announced>>
    BY <1>0, <1>1 DEF Commit
  <2>2. committing'[k] # 0 /\ renames'[k] = Part /\ k \notin cut'
    BY <2>1 DEF TypeOK
  <2>3. \A x \in Key \ {k} : /\ committing'[x] = committing[x] /\ renames'[x] = renames[x]
                             /\ x \in cut' <=> x \in cut
    BY <2>1 DEF TypeOK
  <2> QED BY <2>1, <2>2, <2>3 DEF Disk, Unsettled
<1>2. ASSUME NEW k \in Key, NEW p \in Part, NEW fails \in BOOLEAN, Rename(k, p, fails)
      PROVE  Disk'
  <2>1. /\ p \in renames[k] /\ committing[k] # 0
        /\ renames' = [renames EXCEPT ![k] = renames[k] \ {p}]
        /\ UNCHANGED announced
    BY <1>2 DEF Rename, Disk
  <2>2. renames'[k] = renames[k] \ {p} /\ \A x \in Key \ {k} : renames'[x] = renames[x]
    BY <2>1 DEF TypeOK
  <2>3. \A x \in Key \ {k} : /\ visible'[x] = visible[x] /\ committing'[x] = committing[x]
                             /\ x \in cut' <=> x \in cut
    <3>1. \A x \in Key \ {k} : visible'[x] = visible[x]
      <4>1. CASE visible' = visible
        BY <4>1
      <4>2. CASE visible' = [visible EXCEPT ![k][p] = committing[k]]
        BY <1>0, <4>2, FileTypes
      <4> QED BY <1>2, <4>1, <4>2 DEF Rename
    <3> QED BY <1>2, <3>1 DEF Rename, TypeOK
  <2>4. CASE k \in cut'
    <3>1. committing'[k] = 0 \/ renames'[k] # {}
      BY <1>2, <2>4 DEF Rename, TypeOK
    <3>2. committing'[k] = 0 => renames'[k] = {}
      BY <1>2, <2>1 DEF Rename, TypeOK
    <3> QED BY <2>1, <2>2, <2>3, <2>4, <3>1, <3>2 DEF Disk, Unsettled
  <2>5. CASE k \notin cut'
    <3>1. /\ k \notin cut /\ visible' = [visible EXCEPT ![k][p] = committing[k]]
          /\ committing'[k] = committing[k]
      BY <1>2, <2>5 DEF Rename
    <3>2. visible'[k][p] = committing[k]
          /\ \A q \in Part \ {p} : visible'[k][q] = visible[k][q]
      BY <1>0, <3>1, FileTypes
    <3>3. \A q \in Part \ renames'[k] : visible'[k][q] \in {0, committing'[k]}
      BY <2>1, <2>2, <3>1, <3>2 DEF Disk
    <3> QED BY <2>1, <2>3, <2>2, <2>5, <3>1, <3>3 DEF Disk, Unsettled
  <2> QED BY <2>4, <2>5
<1>3. ASSUME NEW k \in Key, Announce(k) PROVE Disk'
  <2>1. /\ committing[k] # 0 /\ renames[k] = {}
        /\ announced' = [announced EXCEPT ![k] = committing[k]]
        /\ committing' = [committing EXCEPT ![k] = 0] /\ UNCHANGED <<visible, renames, cut>>
    BY <1>3 DEF Announce, Renamed
  <2>2. /\ announced'[k] = committing[k] /\ committing'[k] = 0
        /\ \A x \in Key \ {k} : announced'[x] = announced[x] /\ committing'[x] = committing[x]
    BY <2>1 DEF TypeOK
  <2>3. \A q \in Part : visible[k][q] \in {0, committing[k]}
    BY <2>1 DEF Disk
  <2> QED BY <2>1, <2>2, <2>3 DEF Disk, Unsettled
<1>4. ASSUME NEW k \in Key, Refuse(k) PROVE Disk'
  <2>1. /\ renames[k] = {} /\ committing' = [committing EXCEPT ![k] = 0]
        /\ cut' = cut \cup {k} /\ UNCHANGED <<visible, announced, renames>>
    BY <1>4 DEF Refuse, Renamed
  <2>2. committing'[k] = 0 /\ \A x \in Key \ {k} : committing'[x] = committing[x]
    BY <2>1 DEF TypeOK
  <2> QED BY <2>1, <2>2 DEF Disk, Unsettled
<1>5. ASSUME NEW k \in Key, NEW p \in Part, DiskUnlink(k, p) PROVE Disk'
  <2>1. /\ visible' = [visible EXCEPT ![k][p] = 0]
        /\ UNCHANGED <<committing, renames, announced, cut>>
    BY <1>5 DEF DiskUnlink
  <2>2. /\ visible'[k][p] = 0 /\ \A q \in Part \ {p} : visible'[k][q] = visible[k][q]
        /\ \A x \in Key \ {k} : visible'[x] = visible[x]
    <3>1. 0 \in Version
      BY ReadAssumption DEF Version
    <3> QED BY <2>1, <3>1, FileTypes
  <2>3. \A x \in Key, q \in Part : visible'[x][q] \in {0, visible[x][q]}
    BY <2>2
  <2> QED BY <2>1, <2>3 DEF Disk, Unsettled
<1>6. CASE Restart
  <2>1. /\ committing' = [k \in Key |-> 0] /\ renames' = [k \in Key |-> {}]
        /\ cut' = {k \in Key : Mixed(k)} /\ visible' = visible
        /\ announced' = [k \in Key |-> IF \E p \in Part : visible[k][p] # 0
                                       THEN Max({visible[k][p] : p \in Part})
                                       ELSE announced[k]]
    BY <1>6 DEF Restart
  <2>2. ASSUME NEW k \in Key, k \notin cut', NEW p \in Part
        PROVE  visible'[k][p] \in {0, announced'[k]}
    <3>1. visible[k][p] = 0 \/ visible[k][p] = Max({visible[k][q] : q \in Part})
      BY <2>1, <2>2, Greatest
    <3> QED BY <2>1, <3>1
  <2> QED BY <2>1, <2>2 DEF Disk, Unsettled
<1>7. ASSUME NEW k \in Key, DiskRemove(k) \/ RamExpire(k) PROVE Disk'
  BY <1>7, DiskKept DEF DiskRemove, RamExpire, diskVars
<1>8. ASSUME NEW d \in Download,
             \/ \E k \in Key : GetFileData(d, k)
             \/ \E requested \in Requested : EmitFileChunks(d, requested)
             \/ ServeStep(d)
      PROVE  Disk'
  <2>1. UNCHANGED diskVars
    BY <1>8 DEF GetFileData, EmitFileChunks, EmitRefused, EmitFromRam, EmitFromDisk,
                ServeStep, LoadStat, LoadMetadata, Open, ReadChunk, ReadEnd, ReadFails, Ages
  <2> QED BY <2>1, DiskKept DEF diskVars
<1>9. CASE GarbageCollection
  BY <1>9, DiskKept DEF GarbageCollection, diskVars
<1> QED BY <1>1, <1>2, <1>3, <1>4, <1>5, <1>6, <1>7, <1>8, <1>9 DEF Next, DiskStep

(* A step of the disk leaves the names of the downloads that are not late  *)
(* settled: a commit makes those late that it overlaps.                    *)
LEMMA DownloadsUnderDisk ==
  ASSUME IInv, DiskStep
  PROVE  Downloads'
<1>1. UNCHANGED <<phase, name, info, rfd, head>> /\ late \subseteq late'
  BY DEF DiskStep, Commit, Rename, Announce, Refuse, DiskRemove, DiskUnlink, RamExpire,
         downloadVars
<1> SUFFICES ASSUME NEW d \in Download, d \notin late',
                    phase[d] \in {"load", "describe", "known", "open", "read"}
             PROVE  ~ Unsettled(name[d])' /\ announced'[name[d]] = announced[name[d]]
  BY <1>1 DEF IInv, Downloads, Faithful, Unsettled
<1>2. name[d] \in Key /\ d \notin late /\ ~ Unsettled(name[d])
  BY <1>1 DEF IInv, Downloads, Faithful
<1>3. committing[name[d]] = 0 /\ renames[name[d]] = {} /\ name[d] \notin cut
  BY <1>2 DEF Unsettled, IInv, Disk
<1>4. ASSUME NEW k \in Key, k = name[d] => UNCHANGED <<committing, announced, cut>>,
             \A x \in Key \ {k} : /\ committing'[x] = committing[x]
                                  /\ announced'[x] = announced[x] /\ (x \in cut' <=> x \in cut)
      PROVE  ~ Unsettled(name[d])' /\ announced'[name[d]] = announced[name[d]]
  BY <1>1, <1>2, <1>3, <1>4 DEF Unsettled
<1>5. ASSUME NEW k \in Key, NEW n \in Length, Commit(k, n)
      PROVE  ~ Unsettled(name[d])' /\ announced'[name[d]] = announced[name[d]]
  <2>1. name[d] # k
    BY <1>5 DEF Commit, Active
  <2> QED BY <1>4, <1>5, <2>1 DEF Commit, IInv, TypeOK
<1>6. ASSUME NEW k \in Key, NEW p \in Part, NEW fails \in BOOLEAN, Rename(k, p, fails)
      PROVE  ~ Unsettled(name[d])' /\ announced'[name[d]] = announced[name[d]]
  <2>1. name[d] # k
    BY <1>3, <1>6 DEF Rename
  <2> QED BY <1>4, <1>6, <2>1 DEF Rename, IInv, TypeOK
<1>7. ASSUME NEW k \in Key, Announce(k) \/ Refuse(k)
      PROVE  ~ Unsettled(name[d])' /\ announced'[name[d]] = announced[name[d]]
  <2>1. name[d] # k
    BY <1>3, <1>7 DEF Announce, Refuse
  <2>2. \A x \in Key \ {k} : /\ committing'[x] = committing[x]
                             /\ announced'[x] = announced[x] /\ (x \in cut' <=> x \in cut)
    BY <1>7 DEF Announce, Refuse, IInv, TypeOK
  <2> QED BY <1>4, <2>1, <2>2
<1>8. ASSUME UNCHANGED <<committing, announced, cut>>
      PROVE  ~ Unsettled(name[d])' /\ announced'[name[d]] = announced[name[d]]
  BY <1>1, <1>2, <1>8 DEF Unsettled
<1>9. ASSUME NEW k \in Key, DiskRemove(k) \/ RamExpire(k) \/ \E p \in Part : DiskUnlink(k, p)
      PROVE  UNCHANGED <<committing, announced, cut>>
  BY <1>9 DEF DiskRemove, RamExpire, DiskUnlink, diskVars
<1> QED BY <1>5, <1>6, <1>7, <1>8, <1>9 DEF DiskStep

(* The death of the process leaves none of them that is not over.          *)
LEMMA DownloadsUnderRestart == ASSUME IInv, Restart PROVE Downloads'
<1> SUFFICES ASSUME NEW d \in Download
             PROVE  /\ phase'[d] # "idle" => name'[d] \in Key
                    /\ head'[d] = 0
                    /\ phase'[d] \notin {"load", "describe", "known", "open", "read"}
                    /\ d \notin late' /\ phase'[d] = "done" => rfd'[d] = info'[d].version
  BY DEF Downloads, Faithful
<1>1. /\ phase'[d] = IF phase[d] \in {"idle", "absent", "done"} THEN phase[d] ELSE "failed"
      /\ head'[d] = 0 /\ name' = name /\ late' = {e \in late : phase[e] = "done"}
      /\ phase[d] = "done" => info'[d] = info[d] /\ rfd'[d] = rfd[d]
  BY DEF Restart
<1>2. /\ phase[d] # "idle" => name[d] \in Key
      /\ d \notin late /\ phase[d] = "done" => rfd[d] = info[d].version
  BY DEF IInv, Downloads, Faithful
<1> QED BY <1>1, <1>2

(* A step of one download on a disk that stays as it is                    *)
LEMMA OthersStay ==
  ASSUME IInv, NEW d \in Download, UNCHANGED <<committing, cut, announced>>,
         late \subseteq late',
         \A e \in Download \ {d} :
           /\ phase'[e] = phase[e] /\ name'[e] = name[e] /\ info'[e] = info[e]
           /\ rfd'[e] = rfd[e] /\ head'[e] = head[e],
         Faithful(d)'
  PROVE  Downloads'
<1> SUFFICES ASSUME NEW e \in Download \ {d} PROVE Faithful(e)'
  BY DEF Downloads
<1>1. Faithful(e)
  BY DEF IInv, Downloads
<1> QED BY <1>1 DEF Faithful, Unsettled

(* The requests of a download: what it is given from RAM is of the last    *)
(* announced upload, and its name is settled, unless it is late from then  *)
(* on.                                                                     *)
LEMMA DownloadsUnderRequests ==
  ASSUME IInv, NEW d \in Download,
         \/ \E k \in Key : GetFileData(d, k)
         \/ \E requested \in Requested : EmitFileChunks(d, requested)
  PROVE  Downloads'
<1> USE DEF IInv
<1>0. Faithful(d) /\ Cached(ram) \in SUBSET Key
  BY Fields DEF Sound, Downloads
<1>1. ASSUME NEW k \in Cached(ram), ~ copy[k].late
      PROVE  copy[k].metadata = announced[k] /\ copy[k].content = announced[k]
  BY <1>1 DEF Copies
<1>3. ASSUME NEW k \in Key, GetFileData(d, k) PROVE Downloads'
  <2>1. /\ phase[d] = "idle" /\ name' = [name EXCEPT ![d] = k]
        /\ UNCHANGED <<committing, cut, announced, rfd, head>>
    BY <1>3 DEF GetFileData, diskVars
  <2>2. name'[d] = k /\ head'[d] = 0
    BY <1>0, <2>1 DEF TypeOK, Faithful
  <2>3. CASE k \in Cached(ram)
    <3>1. /\ phase' = [phase EXCEPT ![d] = "known"]
          /\ info' = [info EXCEPT ![d] = [version |-> copy[k].metadata, size |-> ram.size[k]]]
          /\ Joins(d, Unsettled(k) \/ copy[k].late)
      BY <1>3, <2>3 DEF GetFileData, To
    <3>2. phase'[d] = "known" /\ info'[d].version = copy[k].metadata
      BY <3>1 DEF TypeOK
    <3>3. /\ late \subseteq late'
          /\ d \notin late' => ~ Unsettled(k) /\ ~ copy[k].late
      BY <3>1 DEF Joins
    <3>4. Faithful(d)'
      BY <1>1, <2>1, <2>2, <2>3, <3>2, <3>3 DEF Faithful, Unsettled
    <3>5. \A e \in Download \ {d} :
            /\ phase'[e] = phase[e] /\ name'[e] = name[e] /\ info'[e] = info[e]
            /\ rfd'[e] = rfd[e] /\ head'[e] = head[e]
      BY <2>1, <3>1 DEF TypeOK
    <3> QED BY <2>1, <3>3, <3>4, <3>5, OthersStay
  <2>4. CASE k \notin Cached(ram)
    <3>1. /\ phase' = [phase EXCEPT ![d] = IF k \in indexed THEN "load" ELSE "absent"]
          /\ Joins(d, Unsettled(k)) /\ UNCHANGED info
      BY <1>3, <2>4 DEF GetFileData, To
    <3>2. phase'[d] \in {"load", "absent"}
      BY <3>1 DEF TypeOK
    <3>3. late \subseteq late' /\ (d \notin late' => ~ Unsettled(k))
      BY <3>1 DEF Joins
    <3>4. Faithful(d)'
      BY <2>1, <2>2, <3>2, <3>3 DEF Faithful, Unsettled
    <3>5. \A e \in Download \ {d} :
            /\ phase'[e] = phase[e] /\ name'[e] = name[e] /\ info'[e] = info[e]
            /\ rfd'[e] = rfd[e] /\ head'[e] = head[e]
      BY <2>1, <3>1 DEF TypeOK
    <3>6. late \subseteq late'
      BY <3>1 DEF Joins
    <3> QED BY <2>1, <3>4, <3>5, <3>6, OthersStay
  <2> QED BY <2>3, <2>4
<1>4. ASSUME NEW p \in {"open", "failed"}, phase[d] = "known",
             phase' = [phase EXCEPT ![d] = p], UNCHANGED <<diskVars, name, info, rfd, head, late>>
      PROVE  Downloads'
  <2>1. phase'[d] = p /\ \A e \in Download \ {d} : phase'[e] = phase[e]
    BY <1>4 DEF TypeOK
  <2>2. Faithful(d)'
    BY <1>0, <1>4, <2>1 DEF Faithful, Unsettled, diskVars
  <2> QED BY <1>4, <2>1, <2>2, OthersStay DEF diskVars
<1>5. ASSUME EmitFromRam(d) PROVE Downloads'
  <2>1. /\ phase[d] = "known" /\ name[d] \in Cached(ram)
        /\ rfd' = [rfd EXCEPT ![d] = copy[name[d]].content]
        /\ phase' = [phase EXCEPT ![d] = "done"]
        /\ Joins(d, copy[name[d]].late)
        /\ UNCHANGED <<committing, cut, announced, name, info, head>>
    BY <1>5 DEF EmitFromRam, To, diskVars
  <2>2. phase'[d] = "done" /\ rfd'[d] = copy[name[d]].content
    BY <2>1 DEF TypeOK
  <2>3. \A e \in Download \ {d} : phase'[e] = phase[e] /\ rfd'[e] = rfd[e]
    BY <2>1 DEF TypeOK
  <2>4. late \subseteq late' /\ (d \notin late' => d \notin late /\ ~ copy[name[d]].late)
    BY <2>1 DEF Joins
  <2>5. Faithful(d)'
    BY <1>0, <1>1, <2>1, <2>2, <2>4 DEF Faithful
  <2> QED BY <2>1, <2>3, <2>4, <2>5, OthersStay
<1>6. ASSUME EmitRefused(d) PROVE Downloads'
  BY <1>4, <1>6 DEF EmitRefused, To
<1>7. ASSUME NEW requested \in Requested, EmitFromDisk(d, requested) PROVE Downloads'
  BY <1>4, <1>7 DEF EmitFromDisk, To
<1> QED BY <1>3, <1>5, <1>6, <1>7 DEF EmitFileChunks

(* What serves it: under a settled name lies the last announced upload,    *)
(* and a file that is open is read to its end.                             *)
LEMMA DownloadsUnderServe ==
  ASSUME IInv, NEW d \in Download, ServeStep(d)
  PROVE  Downloads'
<1> USE DEF IInv
<1>0. Faithful(d)
  BY DEF Downloads
<1>1. ASSUME phase[d] \in {"describe", "open"}, d \notin late, NEW p \in Part,
             visible[name[d]][p] # 0
      PROVE  visible[name[d]][p] = announced[name[d]]
  BY <1>0, <1>1 DEF Faithful, Disk
<1>2. ASSUME NEW p \in {"describe", "known", "read", "done", "failed"}, phase[d] # "idle",
             phase' = [phase EXCEPT ![d] = p], UNCHANGED <<diskVars, name, head, late>>,
             \A e \in Download \ {d} : info'[e] = info[e] /\ rfd'[e] = rfd[e],
             p \in {"describe", "known"} => head[d] = 0,
             d \notin late =>
               /\ p \in {"describe", "known", "read"} => ~ Unsettled(name[d])
               /\ p \in {"known", "read"} => info'[d].version = announced[name[d]]
               /\ p = "read" => rfd'[d] = announced[name[d]]
               /\ p = "done" => rfd'[d] = info'[d].version
      PROVE  Downloads'
  <2>1. phase'[d] = p /\ \A e \in Download \ {d} : phase'[e] = phase[e]
    BY <1>2 DEF TypeOK
  <2>2. Faithful(d)'
    BY <1>0, <1>2, <2>1 DEF Faithful, Unsettled, diskVars
  <2> QED BY <1>2, <2>1, <2>2, OthersStay DEF diskVars
<1>3. ASSUME LoadStat(d) PROVE Downloads'
  <2>1. PICK p \in {"describe", "failed"} : phase' = [phase EXCEPT ![d] = p]
    BY <1>3 DEF LoadStat, To
  <2>2. /\ phase[d] = "load" /\ UNCHANGED <<diskVars, name, rfd, head, late>>
        /\ \A e \in Download \ {d} : info'[e] = info[e]
    BY <1>3 DEF LoadStat, TypeOK
  <2> QED BY <1>0, <1>2, <2>1, <2>2 DEF Faithful
<1>4. ASSUME LoadMetadata(d) PROVE Downloads'
  <2>1. /\ phase[d] = "describe" /\ phase' = [phase EXCEPT ![d] = "known"]
        /\ visible[name[d]]["metadata"] # 0
        /\ info' = [info EXCEPT ![d].version = visible[name[d]]["metadata"]]
        /\ UNCHANGED <<diskVars, name, rfd, head, late>>
    BY <1>4 DEF LoadMetadata, To
  <2>2. info'[d].version = visible[name[d]]["metadata"]
        /\ \A e \in Download \ {d} : info'[e] = info[e]
    BY <2>1 DEF TypeOK
  <2>3. d \notin late => info'[d].version = announced[name[d]]
    BY <1>1, <2>1, <2>2 DEF Part
  <2> QED BY <1>0, <1>2, <2>1, <2>2, <2>3 DEF Faithful
<1>5. ASSUME Open(d) PROVE Downloads'
  <2>1. /\ phase[d] = "open" /\ rfd' = [rfd EXCEPT ![d] = visible[name[d]]["bin"]]
        /\ phase' = [phase EXCEPT ![d] = IF visible[name[d]]["bin"] = 0 THEN "failed"
                                                                       ELSE "read"]
        /\ UNCHANGED <<diskVars, name, info, head, late>>
    BY <1>5 DEF Open, To
  <2>2. rfd'[d] = visible[name[d]]["bin"] /\ \A e \in Download \ {d} : rfd'[e] = rfd[e]
    BY <2>1 DEF TypeOK
  <2>3. CASE visible[name[d]]["bin"] = 0
    BY <1>2, <2>1, <2>2, <2>3
  <2>4. CASE visible[name[d]]["bin"] # 0
    <3>1. d \notin late => rfd'[d] = announced[name[d]]
      BY <1>1, <2>1, <2>2, <2>4 DEF Part
    <3> QED BY <1>0, <1>2, <2>1, <2>2, <2>4, <3>1 DEF Faithful
  <2> QED BY <2>3, <2>4
<1>6. ASSUME ReadChunk(d) PROVE Downloads'
  <2>1. /\ phase[d] = "read" /\ \A e \in Download \ {d} : head'[e] = head[e]
        /\ UNCHANGED <<diskVars, phase, name, info, rfd, late>>
    BY <1>6 DEF ReadChunk, TypeOK
  <2>2. Faithful(d)'
    BY <1>0, <2>1 DEF Faithful, Unsettled, diskVars
  <2> QED BY <2>1, <2>2, OthersStay DEF diskVars
<1>7. ASSUME NEW timedOut \in BOOLEAN, ReadEnd(d) \/ ReadFails(d, timedOut) PROVE Downloads'
  <2>1. PICK p \in {"done", "failed"} : /\ phase' = [phase EXCEPT ![d] = p]
                                        /\ p = "done" => phase[d] = "read"
    BY <1>7 DEF ReadEnd, ReadFails, To
  <2>2. phase[d] \in {"open", "read"} /\ UNCHANGED <<diskVars, name, info, rfd, head, late>>
    BY <1>7 DEF ReadEnd, ReadFails, Timed
  <2> QED BY <1>0, <1>2, <2>1, <2>2 DEF Faithful
<1>8. ASSUME Ages(d) PROVE Downloads'
  <2>1. UNCHANGED <<diskVars, phase, name, info, rfd, head, late>>
    BY <1>8 DEF Ages, downloadVars
  <2>2. Faithful(d)'
    BY <1>0, <2>1 DEF Faithful, Unsettled, diskVars
  <2> QED BY <2>1, <2>2, OthersStay DEF diskVars
<1> QED BY <1>3, <1>4, <1>5, <1>6, <1>7, <1>8 DEF ServeStep

(* Every step                                                              *)
LEMMA DownloadsStep == ASSUME IInv, Next PROVE Downloads'
<1>1. CASE GarbageCollection
  BY <1>1 DEF GarbageCollection, IInv, Downloads, Faithful, Unsettled, diskVars, downloadVars
<1> QED BY <1>1, DownloadsUnderDisk, DownloadsUnderRestart, DownloadsUnderRequests,
           DownloadsUnderServe DEF Next

(* A copy that a download saves is of the last announced upload, unless    *)
(* the download is late; 'new_item' deletes the copy there is.             *)
LEMMA CopiesStep == ASSUME IInv, Next PROVE Copies'
<1> USE DEF IInv
<1>0. Cached(ram) \in SUBSET Key
  BY Fields DEF Sound
<1>1. ASSUME UNCHANGED <<copy, announced>>, Cached(ram') \subseteq Cached(ram)
      PROVE  Copies'
  BY <1>1 DEF Copies
<1>2. ASSUME NEW k \in Key,
             \/ \E n \in Length : Commit(k, n)
             \/ \E p \in Part, fails \in BOOLEAN : Rename(k, p, fails)
             \/ Refuse(k) \/ DiskRemove(k) \/ \E p \in Part : DiskUnlink(k, p)
      PROVE  Copies'
  <2>1. UNCHANGED <<copy, ram, announced>>
    BY <1>2 DEF Commit, Rename, Refuse, DiskRemove, DiskUnlink, ramVars
  <2> QED BY <1>1, <2>1
<1>3. ASSUME NEW k \in Key, Announce(k) PROVE Copies'
  <2>1. /\ announced' = [announced EXCEPT ![k] = committing[k]]
        /\ UNCHANGED copy /\ MemoryDelete(k)
    BY <1>3 DEF Announce, Invalidate
  <2>2. Cached(ram') = Cached(ram) \ {k}
    BY <2>1, DeleteFromRam
  <2>3. \A x \in Key \ {k} : announced'[x] = announced[x]
    BY <2>1 DEF TypeOK
  <2> QED BY <1>0, <2>1, <2>2, <2>3 DEF Copies
<1>5. ASSUME NEW k \in Key, RamExpire(k) PROVE Copies'
  <2>1. MemoryDelete(k) /\ UNCHANGED <<copy, announced>>
    BY <1>5 DEF RamExpire, diskVars
  <2> QED BY <1>1, <2>1, DeleteFromRam
<1>6. ASSUME NEW d \in Download, phase[d] \in {"open", "read"}, MemorySave(d),
             UNCHANGED <<diskVars, late>>
      PROVE  Copies'
  <2> DEFINE k == name[d]
             made == [content |-> rfd[d], metadata |-> info[d].version, late |-> d \in late]
  <2>1. k \in Key /\ UNCHANGED announced
    BY <1>6 DEF Downloads, Faithful, diskVars
  <2>2. CASE UNCHANGED ramVars
    BY <1>1, <2>1, <2>2 DEF ramVars
  <2>3. CASE /\ head[d] # 0 /\ Cached(ram') \subseteq Cached(ram) \cup {k}
             /\ copy' = [copy EXCEPT ![k] = made]
    <3>1. phase[d] = "read"
      BY <1>6, <2>3 DEF Downloads, Faithful
    <3>2. d \notin late => rfd[d] = announced[k] /\ info[d].version = announced[k]
      BY <3>1 DEF Downloads, Faithful
    <3>3. /\ copy'[k].late = (d \in late) /\ copy'[k].content = rfd[d]
          /\ copy'[k].metadata = info[d].version
          /\ \A x \in Key \ {k} : copy'[x] = copy[x]
      BY <2>1, <2>3 DEF TypeOK
    <3>4. ~ copy'[k].late
            => copy'[k].content = announced'[k] /\ copy'[k].metadata = announced'[k]
      BY <2>1, <3>2, <3>3
    <3> HIDE DEF k, made
    <3> QED BY <1>0, <2>1, <2>3, <3>3, <3>4 DEF Copies
  <2>4. \/ UNCHANGED ramVars
        \/ /\ head[d] # 0 /\ Cached(ram') \subseteq Cached(ram) \cup {k}
           /\ copy' = [copy EXCEPT ![k] = made]
    BY <1>6, <2>1, SaveToRam
  <2> QED BY <2>2, <2>3, <2>4
<1>7. ASSUME NEW k, ram' = CacheGet(ram, k), UNCHANGED <<copy, memory_size, diskVars>>
      PROVE  Copies'
  <2>1. Cached(ram') = Cached(ram)
    BY <1>7, ReadFromRam
  <2> QED BY <1>1, <1>7, <2>1 DEF diskVars
<1>8. CASE DiskStep
  BY <1>2, <1>3, <1>5, <1>8 DEF DiskStep
<1>9. ASSUME UNCHANGED <<diskVars, ramVars>> PROVE Copies'
  BY <1>1, <1>9 DEF diskVars, ramVars
<1>10. ASSUME NEW d \in Download, NEW k \in Key, GetFileData(d, k) PROVE Copies'
  BY <1>7, <1>9, <1>10 DEF GetFileData, ramVars
<1>11. ASSUME NEW d \in Download, NEW requested \in Requested, EmitFileChunks(d, requested)
       PROVE  Copies'
  BY <1>7, <1>9, <1>11 DEF EmitFileChunks, EmitRefused, EmitFromRam, EmitFromDisk
<1>12. ASSUME NEW d \in Download, ServeStep(d) PROVE Copies'
  BY <1>6, <1>9, <1>12
     DEF ServeStep, LoadStat, LoadMetadata, Open, ReadChunk, ReadEnd, ReadFails, Timed, Ages
<1>13. CASE GarbageCollection
  BY <1>9, <1>13 DEF GarbageCollection
<1>14. CASE Restart
  BY <1>14, EmptyIs DEF Restart, Copies
<1> QED BY <1>8, <1>10, <1>11, <1>12, <1>13, <1>14 DEF Next

-----------------------------------------------------------------------------
(* The theorems                                                            *)

(* At the beginning nothing was uploaded, copied or asked for.             *)
LEMMA InitInv == Init => IInv
<1> SUFFICES ASSUME Init PROVE IInv
  OBVIOUS
<1> USE DEF Init
<1>1. Sound(ram) /\ Cached(ram) = {} /\ Used(ram) = 0 /\ ram \in CacheValue
  BY EmptyIs DEF Sound
<1>2. 0 \in Version /\ Version \subseteq Nat
  BY ReadAssumption DEF Version
<1>3. NoCopy \in [content: Version, metadata: Version, late: BOOLEAN]
  BY <1>2 DEF NoCopy
<1>4. NoInfo \in [version: Version, size: Nat]
  BY <1>2 DEF NoInfo
<1>5. TypeOK
  BY <1>1, <1>2, <1>3, <1>4 DEF TypeOK
<1>6. MemorySizeCovers /\ Disk /\ Copies /\ Downloads
  BY <1>1 DEF MemorySizeCovers, Disk, Copies, Downloads, Faithful, Unsettled
<1> QED BY <1>1, <1>5, <1>6 DEF IInv

(* Steps that change nothing                                               *)
LEMMA StutterInv == ASSUME IInv, UNCHANGED vars PROVE IInv'
<1>1. TypeOK' /\ Sound(ram') /\ MemorySizeCovers' /\ Copies'
  BY DEF IInv, TypeOK, MemorySizeCovers, Copies, vars, diskVars, ramVars, downloadVars
<1>2. Disk'
  BY DiskKept DEF vars, diskVars
<1>3. Downloads'
  BY DEF IInv, Downloads, Faithful, Unsettled, vars, diskVars, downloadVars
<1> QED BY <1>1, <1>2, <1>3 DEF IInv

(* Every step of the service and of its clients keeps the invariant.       *)
LEMMA NextInv == ASSUME IInv, Next PROVE IInv'
  BY NextTypes, RamStep, DiskSteps, CopiesStep, DownloadsStep DEF IInv

(* So it holds always.                                                     *)
THEOREM Invariance == Spec => []IInv
<1>1. IInv /\ [Next]_vars => IInv'
  BY NextInv, StutterInv
<1> QED BY <1>1, InitInv, PTL DEF Spec

(* Every variable stays within its type.                                   *)
THEOREM TypesKept == Spec => []TypeOK
<1>1. IInv => TypeOK
  BY DEF IInv
<1> QED BY <1>1, Invariance, PTL

(* What is served from RAM is of the last announced upload, unless the     *)
(* copy was made by a late download.                                       *)
THEOREM CopiesAreFresh == Spec => []FreshUnlessLate
<1>1. ASSUME IInv PROVE FreshUnlessLate
  <2> SUFFICES ASSUME NEW k \in Cached(ram), ~ copy[k].late
               PROVE  ~ (copy[k].content < announced[k] \/ copy[k].metadata < announced[k])
    BY DEF FreshUnlessLate
  <2>1. k \in Key
    BY <1>1, Fields DEF IInv, Sound
  <2>2. copy[k].content = announced[k] /\ copy[k].metadata = announced[k]
    BY <1>1 DEF IInv, Copies
  <2>3. announced[k] \in Nat
    BY <1>1, <2>1, ReadAssumption DEF IInv, TypeOK, Version
  <2> QED BY <2>2, <2>3
<1> QED BY <1>1, Invariance, PTL

(* The bytes of a download are of the upload whose metadata it was told,   *)
(* wherever each came from, although the two files of a name are renamed,  *)
(* removed and read one after the other and the process may die between    *)
(* two steps, unless a commit of the name overlapped the download or the   *)
(* last one was cut.                                                       *)
THEOREM ChunksAreOfData == Spec => []ChunksMatchData
<1>1. IInv => ChunksMatchData
  BY DEF IInv, Downloads, Faithful, ChunksMatchData
<1> QED BY <1>1, Invariance, PTL

(* memory_size covers what RAM holds, whatever is saved, overwritten,      *)
(* evicted, expired or deleted.                                            *)
THEOREM MemorySizeSuffices == Spec => []MemorySizeCovers
<1>1. IInv => MemorySizeCovers
  BY DEF IInv
<1> QED BY <1>1, Invariance, PTL

-----------------------------------------------------------------------------
(* The downloadFile helper.  A step of its calls is one of the service or  *)
(* leaves it alone.  What a helper was answered so far, received or not,   *)
(* is its log: while its call is open the chunks in the log add up to what *)
(* was sent, and a file is announced in the first message or not at all    *)
(* (Consistent); once the call is closed nothing is added (Finished).      *)

Answer == {"file", "no file", "completed_data", "chunk", "completed_chunks", "error"}

Msg == [type : Answer, bytes : Nat]

Holds(s, type) == \E i \in DOMAIN s : s[i].type = type

Sizes(s) == [i \in 1..Len(s) |-> s[i].bytes]

Bytes(s) == SumFunctionOnSet(Sizes(s), 1..Len(s))

Log(d) == downloadedMessages[d] \o messages[d]

\* The log of an open call, whose download is in phase p and has sent n bytes
Consistent(log, p, n) ==
  /\ log \in Seq(Msg) /\ Bytes(log) = n
  /\ Holds(log, "file") => log[1].type = "file"
  /\ Holds(log, "completed_chunks") => p = "done"
  /\ p \in {"idle", "load", "describe"} => log = <<>>

\* The log of a closed call
Finished(log, p, n) ==
  /\ log \in Seq(Msg)
  /\ Holds(log, "file") => p = "done" /\ Bytes(log) = n

\* What a step may do to a download: the phases it runs through, and when it sends.
Move(p, n, p2, n2) ==
  \/ p2 = p /\ n2 = n
  \/ p2 = p /\ p = "read" /\ n2 >= n
  \/ p = "known" /\ p2 = "done" /\ n2 >= n
  \/ n2 = n /\ <<p, p2>> \in {<<"idle", "known">>, <<"idle", "load">>, <<"idle", "absent">>,
                              <<"load", "describe">>, <<"load", "failed">>,
                              <<"describe", "known">>, <<"describe", "failed">>,
                              <<"known", "open">>, <<"known", "failed">>,
                              <<"open", "read">>, <<"open", "failed">>,
                              <<"read", "done">>, <<"read", "failed">>}

Unsent ==
  \A d \in Download :
    phase[d] \in {"idle", "load", "describe", "absent", "known", "open"} => sent[d] = 0

Logs ==
  \A d \in Helper :
    /\ downloadedMessages[d] \in Seq(Msg) /\ messages[d] \in Seq(Msg)
    /\ d \notin closed => Consistent(Log(d), phase[d], sent[d])
    /\ d \in closed => Finished(Log(d), phase[d], sent[d])

\* The two variables are functions on the helpers.
Channels == DOMAIN messages = Helper /\ DOMAIN downloadedMessages = Helper

ClientInv == IInv /\ Unsent /\ Channels /\ Logs

(* The fold over the messages takes the same elements in the same order.   *)
LEMMA FoldIsBytes ==
  ASSUME NEW s \in Seq(Msg)
  PROVE  FoldSeq(LAMBDA m, n : m.bytes + n, 0, s) = Bytes(s)
<1>1. DOMAIN s = 1..Len(s)
  OBVIOUS
<1> QED BY <1>1, ZenonT(90)
           DEF FoldSeq, FoldFunction, FoldFunctionOnSet, MapThenFoldSet,
               SumFunctionOnSet, Bytes, Sizes

(* A message more adds its bytes.                                          *)
LEMMA BytesAppended ==
  ASSUME NEW s \in Seq(Msg), NEW m \in Msg
  PROVE  /\ Append(s, m) \in Seq(Msg)
         /\ Bytes(s) \in Nat /\ Bytes(Append(s, m)) = Bytes(s) + m.bytes
         /\ \A type : Holds(Append(s, m), type) <=> Holds(s, type) \/ m.type = type
         /\ Append(s, m)[1] = IF s = <<>> THEN m ELSE s[1]
<1> DEFINE t == Append(s, m)
           n == Len(s)
<1>1. /\ t \in Seq(Msg) /\ n \in Nat /\ Len(t) = n + 1 /\ t[n + 1] = m
      /\ \A i \in 1..n : t[i] = s[i]
  OBVIOUS
<1>2. Holds(t, m.type) /\ \A type : Holds(s, type) => Holds(t, type)
  <2> HIDE DEF t
  <2> QED BY <1>1 DEF Holds
<1>3. ASSUME NEW type, Holds(t, type) PROVE Holds(s, type) \/ m.type = type
  <2>1. PICK i \in 1..n + 1 : t[i].type = type
    <3> HIDE DEF t
    <3> QED BY <1>1, <1>3 DEF Holds
  <2>2. CASE i = n + 1
    <3> HIDE DEF t
    <3> QED BY <1>1, <2>1, <2>2
  <2>3. CASE i # n + 1
    <3> HIDE DEF t
    <3> QED BY <1>1, <2>1, <2>3 DEF Holds
  <2> QED BY <2>2, <2>3
<1>4. t[1] = IF s = <<>> THEN m ELSE s[1]
  OBVIOUS
<1> HIDE DEF t
<1>5. /\ IsFiniteSet(1..n) /\ IsFiniteSet(1..n + 1)
      /\ \A i \in 1..n : Sizes(s)[i] \in Nat /\ Sizes(t)[i] = Sizes(s)[i]
      /\ Sizes(t)[n + 1] = m.bytes /\ \A i \in 1..n + 1 : Sizes(t)[i] \in Nat
  <2>1. IsFiniteSet(1..n) /\ IsFiniteSet(1..n + 1)
    BY <1>1, FS_Interval
  <2>2. \A i \in 1..n : Sizes(s)[i] = s[i].bytes /\ s[i].bytes \in Nat
    <3>1. \A i \in 1..n : s[i] \in Msg
      OBVIOUS
    <3>2. \A x \in Msg : x.bytes \in Nat
      BY DEF Msg
    <3>3. \A i \in 1..n : Sizes(s)[i] = s[i].bytes
      BY DEF Sizes
    <3> QED BY <3>1, <3>2, <3>3
  <2>3. \A i \in 1..n + 1 : Sizes(t)[i] = t[i].bytes
    BY <1>1 DEF Sizes
  <2>4. m.bytes \in Nat
    BY DEF Msg
  <2>5. \A i \in 1..n : Sizes(t)[i] = Sizes(s)[i]
    BY <1>1, <2>2, <2>3
  <2>6. Sizes(t)[n + 1] = m.bytes
    BY <1>1, <2>3
  <2>7. \A i \in 1..n + 1 : i \in 1..n \/ i = n + 1
    BY <1>1
  <2> QED BY <2>1, <2>2, <2>4, <2>5, <2>6, <2>7
<1>6. Bytes(s) \in Nat
  BY <1>5, SumOfSizes DEF Bytes
<1>7. SumFunctionOnSet(Sizes(t), 1..n) = Bytes(s)
  BY <1>5, SumOfSame DEF Bytes
<1>8. Bytes(t) = m.bytes + SumFunctionOnSet(Sizes(t), 1..n)
  <2>1. n + 1 \in 1..n + 1 /\ (1..n + 1) \ {n + 1} = 1..n
    BY <1>1
  <2>2. \A x \in 1..n + 1 : SumFunctionOnSet(Sizes(t), 1..n + 1)
                              = Sizes(t)[x] + SumFunctionOnSet(Sizes(t), (1..n + 1) \ {x})
    BY <1>5, SumWithout
  <2>3. SumFunctionOnSet(Sizes(t), 1..n + 1)
          = Sizes(t)[n + 1] + SumFunctionOnSet(Sizes(t), 1..n)
    BY <2>1, <2>2
  <2> QED BY <1>1, <1>5, <2>3 DEF Bytes
<1>9. m.bytes \in Nat
  BY DEF Msg
<1>10. Bytes(t) = Bytes(s) + m.bytes
  BY <1>6, <1>7, <1>8, <1>9
<1> QED BY <1>1, <1>2, <1>3, <1>4, <1>6, <1>10 DEF t

(* No message has no bytes.                                                *)
LEMMA BytesOfNone == Bytes(<<>>) = 0 /\ \A type : ~ Holds(<<>>, type)
<1>1. 1..Len(<<>>) = {}
  OBVIOUS
<1>2. Bytes(<<>>) = 0
  BY <1>1, SumOfNone DEF Bytes
<1> QED BY <1>2 DEF Holds

(* Joining the few messages of a step to a log                             *)
LEMMA Joined ==
  ASSUME NEW s \in Seq(Msg), NEW m \in Msg, NEW x \in Msg
  PROVE  /\ s \o (<<>> \o <<>>) = s
         /\ s \o (<<m>> \o <<>>) = Append(s, m)
         /\ s \o (<<>> \o <<m>>) = Append(s, m)
         /\ s \o (<<m>> \o <<x>>) = Append(Append(s, m), x)
         /\ s \o (<<>> \o <<m, x>>) = Append(Append(s, m), x)
  OBVIOUS

(* The messages of a phase                                                 *)
LEMMA Endings ==
  /\ Ending("known") = <<Message("file", 0), Message("completed_data", 0)>>
  /\ Ending("absent") = <<Message("no file", 0), Message("completed_data", 0)>>
  /\ Ending("done") = <<Message("completed_chunks", 0)>>
  /\ Ending("failed") = <<Message("error", 0)>>
  /\ Ending("load") = <<>> /\ Ending("describe") = <<>>
  /\ Ending("open") = <<>> /\ Ending("read") = <<>>
  BY DEF Ending

(* What is answered is a message.                                          *)
LEMMA MessageIsMsg ==
  ASSUME NEW type \in Answer, NEW k \in Nat
  PROVE  /\ Message(type, k) \in Msg /\ Message(type, k).type = type
         /\ Message(type, k).bytes = k
  BY DEF Message, Msg

(* The names of the answers                                                *)
LEMMA Names ==
  /\ "file" \in Answer /\ "no file" \in Answer /\ "completed_data" \in Answer
  /\ "chunk" \in Answer /\ "completed_chunks" \in Answer /\ "error" \in Answer
  BY DEF Answer

(* A file is announced first or not at all: no message more changes that,  *)
(* unless it announces one later.                                          *)
LEMMA FirstStays ==
  ASSUME NEW s \in Seq(Msg), NEW m \in Msg,
         Holds(s, "file") => s[1].type = "file", m.type = "file" => s = <<>>
  PROVE  Holds(Append(s, m), "file") => Append(s, m)[1].type = "file"
<1>1. /\ \A type : Holds(Append(s, m), type) <=> Holds(s, type) \/ m.type = type
      /\ Append(s, m)[1] = IF s = <<>> THEN m ELSE s[1]
  BY BytesAppended
<1>2. s = <<>> => ~ Holds(s, "file")
  BY BytesOfNone
<1>3. CASE s = <<>>
  BY <1>1, <1>2, <1>3
<1>4. CASE s # <<>>
  BY <1>1, <1>4
<1> QED BY <1>3, <1>4

(* One message of no bytes more                                            *)
LEMMA OneMore ==
  ASSUME NEW log, NEW p, NEW n \in Nat, Consistent(log, p, n),
         NEW m \in Msg, m.bytes = 0, m.type = "file" => log = <<>>,
         NEW p2, p2 \notin {"idle", "load", "describe"}, m.type = "completed_chunks" => p2 = "done",
         p = "done" => p2 = "done"
  PROVE  Consistent(Append(log, m), p2, n)
<1>1. /\ log \in Seq(Msg) /\ Bytes(log) = n
      /\ Holds(log, "file") => log[1].type = "file"
      /\ Holds(log, "completed_chunks") => p = "done"
  BY DEF Consistent
<1>2. Append(log, m) \in Seq(Msg) /\ Bytes(Append(log, m)) = n
  BY <1>1, BytesAppended
<1>3. Holds(Append(log, m), "file") => Append(log, m)[1].type = "file"
  BY <1>1, FirstStays
<1>4. Holds(Append(log, m), "completed_chunks") => p2 = "done"
  <2>1. Holds(Append(log, m), "completed_chunks")
          <=> Holds(log, "completed_chunks") \/ m.type = "completed_chunks"
    BY <1>1, BytesAppended
  <2> QED BY <1>1, <2>1
<1> QED BY <1>2, <1>3, <1>4 DEF Consistent

(* One chunk more                                                          *)
LEMMA ChunkMore ==
  ASSUME NEW log, NEW p, NEW n \in Nat, Consistent(log, p, n), p \in {"known", "read"},
         NEW m \in Msg, m.type = "chunk", NEW n2 \in Nat, m.bytes = n2 - n
  PROVE  Consistent(Append(log, m), p, n2)
<1>1. /\ log \in Seq(Msg) /\ Bytes(log) = n
      /\ Holds(log, "file") => log[1].type = "file"
      /\ ~ Holds(log, "completed_chunks")
  BY DEF Consistent
<1>2. Append(log, m) \in Seq(Msg) /\ Bytes(Append(log, m)) = n2
  <2>1. Append(log, m) \in Seq(Msg) /\ Bytes(Append(log, m)) = n + m.bytes
    BY <1>1, BytesAppended
  <2> QED BY <2>1
<1>3. Holds(Append(log, m), "file") => Append(log, m)[1].type = "file"
  BY <1>1, FirstStays
<1>4. ~ Holds(Append(log, m), "completed_chunks")
  <2>1. Holds(Append(log, m), "completed_chunks")
          <=> Holds(log, "completed_chunks") \/ m.type = "completed_chunks"
    BY <1>1, BytesAppended
  <2> QED BY <1>1, <2>1
<1> QED BY <1>2, <1>3, <1>4 DEF Consistent

(* What a step adds to the log of an open call keeps it consistent.        *)
LEMMA AnswersConsistent ==
  ASSUME NEW log, NEW p, NEW n \in Nat, Consistent(log, p, n),
         NEW p2, NEW n2 \in Nat, Move(p, n, p2, n2),
         NEW chunks, chunks = IF n2 > n THEN <<Message("chunk", n2 - n)>> ELSE <<>>,
         NEW last, last = IF p2 = p THEN <<>> ELSE Ending(p2)
  PROVE  Consistent(log \o (chunks \o last), p2, n2)
<1>0. log \in Seq(Msg) /\ (p \in {"idle", "load", "describe"} => log = <<>>)
  BY DEF Consistent
<1>1. ASSUME n2 > n
      PROVE  \E c \in Msg : chunks = <<c>> /\ c.type = "chunk" /\ c.bytes = n2 - n
  <2>1. n2 - n \in Nat
    BY <1>1
  <2>2. /\ Message("chunk", n2 - n) \in Msg /\ Message("chunk", n2 - n).type = "chunk"
        /\ Message("chunk", n2 - n).bytes = n2 - n
    BY <2>1, Names, MessageIsMsg
  <2>3. chunks = <<Message("chunk", n2 - n)>>
    BY <1>1
  <2> QED BY <2>2, <2>3
<1>2. ASSUME n2 = n PROVE chunks = <<>>
  BY <1>2
<1>3. ASSUME p2 # p PROVE last = Ending(p2)
  BY <1>3
<1>4. ASSUME NEW type \in Answer
      PROVE  \E m \in Msg : m = Message(type, 0) /\ m.type = type /\ m.bytes = 0
  <2>1. 0 \in Nat
    OBVIOUS
  <2>2. Message(type, 0) \in Msg /\ Message(type, 0).type = type /\ Message(type, 0).bytes = 0
    BY <2>1, MessageIsMsg
  <2> QED BY <2>2
<1>5. ASSUME NEW m \in Msg, n2 = n, p2 # p, last = <<m>>, m.bytes = 0, m.type # "file",
             p2 \notin {"idle", "load", "describe"}, m.type = "completed_chunks" => p2 = "done",
             p # "done"
      PROVE  Consistent(log \o (chunks \o last), p2, n2)
  <2>1. log \o (<<>> \o <<m>>) = Append(log, m)
    BY <1>0, Joined
  <2>2. log \o (chunks \o last) = Append(log, m)
    BY <1>2, <1>5, <2>1
  <2>3. Consistent(Append(log, m), p2, n)
    BY <1>5, OneMore
  <2> QED BY <1>5, <2>2, <2>3
<1>6. CASE p2 = p /\ n2 = n
  <2>1. chunks = <<>> /\ last = <<>>
    BY <1>6
  <2>2. log \o (<<>> \o <<>>) = log
    BY <1>0
  <2> QED BY <1>6, <2>1, <2>2
<1>7. CASE p2 = p /\ p = "read" /\ n2 > n
  <2>1. PICK c \in Msg : chunks = <<c>> /\ c.type = "chunk" /\ c.bytes = n2 - n
    BY <1>1, <1>7
  <2>2. last = <<>>
    BY <1>7
  <2>3. log \o (<<c>> \o <<>>) = Append(log, c)
    BY <1>0, Joined
  <2>4. log \o (chunks \o last) = Append(log, c)
    BY <2>1, <2>2, <2>3
  <2>5. Consistent(Append(log, c), p, n2)
    BY <1>7, <2>1, ChunkMore
  <2> QED BY <1>7, <2>4, <2>5
<1>8. CASE p = "known" /\ p2 = "done" /\ n2 > n
  <2>1. PICK c \in Msg : chunks = <<c>> /\ c.type = "chunk" /\ c.bytes = n2 - n
    BY <1>1, <1>8
  <2>2. PICK m \in Msg : m = Message("completed_chunks", 0) /\ m.type = "completed_chunks"
                         /\ m.bytes = 0
    BY <1>4, Names
  <2>3. last = <<m>>
    <3>1. last = Ending("done")
      BY <1>3, <1>8
    <3> QED BY <2>2, <3>1, Endings
  <2>4. log \o (<<c>> \o <<m>>) = Append(Append(log, c), m)
    BY <1>0, Joined
  <2>5. log \o (chunks \o last) = Append(Append(log, c), m)
    BY <2>1, <2>3, <2>4
  <2>6. Consistent(Append(log, c), p, n2)
    BY <1>8, <2>1, ChunkMore
  <2>7. Consistent(Append(Append(log, c), m), p2, n2)
    <3> DEFINE log2 == Append(log, c)
    <3> HIDE DEF log2
    <3>1. Consistent(log2, p, n2)
      BY <2>6 DEF log2
    <3>2. Consistent(Append(log2, m), p2, n2)
      BY <1>8, <2>2, <3>1, OneMore
    <3> QED BY <3>2 DEF log2
  <2> QED BY <2>5, <2>7
<1>9. CASE p \in {"known", "read"} /\ p2 = "done" /\ n2 = n
  <2>1. PICK m \in Msg : m = Message("completed_chunks", 0) /\ m.type = "completed_chunks"
                         /\ m.bytes = 0
    BY <1>4, Names
  <2>2. last = <<m>>
    <3>1. last = Ending("done")
      BY <1>3, <1>9
    <3> QED BY <2>1, <3>1, Endings
  <2>3. p2 # p /\ m.type # "file" /\ p2 \notin {"idle", "load", "describe"} /\ p # "done"
    BY <1>9, <2>1
  <2> QED BY <1>5, <1>9, <2>1, <2>2, <2>3
<1>10. CASE p \notin {"done", "failed"} /\ p2 = "failed" /\ n2 = n
  <2>1. PICK m \in Msg : m = Message("error", 0) /\ m.type = "error" /\ m.bytes = 0
    BY <1>4, Names
  <2>2. last = <<m>>
    <3>1. last = Ending("failed")
      BY <1>3, <1>10
    <3> QED BY <2>1, <3>1, Endings
  <2>3. p2 # p /\ m.type # "file" /\ p2 \notin {"idle", "load", "describe"} /\ p # "done"
        /\ m.type # "completed_chunks"
    BY <1>10, <2>1
  <2> QED BY <1>5, <1>10, <2>1, <2>2, <2>3
<1>11. CASE p \in {"idle", "load", "describe"} /\ p2 \in {"known", "absent"} /\ n2 = n
  <2>1. PICK x \in Msg : x = Message("completed_data", 0) /\ x.type = "completed_data"
                         /\ x.bytes = 0
    BY <1>4, Names
  <2>2. PICK m \in Msg : last = <<m, x>> /\ m.bytes = 0 /\ m.type # "completed_chunks"
    <3>1. PICK f \in Msg : f = Message("file", 0) /\ f.type = "file" /\ f.bytes = 0
      BY <1>4, Names
    <3>2. PICK g \in Msg : g = Message("no file", 0) /\ g.type = "no file" /\ g.bytes = 0
      BY <1>4, Names
    <3>3. last = Ending(p2)
      BY <1>3, <1>11
    <3>4. CASE p2 = "known"
      <4>1. last = <<f, x>>
        BY <2>1, <3>1, <3>3, <3>4, Endings
      <4> QED BY <3>1, <4>1
    <3>5. CASE p2 = "absent"
      <4>1. last = <<g, x>>
        BY <2>1, <3>2, <3>3, <3>5, Endings
      <4> QED BY <3>2, <4>1
    <3> QED BY <1>11, <3>4, <3>5
  <2>3. log \o (<<>> \o <<m, x>>) = Append(Append(log, m), x)
    BY <1>0, Joined
  <2>4. log \o (chunks \o last) = Append(Append(log, m), x)
    BY <1>2, <1>11, <2>2, <2>3
  <2>5. log = <<>> /\ p2 \notin {"idle", "load", "describe", "done"} /\ p # "done"
    BY <1>0, <1>11
  <2>6. Consistent(Append(log, m), p2, n)
    BY <2>2, <2>5, OneMore
  <2>7. Consistent(Append(Append(log, m), x), p2, n)
    <3> DEFINE log2 == Append(log, m)
    <3> HIDE DEF log2
    <3>1. Consistent(log2, p2, n)
      BY <2>6 DEF log2
    <3>2. Consistent(Append(log2, x), p2, n)
      BY <2>1, <2>5, <3>1, OneMore
    <3> QED BY <3>2 DEF log2
  <2> QED BY <1>11, <2>4, <2>7
<1>12. CASE /\ p2 \in {"load", "describe", "open", "read"} /\ p2 # p /\ n2 = n /\ p # "done"
            /\ p2 \in {"load", "describe"} => p \in {"idle", "load"}
  <2>1. chunks = <<>> /\ last = <<>>
    BY <1>2, <1>3, <1>12, Endings
  <2>2. log \o (<<>> \o <<>>) = log
    BY <1>0
  <2>3. log \o (chunks \o last) = log
    BY <2>1, <2>2
  <2> QED BY <1>12, <2>3 DEF Consistent
<1>13. \/ p2 = p /\ n2 = n
       \/ p2 = p /\ p = "read" /\ n2 > n
       \/ p = "known" /\ p2 = "done" /\ n2 > n
       \/ p \in {"known", "read"} /\ p2 = "done" /\ n2 = n
       \/ p \notin {"done", "failed"} /\ p2 = "failed" /\ n2 = n
       \/ p \in {"idle", "load", "describe"} /\ p2 \in {"known", "absent"} /\ n2 = n
       \/ /\ p2 \in {"load", "describe", "open", "read"} /\ p2 # p /\ n2 = n /\ p # "done"
          /\ p2 \in {"load", "describe"} => p \in {"idle", "load"}
  BY DEF Move
<1> QED BY <1>6, <1>7, <1>8, <1>9, <1>10, <1>11, <1>12, <1>13

(* What an action does to the downloads                                    *)
LEMMA Moves ==
  ASSUME IInv, Unsent, Next
  PROVE  \A d \in Download : Move(phase[d], sent[d], phase'[d], sent'[d])
<1>0. /\ DOMAIN phase = Download /\ sent \in [Download -> Nat] /\ sent' \in [Download -> Nat]
      /\ \A d \in Download : phase[d] = "known" => sent[d] = 0
  BY NextTypes DEF IInv, TypeOK, Unsent
<1>1. ASSUME UNCHANGED <<phase, sent>>
      PROVE  \A d \in Download : Move(phase[d], sent[d], phase'[d], sent'[d])
  BY <1>1 DEF Move
<1>2. ASSUME NEW d \in Download, NEW p, phase' = [phase EXCEPT ![d] = p], UNCHANGED sent,
             Move(phase[d], sent[d], p, sent[d])
      PROVE  \A e \in Download : Move(phase[e], sent[e], phase'[e], sent'[e])
  <2>1. phase'[d] = p /\ \A e \in Download \ {d} : phase'[e] = phase[e]
    BY <1>0, <1>2
  <2>2. \A e \in Download \ {d} : Move(phase[e], sent[e], phase'[e], sent'[e])
    BY <1>2, <2>1 DEF Move
  <2> QED BY <1>2, <2>1, <2>2
<1>3. CASE DiskStep
  BY <1>1, <1>3 DEF DiskStep, Commit, Rename, Announce, Refuse, DiskRemove, DiskUnlink,
                    RamExpire, downloadVars
<1>4. CASE GarbageCollection
  BY <1>1, <1>4 DEF GarbageCollection, downloadVars
<1>5. ASSUME NEW d \in Download, NEW k \in Key, GetFileData(d, k)
      PROVE  \A e \in Download : Move(phase[e], sent[e], phase'[e], sent'[e])
  <2>1. PICK p \in {"known", "load", "absent"} : phase' = [phase EXCEPT ![d] = p]
    BY <1>5 DEF GetFileData, To
  <2>2. phase[d] = "idle" /\ UNCHANGED sent
    BY <1>5 DEF GetFileData
  <2>3. Move(phase[d], sent[d], p, sent[d])
    BY <2>1, <2>2 DEF Move
  <2> QED BY <1>2, <2>1, <2>2, <2>3
<1>6. ASSUME NEW d \in Download, NEW requested \in Requested, EmitFileChunks(d, requested)
      PROVE  \A e \in Download : Move(phase[e], sent[e], phase'[e], sent'[e])
  <2>1. CASE EmitRefused(d)
    <3>1. phase[d] = "known" /\ UNCHANGED sent /\ phase' = [phase EXCEPT ![d] = "failed"]
      BY <2>1 DEF EmitRefused, To
    <3>2. Move(phase[d], sent[d], "failed", sent[d])
      BY <3>1 DEF Move
    <3> QED BY <1>2, <3>1, <3>2
  <2>2. CASE EmitFromDisk(d, requested)
    <3>1. PICK p \in {"open", "failed"} : phase' = [phase EXCEPT ![d] = p]
      BY <2>2 DEF EmitFromDisk, To
    <3>2. phase[d] = "known" /\ UNCHANGED sent
      BY <2>2 DEF EmitFromDisk
    <3>3. Move(phase[d], sent[d], p, sent[d])
      BY <3>1, <3>2 DEF Move
    <3> QED BY <1>2, <3>1, <3>2, <3>3
  <2>3. CASE EmitFromRam(d)
    <3> DEFINE bytes == ram.size[name[d]]
    <3>1. /\ phase[d] = "known" /\ phase' = [phase EXCEPT ![d] = "done"]
          /\ sent' = [sent EXCEPT ![d] = bytes]
      BY <2>3 DEF EmitFromRam, To
    <3> HIDE DEF bytes
    <3>2. /\ phase'[d] = "done" /\ sent'[d] = bytes /\ sent[d] = 0 /\ bytes \in Nat
          /\ \A e \in Download \ {d} : phase'[e] = phase[e] /\ sent'[e] = sent[e]
      BY <1>0, <3>1
    <3>3. Move(phase[d], sent[d], phase'[d], sent'[d])
      BY <3>1, <3>2 DEF Move
    <3>4. \A e \in Download \ {d} : Move(phase[e], sent[e], phase'[e], sent'[e])
      BY <3>2 DEF Move
    <3> QED BY <3>3, <3>4
  <2> QED BY <1>6, <2>1, <2>2, <2>3 DEF EmitFileChunks
<1>7. ASSUME NEW d \in Download, ServeStep(d)
      PROVE  \A e \in Download : Move(phase[e], sent[e], phase'[e], sent'[e])
  <2>1. CASE LoadStat(d)
    <3>1. PICK p \in {"describe", "failed"} : phase' = [phase EXCEPT ![d] = p]
      BY <2>1 DEF LoadStat, To
    <3>2. phase[d] = "load" /\ UNCHANGED sent
      BY <2>1 DEF LoadStat
    <3>3. Move(phase[d], sent[d], p, sent[d])
      BY <3>1, <3>2 DEF Move
    <3> QED BY <1>2, <3>1, <3>2, <3>3
  <2>7. CASE LoadMetadata(d)
    <3>1. /\ phase[d] = "describe" /\ UNCHANGED sent
          /\ phase' = [phase EXCEPT ![d] = "known"]
      BY <2>7 DEF LoadMetadata, To
    <3>2. Move(phase[d], sent[d], "known", sent[d])
      BY <3>1 DEF Move
    <3> QED BY <1>2, <3>1, <3>2
  <2>2. CASE Open(d)
    <3>1. PICK p \in {"read", "failed"} : phase' = [phase EXCEPT ![d] = p]
      BY <2>2 DEF Open, To
    <3>2. phase[d] = "open" /\ UNCHANGED sent
      BY <2>2 DEF Open
    <3>3. Move(phase[d], sent[d], p, sent[d])
      BY <3>1, <3>2 DEF Move
    <3> QED BY <1>2, <3>1, <3>2, <3>3
  <2>3. CASE ReadChunk(d)
    <3>1. PICK bytes \in Nat : sent' = [sent EXCEPT ![d] = @ + bytes]
      BY <2>3, ChunkSent
    <3>2. phase[d] = "read" /\ UNCHANGED phase
      BY <2>3 DEF ReadChunk
    <3>3. /\ sent[d] \in Nat /\ sent'[d] = sent[d] + bytes
          /\ \A e \in Download \ {d} : sent'[e] = sent[e]
      BY <1>0, <3>1
    <3>4. Move(phase[d], sent[d], phase'[d], sent'[d])
      BY <3>2, <3>3 DEF Move
    <3>5. \A e \in Download \ {d} : Move(phase[e], sent[e], phase'[e], sent'[e])
      BY <3>2, <3>3 DEF Move
    <3> QED BY <3>4, <3>5
  <2>4. CASE ReadEnd(d)
    <3>1. phase[d] = "read" /\ UNCHANGED sent /\ phase' = [phase EXCEPT ![d] = "done"]
      BY <2>4 DEF ReadEnd, To
    <3>2. Move(phase[d], sent[d], "done", sent[d])
      BY <3>1 DEF Move
    <3> QED BY <1>2, <3>1, <3>2
  <2>5. ASSUME NEW timedOut \in BOOLEAN, ReadFails(d, timedOut)
        PROVE  \A e \in Download : Move(phase[e], sent[e], phase'[e], sent'[e])
    <3>1. /\ phase[d] \in {"open", "read"} /\ UNCHANGED sent
          /\ phase' = [phase EXCEPT ![d] = "failed"]
      BY <2>5 DEF ReadFails, Timed, To
    <3>2. Move(phase[d], sent[d], "failed", sent[d])
      BY <3>1 DEF Move
    <3> QED BY <1>2, <3>1, <3>2
  <2>6. CASE Ages(d)
    BY <1>1, <2>6 DEF Ages, downloadVars
  <2> QED BY <1>7, <2>1, <2>2, <2>3, <2>4, <2>5, <2>6, <2>7 DEF ServeStep
<1>8. CASE Restart
  <2> SUFFICES ASSUME NEW d \in Download
               PROVE  Move(phase[d], sent[d], phase'[d], sent'[d])
    OBVIOUS
  <2>1. /\ phase'[d] = IF phase[d] \in {"idle", "absent", "done"} THEN phase[d] ELSE "failed"
        /\ sent' = sent
    BY <1>8 DEF Restart
  <2>2. phase[d] \in {"idle", "load", "describe", "absent", "known", "open", "read", "done",
                      "failed"}
    BY DEF IInv, TypeOK
  <2> QED BY <2>1, <2>2 DEF Move
<1> QED BY <1>3, <1>4, <1>5, <1>6, <1>7, <1>8 DEF Next

(* Nothing is sent before a read begins.                                   *)
LEMMA UnsentStep == ASSUME IInv, Unsent, Next PROVE Unsent'
<1> SUFFICES ASSUME NEW d \in Download,
                    phase'[d] \in {"idle", "load", "describe", "absent", "known", "open"}
             PROVE  sent'[d] = 0
  BY DEF Unsent
<1>1. Move(phase[d], sent[d], phase'[d], sent'[d])
  BY Moves
<1>2. phase[d] \in {"idle", "load", "describe", "absent", "known", "open"} => sent[d] = 0
  BY DEF Unsent
<1> QED BY <1>1, <1>2 DEF Move

(* What a step answers to an open call                                     *)
LEMMA ResponsesAre ==
  ASSUME IInv, Unsent, Next, NEW d \in Helper, d \notin closed, NEW log,
         Consistent(log, phase[d], sent[d])
  PROVE  /\ Responses(d) \in Seq(Msg)
         /\ Consistent(log \o Responses(d), phase'[d], sent'[d])
<1> DEFINE p == phase[d]
           p2 == phase'[d]
           n == sent[d]
           n2 == sent'[d]
           chunks == IF n2 > n THEN <<Message("chunk", n2 - n)>> ELSE <<>>
           last == IF p2 = p THEN <<>> ELSE Ending(p2)
<1>1. d \in Download /\ n \in Nat /\ n2 \in Nat
  BY HelperAssumption, NextTypes DEF IInv, TypeOK
<1>2. Move(p, n, p2, n2)
  BY <1>1, Moves
<1>3. Responses(d) = chunks \o last
  BY DEF Responses
<1>4. chunks \in Seq(Msg)
  <2>1. n2 > n => Message("chunk", n2 - n) \in Msg
    <3>1. n2 > n => n2 - n \in Nat
      BY <1>1
    <3> QED BY <3>1, Names, MessageIsMsg
  <2>2. CASE n2 > n
    BY <2>1, <2>2
  <2>3. CASE ~ (n2 > n)
    BY <2>3
  <2> QED BY <2>2, <2>3
<1>5. last \in Seq(Msg)
  <2>1. /\ Message("file", 0) \in Msg /\ Message("no file", 0) \in Msg
        /\ Message("completed_data", 0) \in Msg /\ Message("error", 0) \in Msg
        /\ Message("completed_chunks", 0) \in Msg
    BY Names, MessageIsMsg
  <2>2. \A q \in {"known", "absent", "done", "failed", "load", "describe", "open", "read"} :
          Ending(q) \in Seq(Msg)
    <3>1. <<>> \in Seq(Msg) /\ \A m, x \in Msg : <<m>> \in Seq(Msg) /\ <<m, x>> \in Seq(Msg)
      OBVIOUS
    <3>2. /\ <<Message("file", 0), Message("completed_data", 0)>> \in Seq(Msg)
          /\ <<Message("no file", 0), Message("completed_data", 0)>> \in Seq(Msg)
          /\ <<Message("completed_chunks", 0)>> \in Seq(Msg)
          /\ <<Message("error", 0)>> \in Seq(Msg)
      BY <2>1, <3>1
    <3> QED BY <3>1, <3>2, Endings, Zenon
  <2>3. p2 = p \/ p2 \in {"known", "absent", "done", "failed", "load", "describe", "open", "read"}
    BY <1>2 DEF Move
  <2> QED BY <2>2, <2>3
<1> HIDE DEF chunks, last
<1>6. chunks \o last \in Seq(Msg)
  BY <1>4, <1>5
<1>7. Consistent(log \o (chunks \o last), p2, n2)
  BY <1>1, <1>2, AnswersConsistent DEF chunks, last
<1> QED BY <1>3, <1>6, <1>7

(* What was answered is received in order; each step of the server adds    *)
(* what it answers.                                                        *)
LEMMA RelayAdds ==
  ASSUME Channels, Logs, Relay, NEW d \in Helper, Responses(d) \in Seq(Msg)
  PROVE  /\ messages'[d] \in Seq(Msg) /\ downloadedMessages'[d] \in Seq(Msg)
         /\ Log(d)' = Log(d) \o Responses(d)
<1>1. downloadedMessages[d] \in Seq(Msg) /\ messages[d] \in Seq(Msg)
  BY DEF Logs
<1>2. messages'[d] = messages[d] \o Responses(d) /\ downloadedMessages' = downloadedMessages
  BY DEF Relay
<1>3. messages'[d] \in Seq(Msg)
  BY <1>1, <1>2
<1>4. (downloadedMessages[d] \o messages[d]) \o Responses(d)
        = downloadedMessages[d] \o (messages[d] \o Responses(d))
  <2>1. ASSUME NEW s \in Seq(Msg), NEW t \in Seq(Msg), NEW u \in Seq(Msg)
        PROVE  (s \o t) \o u = s \o (t \o u)
    OBVIOUS
  <2> QED BY <1>1, <2>1, Zenon
<1> QED BY <1>1, <1>2, <1>3, <1>4 DEF Log

(* A call that is closed is answered no more, and its download goes on     *)
(* only unless it was done.                                                *)
LEMMA RelayStep ==
  ASSUME IInv, Unsent, Channels, Logs, Next, Relay
  PROVE  Channels' /\ Logs'
<1>1. Channels'
  BY DEF Channels, Relay
<1>2. ASSUME NEW d \in Helper
      PROVE  /\ downloadedMessages'[d] \in Seq(Msg) /\ messages'[d] \in Seq(Msg)
             /\ d \notin closed => Consistent(Log(d)', phase'[d], sent'[d])
             /\ d \in closed => Finished(Log(d)', phase'[d], sent'[d])
  <2>1. CASE d \notin closed
    <3>1. Consistent(Log(d), phase[d], sent[d])
      BY <2>1 DEF Logs
    <3>2. /\ Responses(d) \in Seq(Msg)
          /\ Consistent(Log(d) \o Responses(d), phase'[d], sent'[d])
      BY <2>1, <3>1, ResponsesAre
    <3>3. /\ messages'[d] \in Seq(Msg) /\ downloadedMessages'[d] \in Seq(Msg)
          /\ Log(d)' = Log(d) \o Responses(d)
      BY <3>2, RelayAdds
    <3> QED BY <2>1, <3>2, <3>3
  <2>2. CASE d \in closed
    <3>1. Finished(Log(d), phase[d], sent[d]) /\ Log(d) \in Seq(Msg)
      BY <2>2 DEF Logs, Finished
    <3>2. Responses(d) = <<>> /\ <<>> \in Seq(Msg)
      BY <2>2 DEF Responses
    <3>3. /\ messages'[d] \in Seq(Msg) /\ downloadedMessages'[d] \in Seq(Msg)
          /\ Log(d)' = Log(d) \o Responses(d)
      BY <3>2, RelayAdds
    <3>4. Log(d)' = Log(d)
      BY <3>1, <3>2, <3>3
    <3>5. Move(phase[d], sent[d], phase'[d], sent'[d])
      BY HelperAssumption, Moves
    <3>6. phase[d] = "done" => phase'[d] = "done" /\ sent'[d] = sent[d]
      BY <3>5 DEF Move
    <3> QED BY <2>2, <3>1, <3>3, <3>4, <3>6 DEF Finished
  <2> QED BY <2>1, <2>2
<1>3. closed' = closed
  BY DEF Relay
<1> QED BY <1>1, <1>2, <1>3 DEF Logs

(* A response arrives.                                                     *)
LEMMA DeliverStep ==
  ASSUME Channels, Logs, NEW d \in Helper, Deliver(d)
  PROVE  Channels' /\ Logs'
<1>1. /\ downloadedMessages' =
           [downloadedMessages EXCEPT ![d] = Append(downloadedMessages[d], Head(messages[d]))]
      /\ messages' = [messages EXCEPT ![d] = Tail(messages[d])]
      /\ messages[d] # <<>> /\ closed' = closed /\ phase' = phase /\ sent' = sent
  BY DEF Deliver, vars, downloadVars
<1>2. Channels'
  BY <1>1 DEF Channels
<1>3. \A e \in Helper \ {d} : messages'[e] = messages[e]
                              /\ downloadedMessages'[e] = downloadedMessages[e]
  BY <1>1 DEF Channels
<1>4. /\ messages'[d] = Tail(messages[d])
      /\ downloadedMessages'[d] = Append(downloadedMessages[d], Head(messages[d]))
  BY <1>1 DEF Channels
<1>5. downloadedMessages[d] \in Seq(Msg) /\ messages[d] \in Seq(Msg)
  BY DEF Logs
<1>6. ASSUME NEW s \in Seq(Msg), NEW t \in Seq(Msg), t # <<>>
      PROVE  /\ Append(s, Head(t)) \in Seq(Msg) /\ Tail(t) \in Seq(Msg)
             /\ Append(s, Head(t)) \o Tail(t) = s \o t
  BY <1>6
<1>7. /\ messages'[d] \in Seq(Msg) /\ downloadedMessages'[d] \in Seq(Msg)
      /\ Log(d)' = Log(d)
  BY <1>1, <1>4, <1>5, <1>6 DEF Log
<1>8. \A e \in Helper : Log(e)' = Log(e)
  BY <1>3, <1>7 DEF Log
<1> QED BY <1>1, <1>2, <1>3, <1>7, <1>8 DEF Logs

(* A helper ends its call when it was told that there is no file, in the   *)
(* first answer, or that all chunks were sent.                             *)
LEMMA EndsFinished ==
  ASSUME Logs, NEW d \in Helper, Ends(d)
  PROVE  Finished(Log(d), phase[d], sent[d])
<1>1. CASE d \in closed
  BY <1>1 DEF Logs
<1>2. CASE d \notin closed
  <2> DEFINE s == downloadedMessages[d]
             t == messages[d]
  <2>1. s \in Seq(Msg) /\ t \in Seq(Msg) /\ Consistent(s \o t, phase[d], sent[d])
    BY <1>2 DEF Logs, Log
  <2>2. \A i \in DOMAIN s : i \in DOMAIN (s \o t) /\ (s \o t)[i] = s[i]
    <3>1. ASSUME NEW u \in Seq(Msg), NEW v \in Seq(Msg), NEW i \in 1..Len(u)
          PROVE  i \in 1..Len(u \o v) /\ (u \o v)[i] = u[i]
      <4>1. Len(u \o v) = Len(u) + Len(v) /\ Len(u) \in Nat /\ Len(v) \in Nat
        OBVIOUS
      <4> QED BY <4>1
    <3>2. \A u \in Seq(Msg) : DOMAIN u = 1..Len(u)
      OBVIOUS
    <3>3. \A u, v \in Seq(Msg) : u \o v \in Seq(Msg)
      OBVIOUS
    <3> HIDE DEF s, t
    <3> QED BY <2>1, <3>1, <3>2, <3>3, Zenon
  <2>3. \A type : Received(d, type) => Holds(s \o t, type)
    <3> HIDE DEF t
    <3> QED BY <2>2 DEF Received, Holds
  <2>4. CASE Received(d, "completed_chunks")
    BY <2>1, <2>3, <2>4 DEF Consistent, Finished, Log
  <2>5. CASE Received(d, "completed_data") /\ ~ Received(d, "file")
    <3>1. 1 \in DOMAIN s
      <4>1. DOMAIN s # {}
        BY <2>5 DEF Received
      <4> QED BY <2>1, <4>1
    <3>2. (s \o t)[1].type # "file"
      BY <2>2, <2>5, <3>1 DEF Received
    <3>3. ~ Holds(s \o t, "file") /\ s \o t \in Seq(Msg)
      BY <2>1, <3>2 DEF Consistent
    <3> QED BY <3>3 DEF Finished, Log
  <2> QED BY <2>4, <2>5 DEF Ends
<1> QED BY <1>1, <1>2

(* It does.                                                                *)
LEMMA CloseStep ==
  ASSUME Channels, Logs, NEW d \in Helper, HalfClose(d)
  PROVE  Channels' /\ Logs'
<1>1. /\ closed' = closed \cup {d} /\ messages' = messages
      /\ downloadedMessages' = downloadedMessages /\ phase' = phase /\ sent' = sent
  BY DEF HalfClose, vars, downloadVars
<1>2. Finished(Log(d), phase[d], sent[d])
  BY EndsFinished DEF HalfClose
<1>3. \A e \in Helper : Log(e)' = Log(e)
  BY <1>1 DEF Log
<1> QED BY <1>1, <1>2, <1>3 DEF Channels, Logs

(* What a step of the helpers is for the service: one of its steps, which  *)
(* is answered, or none                                                    *)
LEMMA ClientSteps ==
  ASSUME ClientNext
  PROVE  \/ Next /\ Relay
         \/ UNCHANGED vars /\ \E d \in Helper : Deliver(d) \/ HalfClose(d)
         \/ UNCHANGED <<vars, messages, downloadedMessages, closed>>
<1>1. ASSUME NEW d \in Helper, Handle(d) PROVE Next /\ Relay
  BY <1>1, HelperAssumption DEF Handle, Next
<1>2. ASSUME NEW d \in Download \ Helper, OtherSession(d) PROVE Next
  BY <1>2 DEF OtherSession, Next
<1>3. ASSUME DiskStep \/ GarbageCollection \/ Restart \/ \E d \in Download : ServeStep(d)
      PROVE  Next
  BY <1>3 DEF Next
<1>4. ASSUME NEW d \in Helper, NEW k \in Key, Call(d, k)
      PROVE  UNCHANGED <<vars, messages, downloadedMessages, closed>>
  BY <1>4 DEF Call
<1>5. ASSUME NEW d \in Helper, Deliver(d) \/ HalfClose(d) PROVE UNCHANGED vars
  BY <1>5 DEF Deliver, HalfClose
<1> QED BY <1>1, <1>2, <1>3, <1>4, <1>5 DEF ClientNext

(* Steps that leave the downloads and the channels alone                   *)
LEMMA StutterClient ==
  ASSUME ClientInv, UNCHANGED <<vars, messages, downloadedMessages, closed>>
  PROVE  ClientInv'
<1>1. IInv'
  BY StutterInv DEF ClientInv
<1>2. /\ phase' = phase /\ sent' = sent /\ messages' = messages
      /\ downloadedMessages' = downloadedMessages /\ closed' = closed
  BY DEF vars, downloadVars
<1>3. \A d \in Helper : Log(d)' = Log(d)
  BY <1>2 DEF Log
<1> QED BY <1>1, <1>2, <1>3 DEF ClientInv, Unsent, Channels, Logs

(* Every step of the service and of the helpers keeps the invariant.       *)
THEOREM ClientInvariance == ClientSpec => []ClientInv
<1>1. ClientInit => ClientInv
  <2> SUFFICES ASSUME ClientInit PROVE ClientInv
    OBVIOUS
  <2>1. IInv
    BY InitInv DEF ClientInit
  <2>2. Unsent
    BY DEF ClientInit, Init, Unsent
  <2>3. Channels /\ closed = {}
    BY DEF ClientInit, Channels
  <2>4. ASSUME NEW d \in Helper
        PROVE  /\ downloadedMessages[d] \in Seq(Msg) /\ messages[d] \in Seq(Msg)
               /\ Consistent(Log(d), phase[d], sent[d])
    <3>1. downloadedMessages[d] = <<>> /\ messages[d] = <<>> /\ <<>> \in Seq(Msg)
      BY DEF ClientInit
    <3>2. Log(d) = <<>>
      BY <3>1 DEF Log
    <3>3. sent[d] = 0
      BY HelperAssumption DEF ClientInit, Init
    <3> QED BY <3>1, <3>2, <3>3, BytesOfNone DEF Consistent
  <2> QED BY <2>1, <2>2, <2>3, <2>4 DEF ClientInv, Logs
<1>2. ASSUME ClientInv, ClientNext PROVE ClientInv'
  <2>1. CASE Next /\ Relay
    <3>1. IInv'
      BY <1>2, <2>1, NextInv DEF ClientInv
    <3>2. Unsent'
      BY <1>2, <2>1, UnsentStep DEF ClientInv
    <3>3. Channels' /\ Logs'
      BY <1>2, <2>1, RelayStep DEF ClientInv
    <3> QED BY <3>1, <3>2, <3>3 DEF ClientInv
  <2>2. ASSUME UNCHANGED vars, NEW d \in Helper, Deliver(d) \/ HalfClose(d)
        PROVE  ClientInv'
    <3>1. IInv'
      BY <1>2, <2>2, StutterInv DEF ClientInv
    <3>2. Unsent'
      BY <1>2, <2>2 DEF ClientInv, Unsent, vars, downloadVars
    <3>3. Channels' /\ Logs'
      BY <1>2, <2>2, DeliverStep, CloseStep DEF ClientInv
    <3> QED BY <3>1, <3>2, <3>3 DEF ClientInv
  <2>3. CASE UNCHANGED <<vars, messages, downloadedMessages, closed>>
    BY <1>2, <2>3, StutterClient
  <2> QED BY <1>2, <2>1, <2>2, <2>3, ClientSteps
<1>3. ASSUME ClientInv, UNCHANGED allVars PROVE ClientInv'
  BY <1>3, StutterClient DEF allVars, helperVars
<1>4. ClientInv /\ [ClientNext]_allVars => ClientInv'
  BY <1>2, <1>3
<1> QED BY <1>1, <1>4, PTL DEF ClientSpec

(* A helper that resolves for a file that exists has all bytes that the    *)
(* server sent, from a read that ended well, and of the version it was     *)
(* told of first, unless a commit of the name overlapped the download or   *)
(* the last one was cut.                                                   *)
THEOREM ResolvedIsWhole == ClientSpec => []ResolvedHasFile
<1>1. ASSUME ClientInv PROVE ResolvedHasFile
  <2> SUFFICES ASSUME NEW d \in Helper, Resolved(d), Received(d, "file")
               PROVE  /\ phase[d] = "done" /\ DownloadedBytes(d) = sent[d]
                      /\ d \in late \/ rfd[d] = info[d].version
    BY DEF ResolvedHasFile
  <2>1. /\ downloadedMessages[d] \in Seq(Msg) /\ messages[d] = <<>>
        /\ Finished(Log(d), phase[d], sent[d])
    BY <1>1 DEF ClientInv, Logs, Resolved
  <2>2. Log(d) = downloadedMessages[d]
    BY <2>1 DEF Log
  <2>3. phase[d] = "done" /\ Bytes(downloadedMessages[d]) = sent[d]
    BY <2>1, <2>2 DEF Finished, Received, Holds
  <2>4. DownloadedBytes(d) = Bytes(downloadedMessages[d])
    BY <2>1, FoldIsBytes DEF DownloadedBytes
  <2>5. d \in late \/ rfd[d] = info[d].version
    BY <1>1, <2>3, HelperAssumption DEF ClientInv, IInv, Downloads, Faithful
  <2> QED BY <2>3, <2>4, <2>5
<1> QED BY <1>1, ClientInvariance, PTL

(* The downloads of the helpers are downloads: whatever holds of every     *)
(* step of the service holds of the steps it takes with helpers.           *)
THEOREM HelpersAreClients == ClientSpec => Spec
<1>1. ClientInit => Init
  BY DEF ClientInit
<1>2. [ClientNext]_allVars => [Next]_vars
  BY ClientSteps DEF allVars
<1> QED BY <1>1, <1>2, PTL DEF ClientSpec, Spec
=============================================================================
