-------------------------- MODULE DiskIndexProofs --------------------------
(***************************************************************************)
(* What the index of DiskStorage says of the disk, for every value of the  *)
(* constants, when a name is uploaded by one save() at a time, none        *)
(* beginning before the file-system calls of the last have ended: an entry *)
(* has its files, of one upload and no longer than it counts for; a file   *)
(* without an entry has been refused for its size; and the files of all    *)
(* entries fit in maxMemory together.                                      *)
(*                                                                         *)
(* Neither claim is inductive.  Between the end of a commit and the index  *)
(* lies a task, between a removal and its unlinks lie two, and start-up    *)
(* measures a file before it enters it: the invariant says what is true of *)
(* a name in each of these windows, unless the name is disturbed.  A       *)
(* server process of Startup takes the steps of DiskStorage and keeps its  *)
(* invariant; the last section adds what is known once SERVING is answered.*)
(***************************************************************************)
EXTENDS Startup, DiskStoreProofs, CacheProofs

\* A commit of k has file-system calls left to run, or the index to update.
InCommit(k) == \E s \in Save : fileName[s] = k /\ pc[s] = "committing" /\ ~Quiet(s)

Calm(k) == k \notin disturbed /\ ~InCommit(k)

BothThere(k) == \A p \in Part : file[k][p] # Null

\* Both files of k are those of one upload.
Paired(k) ==
  \E s \in completed : fileName[s] = k /\ file[k] = [bin |-> fd[s], metadata |-> s]

\* The index does not take the data of k.
Refused(k) ==
  \E s \in completed : /\ fileName[s] = k /\ fd[s] = file[k]["bin"]
                       /\ SetThrows(DiskSize(k)) \/ TooLarge(fileSize[s])

Sizes == \A s \in Save : sent[s] <= fileSize[s]

\* A commit that fails while it still has a rename to run has disturbed its name.
Failures ==
  \A s \in Save :
    pc[s] = "committing" /\ ~Quiet(s) /\ reply[s] # "none" => fileName[s] \in disturbed

\* What a commit has renamed is still there.
Standing ==
  \A s \in Save, p \in Part :
    Committing(s) /\ p \notin renames[s] /\ fileName[s] \notin disturbed
      => file[fileName[s]][p] # Null

\* Two files of one name are a pair.
Pairs == \A k \in Key : Calm(k) /\ BothThere(k) => Paired(k)

\* An entry has a pair of files, which it covers.
Entries ==
  \A k \in Cached(index) : Calm(k) => Paired(k) /\ DiskSize(k) <= index.size[k]

\* The file that start-up has measured is still the one it will enter.
Scanned ==
  scan # NoScan
    => /\ scan.key \in Key /\ scan.key \notin indexed
       /\ scan.key \notin disturbed
            => BothThere(scan.key) /\ scan.size = DiskSize(scan.key)

\* Data without metadata have been refused, or are about to be unlinked.
Halves ==
  \A k \in Key :
    Calm(k) /\ file[k]["bin"] # Null /\ unlinks[k]["bin"] = 0
      => file[k]["metadata"] # Null \/ Refused(k)

\* Data that have left the index were refused, or are about to be unlinked.
Left ==
  \A k \in Key :
    /\ k \in indexed \/ unlinks[k]["metadata"] > 0
    /\ Calm(k) /\ file[k]["bin"] # Null /\ unlinks[k]["bin"] = 0 /\ k \notin Cached(index)
    => Refused(k)

IndexTypeOK ==
  /\ stale \subseteq Key
  /\ Sound(index) /\ Used(index) <= MaxMemory
  /\ totalMemorySize \in Int
  /\ unlinks \in [Key -> [Part -> Nat]]
  /\ gcListed \subseteq Key /\ gcAwaited \in Key \cup {Null}
  /\ gcUnlinks \subseteq Key \X Part
  /\ indexed \subseteq Key
  /\ scan \in [key: Key \cup {Null}, size: Nat]
  /\ crashes \in Nat /\ exiting \in BOOLEAN
  /\ disturbed \subseteq Key

IndexInv ==
  /\ StoreInv /\ CommitInv
  /\ IndexTypeOK
  /\ Sizes /\ Failures /\ Standing /\ Pairs /\ Entries /\ Scanned /\ Halves /\ Left

-----------------------------------------------------------------------------
\* What a save() does before its commit, and its beginning.
BeforeCommit(s) ==
  \/ \E k \in Key, size \in ChunkSize : Begin(s, k, size)
  \/ \E size \in ChunkSize : Chunk(s, size)
  \/ WriteMetadata(s) \/ InitFails(s) \/ OpenTmp(s)
  \/ \E m \in 1..MaxSent : Flush(s, m)
  \/ WriteFails(s) \/ Abort(s) \/ Complete(s)

\* Nothing that the index and the disk have to agree about.
Unseen == UNCHANGED <<file, content, saveVars, disturbed, startVars>>

\* The steps, by what they do to the index and to the files.
LEMMA IndexSteps ==
  ASSUME [Next]_vars
  PROVE  \/ Unseen /\ UNCHANGED indexVars
         \/ Unseen /\ UNCHANGED <<totalMemorySize, unlinks>>
               /\ \E k \in Key : index' = CacheGet(index, k)
         \/ Unseen /\ \E k \in Key : IndexDelete(k)
         \/ \E s \in Save : BeforeCommit(s) \/ Publish(s) \/ \E p \in Part : Rename(s, p)
         \/ \E k \in Key, p \in Part : Unlink(k, p)
         \/ \E k \in Key : IndexStat(k)
         \/ IndexFile
         \/ Restart
PROOF
  <1> USE DEF Unseen, diskVars, startVars
  <1>1. CASE UNCHANGED vars
    BY <1>1 DEF vars
  <1>2. CASE Requests
    BY <1>2 DEF Requests, LoadStart, ReadStart, BeforeCommit
  <1>3. CASE Work
    <2>1. ASSUME NEW s \in Save,
                 \/ \E size \in ChunkSize : Chunk(s, size)
                 \/ FileStep(s) \/ Complete(s) \/ Abort(s)
                 \/ WriteFails(s) \/ InitFails(s)
          PROVE  BeforeCommit(s) \/ Publish(s) \/ \E p \in Part : Rename(s, p)
      BY <2>1 DEF FileStep, BeforeCommit
    <2>2. ASSUME NEW k \in Key, Expire(k) \/ Delete(k)
          PROVE  Unseen /\ IndexDelete(k)
      BY <2>2 DEF Expire, Delete
    <2>3. ASSUME NEW k \in Key, TmpExpires(k) \/ GcStat(k) \/ \E p \in Part : GcUnlink(k, p)
          PROVE  Unseen /\ UNCHANGED indexVars
      BY <2>3 DEF TmpExpires, GcStat, GcUnlink
    <2>4. CASE \/ GcList
               \/ \E l \in Load : LoadStat(l) \/ LoadMetadata(l)
               \/ \E r \in Read : ReadOpen(r) \/ ReadChunk(r)
      BY <2>4 DEF GcList, LoadStat, LoadMetadata, ReadOpen, ReadChunk
    <2> QED
      BY <1>3, <2>1, <2>2, <2>3, <2>4 DEF Work, Removal
  <1>4. CASE Indexing
    BY <1>4 DEF Indexing
  <1>5. CASE Death
    BY <1>5 DEF Death, Crash, LoadCrash, OpenFails, Exit
  <1> QED
    BY <1>1, <1>2, <1>3, <1>4, <1>5 DEF Next

\* The length of what one upload has written is no more than it was sent.
LEMMA WholeLength ==
  ASSUME DiskTypeOK, Phases, NEW s \in Save, NEW bytes, Whole(s, bytes)
  PROVE  Len(bytes) \in Nat /\ Len(bytes) <= sent[s]
PROOF
  <1>1. written[s] \in Nat /\ sent[s] \in Nat /\ written[s] <= sent[s]
    BY DEF DiskTypeOK, Phases
  <1>2. bytes = [i \in 1..written[s] |-> s]
    BY DEF Whole
  <1>3. Len(bytes) = written[s]
    BY <1>1, <1>2
  <1> QED
    BY <1>1, <1>3

\* The bytes of a visible file are those of one upload, and do not change.
LEMMA DataIs ==
  ASSUME IInv, NEW k \in Key, file[k]["bin"] # Null
  PROVE  \E s \in completed : /\ fileName[s] = k /\ fd[s] = file[k]["bin"]
                             /\ DiskSize(k) \in Nat /\ DiskSize(k) <= sent[s]
PROOF
  <1>1. PICK s \in completed : /\ fileName[s] = k /\ fd[s] = file[k]["bin"]
                               /\ Whole(s, content[fd[s]])
    BY DEF IInv, WholeFiles
  <1>2. s \in Save
    BY DEF IInv, DiskTypeOK
  <1>3. Len(content[fd[s]]) \in Nat /\ Len(content[fd[s]]) <= sent[s]
    BY <1>1, <1>2, WholeLength DEF IInv
  <1> QED
    BY <1>1, <1>3 DEF DiskSize

\* What is under a final name keeps its length until it is replaced.
LEMMA DataKept ==
  ASSUME IInv, [Next]_vars, NEW k \in Key, file'[k]["bin"] = file[k]["bin"]
  PROVE  DiskSize(k)' = DiskSize(k)
PROOF
  <1>1. file[k]["bin"] # Null => content'[file[k]["bin"]] = content[file[k]["bin"]]
    BY VisibleSealed, SealedUnwritten
  <1> QED
    BY <1>1 DEF DiskSize

\* The steps that change what is sent and what is counted
Counting(s) ==
  \/ \E k \in Key, size \in ChunkSize : Begin(s, k, size)
  \/ \E size \in ChunkSize : Chunk(s, size)
  \/ WriteMetadata(s)

\* No other step does.
LEMMA CountSteps ==
  ASSUME [Next]_vars
  PROVE  UNCHANGED <<sent, fileSize>> \/ \E s \in Save : Counting(s)
PROOF
  <1>1. ASSUME NEW s \in Save, BeforeCommit(s)
        PROVE  UNCHANGED <<sent, fileSize>> \/ Counting(s)
    BY <1>1 DEF BeforeCommit, Counting, OpenTmp, Flush, WriteFails, InitFails, Abort, Complete,
       saveVars
  <1>2. ASSUME NEW s \in Save, Publish(s) \/ \E p \in Part : Rename(s, p)
        PROVE  UNCHANGED <<sent, fileSize>>
    BY <1>2 DEF Publish, Rename
  <1>3. ASSUME NEW k \in Key, IndexStat(k) \/ \E p \in Part : Unlink(k, p)
        PROVE  UNCHANGED <<sent, fileSize>>
    BY <1>3 DEF IndexStat, Unlink, saveVars
  <1>4. Unseen \/ IndexFile \/ Restart => UNCHANGED <<sent, fileSize>>
    BY DEF Unseen, IndexFile, Restart, saveVars
  <1> QED
    BY <1>1, <1>2, <1>3, <1>4, IndexSteps

\* What a completed upload has sent, and what is counted for it, is settled.
LEMMA CountKept ==
  ASSUME IInv, [Next]_vars, NEW s \in completed
  PROVE  s \in Save /\ sent'[s] = sent[s] /\ fileSize'[s] = fileSize[s]
PROOF
  <1>1. s \in Save /\ pc[s] \in {"committing", "closed"}
    BY DEF IInv, DiskTypeOK, Phases
  <1>2. ASSUME NEW t \in Save, Counting(t)
        PROVE  sent'[s] = sent[s] /\ fileSize'[s] = fileSize[s]
    <2>1. s # t
      BY <1>1, <1>2 DEF Counting, Begin, Chunk, WriteMetadata
    <2> QED
      BY <1>1, <1>2, <2>1 DEF Counting, Begin, Chunk, WriteMetadata, IInv, DiskTypeOK
  <1>3. UNCHANGED <<sent, fileSize>> \/ \E t \in Save : Counting(t)
    BY CountSteps
  <1>4. CASE UNCHANGED <<sent, fileSize>>
    BY <1>1, <1>4
  <1> QED
    BY <1>1, <1>2, <1>3, <1>4

\* A pair stays a pair until one of its files changes.
LEMMA PairedKept ==
  ASSUME IInv, [Next]_vars, NEW k \in Key, file'[k] = file[k], Paired(k)
  PROVE  Paired(k)'
PROOF
  <1>1. PICK s \in completed : fileName[s] = k /\ file[k] = [bin |-> fd[s], metadata |-> s]
    BY DEF Paired
  <1>2. s \in completed' /\ fileName'[s] = k /\ fd'[s] = fd[s]
    BY <1>1, CompletedKept DEF IInv
  <1> QED
    BY <1>1, <1>2 DEF Paired

\* What was refused stays refused, until it is replaced.
LEMMA RefusedKept ==
  ASSUME IInv, [Next]_vars, NEW k \in Key, file'[k]["bin"] = file[k]["bin"], Refused(k)
  PROVE  Refused(k)'
PROOF
  <1>1. PICK s \in completed : /\ fileName[s] = k /\ fd[s] = file[k]["bin"]
                               /\ SetThrows(DiskSize(k)) \/ TooLarge(fileSize[s])
    BY DEF Refused
  <1>2. s \in completed' /\ fileName'[s] = k /\ fd'[s] = fd[s]
    BY <1>1, CompletedKept DEF IInv
  <1>3. DiskSize(k)' = DiskSize(k) /\ fileSize'[s] = fileSize[s]
    BY DataKept, CountKept
  <1> QED
    BY <1>1, <1>2, <1>3 DEF Refused

-----------------------------------------------------------------------------
\* The file-system calls of a commit have settled when it has failed.
LEMMA CommitQuiet ==
  ASSUME NEW s \in Save, pc[s] = "committing"
  PROVE  Quiet(s) <=> reply[s] = "error" /\ renames[s] = {}
PROOF
  BY DEF Quiet, Renamed

\* What is known of a commit that this step does not touch.
CommitKept(s) == UNCHANGED <<pc[s], fileName[s], renames[s], reply[s]>>

\* Before its commit a save() changes nothing that is visible, and no commit.
LEMMA WorkFrame ==
  ASSUME DiskTypeOK, NEW s \in Save, BeforeCommit(s)
  PROVE  /\ UNCHANGED <<file, disturbed, index, unlinks, startVars>>
         /\ \A t \in Save : t # s \/ pc[t] = "committing" => CommitKept(t)
PROOF
  <1>1. pc[s] # "committing" /\ UNCHANGED <<file, disturbed, index, unlinks, startVars>>
    BY DEF BeforeCommit, Begin, Chunk, WriteMetadata, OpenTmp, Flush, WriteFails,
       InitFails, Abort, Complete, saveVars,
       diskVars, indexVars
  <1>2. \A t \in Save : t # s => CommitKept(t)
    BY DEF BeforeCommit, Begin, Chunk, WriteMetadata, OpenTmp, Flush, WriteFails,
       InitFails, Abort, Complete, saveVars,
       CommitKept, DiskTypeOK
  <1> QED
    BY <1>1, <1>2

\* Final names change by renames and unlinks only.
LEMMA FileChanges ==
  ASSUME DiskTypeOK, [Next]_vars
  PROVE  \/ UNCHANGED file
         \/ \E s \in Save, p \in Part : Rename(s, p)
         \/ \E k \in Key, p \in Part : Unlink(k, p)
PROOF
  <1>1. \A s \in Save : BeforeCommit(s) => UNCHANGED file
    BY WorkFrame
  <1>2. \A s \in Save : Publish(s) => UNCHANGED file
    BY DEF Publish, diskVars
  <1>3. \A k \in Key : IndexStat(k) => UNCHANGED file
    BY DEF IndexStat, diskVars
  <1>4. Unseen \/ IndexFile \/ Restart => UNCHANGED file
    BY DEF Unseen, IndexFile, Restart, diskVars
  <1> QED
    BY <1>1, <1>2, <1>3, <1>4, IndexSteps

\* Such a commit goes on.
LEMMA CommitGoesOn ==
  ASSUME NEW k \in Key,
         \A s \in Save : fileName[s] = k /\ pc[s] = "committing" => CommitKept(s)
  PROVE  InCommit(k) => InCommit(k)'
PROOF
  <1> SUFFICES ASSUME NEW s \in Save, fileName[s] = k, pc[s] = "committing", ~Quiet(s)
               PROVE  InCommit(k)'
    BY DEF InCommit
  <1>1. UNCHANGED <<pc[s], fileName[s], renames[s], reply[s]>>
    BY DEF CommitKept
  <1>2. ~Quiet(s)'
    BY <1>1 DEF Quiet, Renamed
  <1> QED
    BY <1>1, <1>2 DEF InCommit

\* Only the end of a commit makes a name calm.
LEMMA CalmStep ==
  ASSUME IInv, IndexTypeOK, Failures, [Next]_vars, NEW k \in Key, Calm(k)',
         ~ \E s \in Save : Publish(s) /\ fileName[s] = k
  PROVE  /\ Calm(k)
         /\ Restart => \A p \in Part : unlinks[k][p] = 0
         /\ UNCHANGED file[k] \/ \E p \in Part : Unlink(k, p)
PROOF
  <1>0. DiskTypeOK /\ Phases /\ disturbed \subseteq Key /\ unlinks \in [Key -> [Part -> Nat]]
    BY DEF IInv, IndexTypeOK
  <1>a. k \notin disturbed' /\ ~InCommit(k)'
    BY DEF Calm
  <1>1. ASSUME NEW s \in Save, NEW p \in Part, Rename(s, p)
        PROVE  fileName[s] # k /\ Calm(k) /\ UNCHANGED file[k]
    <2>1. fileName[s] # k
      <3> SUFFICES ASSUME fileName[s] = k PROVE FALSE
        OBVIOUS
      <3>1. tmp[k][p] # Null /\ UNCHANGED reply /\ disturbed \subseteq disturbed'
        BY <1>1, <1>a DEF Rename
      <3>2. pc'[s] = "committing" /\ fileName'[s] = k /\ pc[s] = "committing" /\ renames[s] # {}
        BY <1>1 DEF Rename
      <3>3. reply[s] = "none"
        BY <1>a, <3>1, <3>2, CommitQuiet DEF Failures
      <3>4. ~Quiet(s)'
        BY <3>1, <3>2, <3>3 DEF Quiet
      <3> QED
        BY <1>a, <3>2, <3>4 DEF InCommit
    <2>2. \A t \in Save : fileName[t] = k => CommitKept(t)
      BY <1>0, <1>1, <2>1 DEF Rename, CommitKept, DiskTypeOK
    <2>3. k \notin disturbed /\ UNCHANGED file[k]
      BY <1>0, <1>1, <1>a, <2>1 DEF Rename, DiskTypeOK
    <2> QED
      BY <1>a, <2>1, <2>2, <2>3, CommitGoesOn DEF Calm
  <1>2. ASSUME NEW s \in Save, Publish(s)
        PROVE  Calm(k) /\ UNCHANGED file
    <2>1. fileName[s] # k
      BY <1>2
    <2>2. \A t \in Save : fileName[t] = k => CommitKept(t)
      BY <1>0, <1>2, <2>1 DEF Publish, CommitKept, DiskTypeOK
    <2>3. k \notin disturbed /\ UNCHANGED file
      BY <1>2, <1>a, <2>1 DEF Publish, diskVars
    <2> QED
      BY <1>a, <2>2, <2>3, CommitGoesOn DEF Calm
  <1>3. ASSUME NEW j \in Key, NEW p \in Part, Unlink(j, p)
        PROVE  Calm(k) /\ (j # k => UNCHANGED file[k])
    <2>1. \A t \in Save : CommitKept(t)
      BY <1>3 DEF Unlink, CommitKept, saveVars
    <2>2. k \notin disturbed /\ (j # k => UNCHANGED file[k])
      BY <1>0, <1>3, <1>a DEF Unlink, DiskTypeOK
    <2> QED
      BY <1>a, <2>1, <2>2, CommitGoesOn DEF Calm
  <1>4. CASE Restart
    <2>1. /\ k \notin disturbed /\ UNCHANGED file
          /\ \A s \in Save : ~ (fileName[s] = k /\ pc[s] = "committing")
          /\ \A p \in Part : ~ (unlinks[k][p] > 0)
      BY <1>4, <1>a DEF Restart, diskVars
    <2>2. \A p \in Part : unlinks[k][p] = 0
      BY <1>0, <2>1
    <2> QED
      BY <2>1, <2>2 DEF Calm, InCommit
  <1>5. ASSUME UNCHANGED <<file, disturbed>>,
               \A s \in Save : pc[s] = "committing" => CommitKept(s)
        PROVE  Calm(k) /\ UNCHANGED file
    BY <1>5, <1>a, CommitGoesOn DEF Calm
  <1>6. ASSUME NEW s \in Save, BeforeCommit(s)
        PROVE  Calm(k) /\ UNCHANGED file
    BY <1>0, <1>5, <1>6, WorkFrame
  <1>7. ASSUME Unseen \/ IndexFile \/ \E j \in Key : IndexStat(j)
        PROVE  Calm(k) /\ UNCHANGED file
    BY <1>5, <1>7 DEF Unseen, IndexStat, IndexFile, CommitKept, saveVars, diskVars
  <1>8. Calm(k)
    BY <1>1, <1>2, <1>3, <1>4, <1>6, <1>7, IndexSteps
  <1>9. Restart => \A p \in Part : unlinks[k][p] = 0
    BY <1>4
  <1>10. UNCHANGED file[k] \/ \E p \in Part : Unlink(k, p)
    BY <1>1, <1>2, <1>3, <1>4, <1>6, <1>7, IndexSteps
  <1> QED
    BY <1>8, <1>9, <1>10

-----------------------------------------------------------------------------
(* The index                                                               *)

\* The files of what leaves the index, and of nothing else, are to be unlinked.
Removing ==
  unlinks' = [k \in Key |-> IF k \in Cached(index) \ Cached(index')
                            THEN [p \in Part |-> unlinks[k][p] + 1] ELSE unlinks[k]]

\* What is removed has a size.
LEMMA RecordedIs ==
  ASSUME Sound(index), NEW removed \in SUBSET Cached(index)
  PROVE  RecordedSize(removed) \in Nat
PROOF
  <1>1. /\ index.size \in [Key -> Nat] /\ Cached(index) \in SUBSET Key
        /\ IsFiniteSet(Cached(index))
    BY Fields DEF Sound
  <1>2. IsFiniteSet(removed) /\ \A k \in removed : index.size[k] \in Nat
    BY <1>1, FS_Subset
  <1> QED
    BY <1>2, SumOfSizes DEF RecordedSize

\* More unlinks are still unlinks.
LEMMA RemovingType ==
  ASSUME unlinks \in [Key -> [Part -> Nat]], Removing
  PROVE  unlinks' \in [Key -> [Part -> Nat]]
PROOF
  <1>1. \A k \in Key, p \in Part : unlinks[k][p] + 1 \in Nat
    OBVIOUS
  <1>2. \A k \in Key : [p \in Part |-> unlinks[k][p] + 1] \in [Part -> Nat]
    BY <1>1
  <1> QED
    BY <1>2 DEF Removing

\* this.files.set
LEMMA IndexSetIs ==
  ASSUME IndexTypeOK, NEW k \in Key, NEW size \in Nat, NEW added \in Nat,
         IndexSet(k, size, added)
  PROVE  /\ Sound(index') /\ Used(index') <= MaxMemory /\ totalMemorySize' \in Int /\ Removing
         /\ \A x \in Cached(index') :
              \/ x \in Cached(index) /\ index'.size[x] = index.size[x]
                   /\ (x = k => SetThrows(size))
              \/ x = k /\ index'.size[x] = size /\ ~ TooLarge(size)
         /\ k \notin Cached(index') => SetThrows(size) \/ TooLarge(size)
         /\ k \in Cached(index') => SetThrows(size) \/ ~ TooLarge(size)
PROOF
  <1> DEFINE R == SetRemoves(index, k, size)
  <1>0. Sound(index) /\ Used(index) <= MaxMemory /\ totalMemorySize \in Int
    BY DEF IndexTypeOK
  <1>1. index' = CacheSet(index, k, size)
    BY DEF IndexSet
  <1>2. /\ Sound(index') /\ R = Cached(index) \ Cached(index')
        /\ Used(index') <= MaxMemory
    BY <1>0, <1>1, SetIs
  <1>3. RecordedSize(R) \in Nat
    BY <1>0, <1>2, RecordedIs
  <1>4. totalMemorySize' = totalMemorySize + added - RecordedSize(R)
    BY DEF IndexSet
  <1>5. Removing
    BY <1>2 DEF IndexSet, RemoveFiles, Removing
  <1> HIDE DEF R
  <1>6. totalMemorySize' \in Int
    BY <1>0, <1>3, <1>4
  <1>7. /\ \A x \in Cached(index') :
              \/ x \in Cached(index) /\ index'.size[x] = index.size[x]
                   /\ (x = k => SetThrows(size))
              \/ x = k /\ index'.size[x] = size /\ ~ TooLarge(size)
        /\ ~ SetThrows(size) /\ ~ TooLarge(size) => k \in Cached(index')
        /\ ~ SetThrows(size) /\ TooLarge(size) => k \notin Cached(index')
    BY <1>0, <1>1, SetSizes
  <1> QED
    BY <1>2, <1>5, <1>6, <1>7

\* this.files.delete
LEMMA IndexDeleteIs ==
  ASSUME IndexTypeOK, NEW k \in Key, IndexDelete(k)
  PROVE  /\ Sound(index') /\ Used(index') <= MaxMemory /\ totalMemorySize' \in Int /\ Removing
         /\ \A x \in Cached(index') : x \in Cached(index) /\ index'.size[x] = index.size[x]
PROOF
  <1> DEFINE R == DeleteRemoves(index, k)
  <1>0. Sound(index) /\ Used(index) <= MaxMemory /\ totalMemorySize \in Int
    BY DEF IndexTypeOK
  <1>1. /\ index.size \in [Key -> Nat] /\ Cached(index) \in SUBSET Key /\ Used(index) \in Nat
    BY <1>0, Fields DEF Sound
  <1>2. index' = CacheDelete(index, k) /\ totalMemorySize' = totalMemorySize - RecordedSize(R)
    BY DEF IndexDelete
  <1>3. /\ Sound(index') /\ Cached(index') = Cached(index) \ {k}
        /\ index'.size = [index.size EXCEPT ![k] = 0]
        /\ Used(index') = Used(index) - index.size[k]
    BY <1>0, <1>2, DeleteIs
  <1>4. R = Cached(index) \ Cached(index')
    BY <1>3 DEF DeleteRemoves
  <1>5. RecordedSize(R) \in Nat
    BY <1>0, <1>4, RecordedIs
  <1>6. Removing
    BY <1>4 DEF IndexDelete, RemoveFiles, Removing
  <1> HIDE DEF R
  <1>7. totalMemorySize' \in Int /\ Used(index') <= MaxMemory
    BY <1>0, <1>1, <1>2, <1>3, <1>5, MaxMemoryAssumption
  <1>8. \A x \in Cached(index') : x \in Cached(index) /\ index'.size[x] = index.size[x]
    BY <1>1, <1>3
  <1> QED
    BY <1>3, <1>6, <1>7, <1>8

\* What the index holds, in total and in unlinks, stays in its domain.
LEMMA IndexKept ==
  ASSUME IInv, IndexTypeOK, Scanned, [Next]_vars
  PROVE  /\ Sound(index') /\ Used(index') <= MaxMemory
         /\ totalMemorySize' \in Int
         /\ unlinks' \in [Key -> [Part -> Nat]]
PROOF
  <1> DEFINE Goal == /\ Sound(index') /\ Used(index') <= MaxMemory
                     /\ totalMemorySize' \in Int
                     /\ unlinks' \in [Key -> [Part -> Nat]]
  <1>0. /\ Sound(index) /\ Used(index) <= MaxMemory /\ totalMemorySize \in Int
        /\ unlinks \in [Key -> [Part -> Nat]]
    BY DEF IndexTypeOK
  <1>a. /\ \A s \in Save : fileSize[s] \in Nat
        /\ \A s \in Save : pc[s] = "committing" => fileName[s] \in Key
    BY DEF IInv, DiskTypeOK, Phases
  <1>b. ASSUME UNCHANGED <<index, unlinks>>, totalMemorySize' \in Int
        PROVE  Goal
    BY <1>0, <1>b
  <1>1. ASSUME UNCHANGED indexVars
        PROVE  Goal
    BY <1>0, <1>1, <1>b DEF indexVars
  <1>2. ASSUME NEW k \in Key, index' = CacheGet(index, k), UNCHANGED <<totalMemorySize, unlinks>>
        PROVE  Goal
    BY <1>0, <1>2, GetIs
  <1>3. ASSUME NEW k \in Key, IndexDelete(k)
        PROVE  Goal
    BY <1>0, <1>3, IndexDeleteIs, RemovingType
  <1>4. ASSUME NEW s \in Save, BeforeCommit(s)
        PROVE  Goal
    <2>1. UNCHANGED <<index, unlinks>>
      BY <1>4, WorkFrame DEF IInv
    <2>2. \/ UNCHANGED totalMemorySize \/ totalMemorySize' = totalMemorySize + fileSize[s]
          \/ \E size \in ChunkSize : totalMemorySize' = totalMemorySize + size
      BY <1>4 DEF BeforeCommit, Begin, Chunk, WriteMetadata, OpenTmp, Flush, WriteFails,
       InitFails, Abort, Complete, saveVars,
         indexVars
    <2>3. totalMemorySize \in Int /\ fileSize[s] \in Nat
      BY <1>0, <1>a
    <2>4. \A size \in ChunkSize : size \in Nat
      BY DiskAssumption
    <2>5. totalMemorySize' \in Int
      BY <2>2, <2>3, <2>4
    <2> QED
      BY <1>b, <2>1, <2>5
  <1>5. ASSUME NEW s \in Save, Publish(s)
        PROVE  Goal
    <2>1. IndexSet(fileName[s], fileSize[s], 0) /\ fileName[s] \in Key /\ fileSize[s] \in Nat
      BY <1>5, <1>a DEF Publish
    <2> QED
      BY <1>0, <2>1, IndexSetIs, RemovingType
  <1>6. ASSUME IndexFile
        PROVE  Goal
    <2>1. IndexSet(scan.key, scan.size, scan.size) /\ scan.key \in Key /\ scan.size \in Nat
      BY <1>6 DEF IndexFile, Scanned, IndexTypeOK
    <2> QED
      BY <1>0, <2>1, IndexSetIs, RemovingType
  <1>7. ASSUME NEW k \in Key, NEW p \in Part, Unlink(k, p)
        PROVE  Goal
    <2>1. unlinks[k][p] - 1 \in Nat
      BY <1>0, <1>7 DEF Unlink
    <2>2. unlinks' \in [Key -> [Part -> Nat]]
      BY <1>0, <1>7, <2>1 DEF Unlink
    <2> QED
      BY <1>0, <1>7, <2>2 DEF Unlink
  <1>8. ASSUME Restart
        PROVE  Goal
    BY <1>8, EmptyIs, MaxMemoryAssumption DEF Restart, NoUnlinks
  <1>9. ASSUME NEW s \in Save, NEW p \in Part, Rename(s, p)
        PROVE  UNCHANGED indexVars
    BY <1>9 DEF Rename
  <1>10. ASSUME NEW k \in Key, IndexStat(k)
         PROVE  UNCHANGED indexVars
    BY <1>10 DEF IndexStat
  <1> HIDE DEF Goal
  <1>11. Goal
    BY <1>1, <1>2, <1>3, <1>4, <1>5, <1>6, <1>7, <1>8, <1>9, <1>10, IndexSteps
  <1> QED
    BY <1>11 DEF Goal

\* The steps of the traversal that collects temporary files
LEMMA CollectSteps ==
  ASSUME [Next]_vars
  PROVE  \/ UNCHANGED gcVars \/ GcList \/ Restart
         \/ \E k \in Key : GcStat(k)
         \/ \E k \in Key, p \in Part : GcUnlink(k, p)
PROOF
  <1>1. CASE UNCHANGED vars
    BY <1>1 DEF vars
  <1>2. CASE Requests
    BY <1>2 DEF Requests, Begin, LoadStart, ReadStart
  <1>3. CASE Work
    <2>1. ASSUME NEW s \in Save,
                 \/ \E size \in ChunkSize : Chunk(s, size)
                 \/ FileStep(s) \/ Complete(s) \/ Abort(s)
                 \/ WriteFails(s) \/ InitFails(s)
          PROVE  UNCHANGED gcVars
      BY <2>1 DEF FileStep, Chunk, Complete, Abort, WriteFails, InitFails, WriteMetadata,
         OpenTmp, Flush, Rename, Publish
    <2>2. ASSUME NEW k \in Key, Expire(k) \/ Delete(k) \/ Removal(k) \/ TmpExpires(k)
          PROVE  UNCHANGED gcVars
      BY <2>2 DEF Expire, Delete, Removal, Unlink, TmpExpires
    <2>3. CASE \/ \E l \in Load : LoadStat(l) \/ LoadMetadata(l)
               \/ \E r \in Read : ReadOpen(r) \/ ReadChunk(r)
      BY <2>3 DEF LoadStat, LoadMetadata, ReadOpen, ReadChunk
    <2> QED
      BY <1>3, <2>1, <2>2, <2>3 DEF Work
  <1>4. CASE Indexing
    BY <1>4 DEF Indexing, IndexFile, IndexStat
  <1>5. CASE Death
    BY <1>5 DEF Death, Crash, LoadCrash, OpenFails, Exit
  <1> QED
    BY <1>1, <1>2, <1>3, <1>4, <1>5 DEF Next

\* The steps that change which temporary files are past their age limit
LEMMA StaleSteps ==
  ASSUME [Next]_vars
  PROVE  \/ UNCHANGED stale
         \/ \E s \in Save : OpenTmp(s) \/ \E p \in Part : Rename(s, p)
         \/ \E k \in Key : TmpExpires(k) \/ \E p \in Part : GcUnlink(k, p)
PROOF
  <1> USE DEF diskVars
  <1>1. CASE UNCHANGED vars
    BY <1>1 DEF vars
  <1>2. CASE Requests
    BY <1>2 DEF Requests, Begin, LoadStart, ReadStart
  <1>3. CASE Work
    <2>1. ASSUME NEW s \in Save,
                 \/ \E size \in ChunkSize : Chunk(s, size)
                 \/ FileStep(s) \/ Complete(s) \/ Abort(s)
                 \/ WriteFails(s) \/ InitFails(s)
          PROVE  UNCHANGED stale \/ OpenTmp(s) \/ \E p \in Part : Rename(s, p)
      BY <2>1 DEF FileStep, Chunk, Complete, Abort, WriteFails, InitFails, WriteMetadata,
         Flush, Publish
    <2>2. ASSUME NEW k \in Key, Expire(k) \/ Delete(k) \/ Removal(k) \/ GcStat(k)
          PROVE  UNCHANGED stale
      BY <2>2 DEF Expire, Delete, Removal, Unlink, GcStat
    <2>3. CASE \/ GcList
               \/ \E l \in Load : LoadStat(l) \/ LoadMetadata(l)
               \/ \E r \in Read : ReadOpen(r) \/ ReadChunk(r)
      BY <2>3 DEF GcList, LoadStat, LoadMetadata, ReadOpen, ReadChunk
    <2> QED
      BY <1>3, <2>1, <2>2, <2>3 DEF Work
  <1>4. CASE Indexing
    BY <1>4 DEF Indexing, IndexFile, IndexStat
  <1>5. CASE Death
    BY <1>5 DEF Death, Crash, LoadCrash, OpenFails, Exit, Restart
  <1> QED
    BY <1>1, <1>2, <1>3, <1>4, <1>5 DEF Next

\* A process dies in no other way, and none that is exiting goes on.
LEMMA CrashSteps ==
  ASSUME [Next]_vars
  PROVE  (UNCHANGED crashes /\ exiting' \in {exiting, TRUE}) \/ Restart
PROOF
  <1> USE DEF faultVars
  <1>1. CASE UNCHANGED vars
    BY <1>1 DEF vars
  <1>2. CASE Requests
    BY <1>2 DEF Requests, Begin, LoadStart, ReadStart
  <1>3. CASE Work
    <2>1. ASSUME NEW s \in Save,
                 \/ \E size \in ChunkSize : Chunk(s, size)
                 \/ FileStep(s) \/ Complete(s) \/ Abort(s)
                 \/ WriteFails(s) \/ InitFails(s)
          PROVE  UNCHANGED crashes /\ exiting' \in {exiting, TRUE}
      BY <2>1 DEF FileStep, Chunk, Complete, Abort, WriteFails, InitFails, WriteMetadata,
         OpenTmp, Flush, Rename, Publish
    <2>2. ASSUME NEW k \in Key, \/ Expire(k) \/ Delete(k) \/ Removal(k) \/ TmpExpires(k)
                                \/ GcStat(k) \/ \E p \in Part : GcUnlink(k, p)
          PROVE  UNCHANGED crashes /\ exiting' \in {exiting, TRUE}
      BY <2>2 DEF Expire, Delete, Removal, Unlink, TmpExpires, GcStat, GcUnlink
    <2>3. CASE \/ GcList
               \/ \E l \in Load : LoadStat(l) \/ LoadMetadata(l)
               \/ \E r \in Read : ReadOpen(r) \/ ReadChunk(r)
      BY <2>3 DEF GcList, LoadStat, LoadMetadata, ReadOpen, ReadChunk
    <2> QED
      BY <1>3, <2>1, <2>2, <2>3 DEF Work
  <1>4. CASE Indexing
    BY <1>4 DEF Indexing, IndexFile, IndexStat
  <1>5. CASE Death
    BY <1>5 DEF Death, Crash, LoadCrash, OpenFails, Exit
  <1> QED
    BY <1>1, <1>2, <1>3, <1>4, <1>5 DEF Next

\* Every variable of the index and of start-up stays in its domain.
LEMMA IndexTypeStep ==
  ASSUME IInv, IndexTypeOK, Scanned, [Next]_vars
  PROVE  IndexTypeOK'
PROOF
  <1>0. /\ Sound(index') /\ Used(index') <= MaxMemory /\ totalMemorySize' \in Int
        /\ unlinks' \in [Key -> [Part -> Nat]]
    BY IndexKept
  <1>a. /\ \A s \in Save : pc[s] # "idle" => fileName[s] \in Key
        /\ content \in [Save -> Seq(Node)] /\ file \in [Key -> [Part -> Node]]
    BY DEF IInv, DiskTypeOK, Phases
  <1> USE DEF IndexTypeOK
  <1>1. stale' \subseteq Key
    <2>1. ASSUME NEW s \in Save, OpenTmp(s) \/ \E p \in Part : Rename(s, p)
          PROVE  stale' \subseteq stale
      BY <2>1 DEF OpenTmp, Rename
    <2>2. ASSUME NEW k \in Key, TmpExpires(k) \/ \E p \in Part : GcUnlink(k, p)
          PROVE  stale' \subseteq stale \cup {k}
      BY <2>2 DEF TmpExpires, GcUnlink
    <2>3. \/ UNCHANGED stale
          \/ \E s \in Save : OpenTmp(s) \/ \E p \in Part : Rename(s, p)
          \/ \E k \in Key : TmpExpires(k) \/ \E p \in Part : GcUnlink(k, p)
      BY StaleSteps
    <2> QED
      BY <2>1, <2>2, <2>3
  <1>2. gcListed' \subseteq Key /\ gcAwaited' \in Key \cup {Null} /\ gcUnlinks' \subseteq Key \X Part
    <2>1. CASE UNCHANGED gcVars
      BY <2>1 DEF gcVars
    <2>2. ASSUME NEW k \in Key, GcStat(k)
          PROVE  /\ gcListed' \subseteq gcListed
                 /\ gcAwaited' \in {gcAwaited, k}
                 /\ gcUnlinks' \subseteq gcUnlinks \cup ({k} \X Part)
      BY <2>2 DEF GcStat
    <2>3. ASSUME NEW k \in Key, NEW p \in Part, GcUnlink(k, p)
          PROVE  /\ gcListed' = gcListed
                 /\ gcAwaited' \in {gcAwaited, Null}
                 /\ gcUnlinks' \subseteq gcUnlinks
      BY <2>3 DEF GcUnlink
    <2>4. CASE GcList
      BY <2>4 DEF GcList
    <2>5. CASE Restart
      BY <2>5 DEF Restart
    <2>6. \A k \in Key : {k} \X Part \subseteq Key \X Part
      OBVIOUS
    <2>7. CASE \E k \in Key : GcStat(k)
      BY <2>2, <2>6, <2>7
    <2>8. CASE \E k \in Key, p \in Part : GcUnlink(k, p)
      BY <2>3, <2>8
    <2> QED
      BY <2>1, <2>4, <2>5, <2>7, <2>8, CollectSteps
  <1>3. indexed' \subseteq Key /\ scan' \in [key: Key \cup {Null}, size: Nat]
    <2>1. NoScan \in [key: Key \cup {Null}, size: Nat]
      BY DEF NoScan
    <2>2. ASSUME NEW k \in Key, IndexStat(k)
          PROVE  indexed' \subseteq Key /\ scan' \in [key: Key \cup {Null}, size: Nat]
      <3>1. CASE \E p \in Part : file[k][p] = Null
        BY <2>2, <3>1 DEF IndexStat
      <3>2. CASE ~ \E p \in Part : file[k][p] = Null
        <4>1. file[k]["bin"] \in Save
          BY <1>a, <3>2 DEF Part, Node
        <4>2. Len(content[file[k]["bin"]]) \in Nat
          BY <1>a, <4>1, LenProperties
        <4> QED
          BY <2>2, <3>2, <4>2 DEF IndexStat
      <3> QED
        BY <3>1, <3>2
    <2>3. CASE IndexFile
      BY <2>1, <2>3 DEF IndexFile, Scanned
    <2>4. CASE Restart
      BY <2>1, <2>4 DEF Restart
    <2>5. CASE UNCHANGED startVars
      BY <2>5 DEF startVars
    <2>6. \A s \in Save, p \in Part : Publish(s) \/ Rename(s, p) => UNCHANGED startVars
      BY DEF Publish, Rename
    <2>7. \A k \in Key, p \in Part : Unlink(k, p) => UNCHANGED startVars
      BY DEF Unlink
    <2>8. \A s \in Save : BeforeCommit(s) => UNCHANGED startVars
      BY WorkFrame DEF IInv
    <2>9. Unseen => UNCHANGED startVars
      BY DEF Unseen
    <2>10. (\E s \in Save : Publish(s)) => UNCHANGED startVars
      BY DEF Publish
    <2> QED
      BY <2>2, <2>3, <2>4, <2>5, <2>6, <2>7, <2>8, <2>9, <2>10, IndexSteps
  <1>4. crashes' \in Nat /\ exiting' \in BOOLEAN
    <2>1. (UNCHANGED crashes /\ exiting' \in {exiting, TRUE}) \/ Restart
      BY CrashSteps
    <2>2. crashes' \in Nat
      <3>1. Restart => crashes' = crashes + 1
        BY DEF Restart
      <3>2. crashes' = crashes \/ crashes' = crashes + 1
        BY <2>1, <3>1, Zenon
      <3> QED
        BY <3>2
    <2>3. Restart => exiting' = FALSE
      BY DEF Restart
    <2>4. exiting' \in BOOLEAN
      BY <2>1, <2>3, Zenon
    <2> QED
      BY <2>2, <2>4
  <1>5. disturbed' \subseteq Key
    <2>1. ASSUME NEW s \in Save, NEW p \in Part, Rename(s, p)
          PROVE  disturbed' \subseteq Key
      <3>1. fileName[s] \in Key
        BY <1>a, <2>1 DEF Rename
      <3> QED
        BY <2>1, <3>1 DEF Rename
    <2>2. ASSUME NEW s \in Save, Publish(s)
          PROVE  disturbed' \subseteq Key
      BY <2>2 DEF Publish
    <2>3. ASSUME NEW k \in Key, NEW p \in Part, Unlink(k, p)
          PROVE  disturbed' \subseteq Key
      BY <2>3 DEF Unlink
    <2>4. CASE Restart
      BY <2>4 DEF Restart
    <2>5. \A s \in Save : BeforeCommit(s) => UNCHANGED disturbed
      BY WorkFrame DEF IInv
    <2>6. ASSUME NEW k \in Key, IndexStat(k)
          PROVE  UNCHANGED disturbed
      BY <2>6 DEF IndexStat
    <2>7. Unseen \/ IndexFile => UNCHANGED disturbed
      BY DEF Unseen, IndexFile
    <2> QED
      BY <2>1, <2>2, <2>3, <2>4, <2>5, <2>6, <2>7, IndexSteps
  <1> QED
    BY <1>0, <1>1, <1>2, <1>3, <1>4, <1>5

-----------------------------------------------------------------------------
(* Commits                                                                 *)

\* No more is sent than is counted.
LEMMA SizesStep ==
  ASSUME IInv, Sizes, [Next]_vars
  PROVE  Sizes'
PROOF
  <1> USE DEF Sizes
  <1>1. CASE UNCHANGED <<sent, fileSize>>
    BY <1>1
  <1>2. ASSUME NEW s \in Save, Counting(s)
        PROVE  Sizes'
    <2>1. /\ sent \in [Save -> Nat] /\ fileSize \in [Save -> Nat] /\ ChunkSize \subseteq Nat
          /\ pc[s] \in {"idle", "init"} => sent[s] = 0
      BY DiskAssumption DEF IInv, DiskTypeOK, Phases
    <2>2. CASE \E k \in Key, size \in ChunkSize : Begin(s, k, size)
      BY <2>1, <2>2 DEF Begin
    <2>3. CASE \E size \in ChunkSize : Chunk(s, size)
      <3>1. PICK size \in ChunkSize : /\ sent' = [sent EXCEPT ![s] = @ + size]
                                      /\ fileSize' = [fileSize EXCEPT ![s] = @ + size]
        BY <2>3 DEF Chunk
      <3>2. size \in Nat
        BY <2>1
      <3> QED
        BY <2>1, <3>1, <3>2
    <2>4. CASE WriteMetadata(s)
      <3>1. CASE reply[s] = "none"
        BY <2>1, <2>4, <3>1 DEF WriteMetadata
      <3>2. CASE reply[s] # "none"
        BY <2>4, <3>2 DEF WriteMetadata
      <3> QED
        BY <3>1, <3>2
    <2> QED
      BY <1>2, <2>2, <2>3, <2>4 DEF Counting
  <1> QED
    BY <1>1, <1>2, CountSteps

\* A commit that goes on was one before or begins with both renames to come.
LEMMA CommitSteps ==
  ASSUME IInv, [Next]_vars, NEW s \in Save, pc'[s] = "committing"
  PROVE  \/ Complete(s) /\ fileName'[s] = fileName[s] /\ renames'[s] = Part /\ reply'[s] = "none"
         \/ /\ pc[s] = "committing" /\ fileName'[s] = fileName[s]
            /\ CommitKept(s) \/ \E p \in Part : Rename(s, p)
PROOF
  <1>0. DiskTypeOK
    BY DEF IInv
  <1>1. ASSUME NEW t \in Save, BeforeCommit(t)
        PROVE  \/ Complete(s) /\ fileName'[s] = fileName[s] /\ renames'[s] = Part /\ reply'[s] = "none"
               \/ pc[s] = "committing" /\ CommitKept(s)
    <2>1. CASE pc[s] = "committing"
      BY <1>0, <1>1, <2>1, WorkFrame
    <2>2. CASE pc[s] # "committing"
      <3>1. t = s
        BY <1>0, <1>1, <2>2, WorkFrame DEF CommitKept
      <3>2. Complete(s)
        BY <1>0, <1>1, <2>2, <3>1 DEF BeforeCommit, Begin, Chunk, WriteMetadata, OpenTmp,
           Flush, WriteFails, InitFails, Abort, saveVars, DiskTypeOK
      <3> QED
        BY <1>0, <3>2 DEF Complete, DiskTypeOK
    <2> QED
      BY <2>1, <2>2
  <1>2. ASSUME NEW t \in Save, Publish(t)
        PROVE  pc[s] = "committing" /\ CommitKept(s)
    BY <1>0, <1>2 DEF Publish, CommitKept, DiskTypeOK
  <1>3. ASSUME NEW t \in Save, NEW p \in Part, Rename(t, p)
        PROVE  pc[s] = "committing" /\ fileName'[s] = fileName[s] /\ (CommitKept(s) \/ Rename(s, p))
    BY <1>0, <1>3 DEF Rename, CommitKept, DiskTypeOK
  <1>4. CASE UNCHANGED saveVars
    BY <1>4 DEF saveVars, CommitKept
  <1>5. ~ Restart
    BY DEF Restart
  <1>6. Unseen \/ IndexFile => UNCHANGED saveVars
    BY DEF Unseen, IndexFile
  <1>7. ASSUME NEW k \in Key, IndexStat(k) \/ \E p \in Part : Unlink(k, p)
        PROVE  UNCHANGED saveVars
    BY <1>7 DEF IndexStat, Unlink
  <1>8. CASE \E t \in Save : BeforeCommit(t)
    BY <1>1, <1>8 DEF CommitKept
  <1>9. CASE \E t \in Save : Publish(t) \/ \E p \in Part : Rename(t, p)
    BY <1>2, <1>3, <1>9 DEF CommitKept
  <1> QED
    BY <1>4, <1>5, <1>6, <1>7, <1>8, <1>9, IndexSteps

\* A name stays disturbed until the commit of that name ends well.
LEMMA DisturbedKept ==
  ASSUME IInv, IndexTypeOK, [Next]_vars, NEW k \in disturbed, k \notin disturbed'
  PROVE  \E s \in Save : Publish(s) /\ fileName[s] = k
PROOF
  <1>1. \A s \in Save : BeforeCommit(s) => UNCHANGED disturbed
    BY WorkFrame DEF IInv
  <1>2. \A s \in Save, p \in Part : Rename(s, p) => disturbed \subseteq disturbed'
    BY DEF Rename
  <1>3. \A j \in Key, p \in Part : Unlink(j, p) => disturbed \subseteq disturbed'
    BY DEF Unlink
  <1>4. \A j \in Key : IndexStat(j) => UNCHANGED disturbed
    BY DEF IndexStat
  <1>5. Unseen \/ IndexFile => UNCHANGED disturbed
    BY DEF Unseen, IndexFile
  <1>6. Restart => disturbed \subseteq disturbed'
    BY DEF Restart
  <1>7. \A s \in Save : Publish(s) => disturbed' \in {disturbed, disturbed \ {fileName[s]}}
    BY DEF Publish
  <1>8. PICK s \in Save : Publish(s)
    BY <1>1, <1>2, <1>3, <1>4, <1>5, <1>6, IndexSteps
  <1> QED
    BY <1>7, <1>8

\* While a commit has calls left to run, nobody else ends one of that name.
LEMMA OwnDisturbance ==
  ASSUME IInv, IndexTypeOK, [Next]_vars, NEW s \in Save,
         pc[s] = "committing", ~Quiet(s), ~Publish(s), fileName[s] \in disturbed
  PROVE  fileName[s] \in disturbed'
PROOF
  <1> SUFFICES ASSUME fileName[s] \notin disturbed' PROVE FALSE
    OBVIOUS
  <1>1. PICK t \in Save : Publish(t) /\ fileName[t] = fileName[s]
    BY DisturbedKept
  <1>2. t # s /\ ~Quiet(t)
    BY <1>1, CommitQuiet DEF Publish
  <1> QED
    BY <1>1, <1>2, OneBusy DEF IInv

\* A commit that fails disturbs its name, until it has nothing left to do.
LEMMA FailuresStep ==
  ASSUME IInv, IndexTypeOK, Failures, [Next]_vars
  PROVE  Failures'
PROOF
  <1> SUFFICES ASSUME NEW s \in Save, pc'[s] = "committing", ~Quiet(s)', reply'[s] # "none"
               PROVE  fileName'[s] \in disturbed'
    BY DEF Failures
  <1>1. /\ pc[s] = "committing" /\ fileName'[s] = fileName[s] /\ ~Publish(s)
        /\ CommitKept(s) \/ \E p \in Part : Rename(s, p)
    <2>1. ~ Publish(s)
      BY DEF Publish, IInv, DiskTypeOK
    <2> QED
      BY <2>1, CommitSteps
  <1>2. ASSUME NEW p \in Part, Rename(s, p)
        PROVE  ~Quiet(s) /\ (reply[s] # "none" \/ fileName[s] \in disturbed')
    <2>1. ~Quiet(s)
      BY <1>1, <1>2, CommitQuiet DEF Rename
    <2> QED
      BY <1>2, <2>1 DEF Rename
  <1>3. ASSUME CommitKept(s)
        PROVE  ~Quiet(s) /\ reply[s] # "none"
    BY <1>1, <1>3 DEF CommitKept, Quiet, Renamed
  <1>4. ~Quiet(s) /\ (reply[s] # "none" \/ fileName[s] \in disturbed')
    BY <1>1, <1>2, <1>3
  <1>5. reply[s] # "none" => fileName[s] \in disturbed
    BY <1>1, <1>4 DEF Failures
  <1> QED
    BY <1>1, <1>4, <1>5, OwnDisturbance

\* What a commit has renamed is there, or the name is disturbed.
LEMMA StandingStep ==
  ASSUME IInv, IndexTypeOK, Standing, [Next]_vars
  PROVE  Standing'
PROOF
  <1> SUFFICES ASSUME NEW s \in Save, NEW p \in Part, pc'[s] = "committing",
                      reply'[s] = "none", p \notin renames'[s], fileName'[s] \notin disturbed'
               PROVE  file'[fileName'[s]][p] # Null
    BY DEF Standing, Committing
  <1>1. /\ pc[s] = "committing" /\ fileName'[s] = fileName[s] /\ ~Publish(s)
        /\ CommitKept(s) \/ \E q \in Part : Rename(s, q)
    <2>1. ~ Publish(s)
      BY DEF Publish, IInv, DiskTypeOK
    <2> QED
      BY <2>1, CommitSteps
  <1> DEFINE k == fileName[s]
  <1>2. k \in Key /\ DiskTypeOK
    BY <1>1 DEF IInv, Phases
  <1>3. reply[s] = "none" /\ ~Quiet(s)
    <2>1. reply[s] = "none"
      BY <1>1, <1>2 DEF Rename, CommitKept, DiskTypeOK
    <2> QED
      BY <1>1, <2>1, CommitQuiet
  <1>4. k \notin disturbed
    BY <1>1, <1>3, OwnDisturbance
  <1>5. ASSUME NEW q \in Part, Rename(s, q)
        PROVE  file'[k][p] # Null
    <2>1. tmp[k][q] # Null
      BY <1>1, <1>5 DEF Rename
    <2>2. CASE p = q
      BY <1>2, <1>5, <2>1, <2>2 DEF Rename, DiskTypeOK
    <2>3. CASE p # q
      <3>1. p \notin renames[s]
        BY <1>2, <1>5, <2>3 DEF Rename, DiskTypeOK
      <3>2. file[k][p] # Null
        BY <1>1, <1>3, <1>4, <3>1 DEF Standing, Committing
      <3> QED
        BY <1>2, <1>5, <2>1, <2>3, <3>2 DEF Rename, DiskTypeOK
    <2> QED
      BY <2>2, <2>3
  <1>6. ASSUME CommitKept(s)
        PROVE  file'[k][p] # Null
    <2>1. file[k][p] # Null /\ p \notin renames[s]
      BY <1>1, <1>3, <1>4, <1>6 DEF Standing, Committing, CommitKept
    <2>2. ASSUME NEW t \in Save, NEW q \in Part, Rename(t, q)
          PROVE  file'[k][p] # Null
      BY <1>2, <2>1, <2>2 DEF Rename, DiskTypeOK
    <2>3. ASSUME NEW j \in Key, NEW q \in Part, Unlink(j, q)
          PROVE  file'[k][p] # Null
      <3>1. j # k \/ q # p
        BY <1>1, <2>1, <2>3 DEF Unlink
      <3> QED
        BY <1>2, <2>1, <2>3, <3>1 DEF Unlink, DiskTypeOK
    <2>4. UNCHANGED file => file'[k][p] # Null
      BY <2>1
    <2> QED
      BY <1>2, <2>2, <2>3, <2>4, FileChanges
  <1> QED
    BY <1>1, <1>5, <1>6

-----------------------------------------------------------------------------
(* Entries and files                                                       *)

\* What happens to the entry of one name, and to its unlinks.
LEMMA EntrySteps ==
  ASSUME IInv, IndexTypeOK, Scanned, [Next]_vars, NEW x \in Key
  PROVE  /\ x \in Cached(index')
              => \/ x \in Cached(index) /\ index'.size[x] = index.size[x]
                 \/ \E s \in Save : Publish(s) /\ fileName[s] = x
                 \/ IndexFile /\ scan.key = x /\ index'.size[x] = scan.size
         /\ \/ Restart
            \/ \E p \in Part : Unlink(x, p)
            \/ /\ UNCHANGED unlinks[x]
               /\ x \in Cached(index) => x \in Cached(index')
            \/ \A p \in Part : unlinks'[x][p] = unlinks[x][p] + 1
PROOF
  <1> DEFINE Enters == x \in Cached(index')
                         => \/ x \in Cached(index) /\ index'.size[x] = index.size[x]
                            \/ \E s \in Save : Publish(s) /\ fileName[s] = x
                            \/ IndexFile /\ scan.key = x /\ index'.size[x] = scan.size
             Removes == \/ /\ UNCHANGED unlinks[x]
                           /\ x \in Cached(index) => x \in Cached(index')
                        \/ \A p \in Part : unlinks'[x][p] = unlinks[x][p] + 1
  <1>0. /\ Sound(index) /\ unlinks \in [Key -> [Part -> Nat]]
        /\ \A s \in Save : fileSize[s] \in Nat
        /\ \A s \in Save : pc[s] = "committing" => fileName[s] \in Key
    BY DEF IndexTypeOK, IInv, DiskTypeOK, Phases
  <1>1. Removing => Removes
    BY DEF Removing
  <1>2. ASSUME UNCHANGED <<index, unlinks>>
        PROVE  Enters /\ Removes
    BY <1>2
  <1>3. ASSUME NEW k \in Key, index' = CacheGet(index, k), UNCHANGED unlinks
        PROVE  Enters /\ Removes
    <2>1. Cached(index') = Cached(index) /\ index'.size = index.size
      BY <1>0, <1>3, GetIs
    <2> QED
      BY <1>3, <2>1
  <1>4. ASSUME NEW k \in Key, IndexDelete(k)
        PROVE  Enters /\ Removes
    BY <1>1, <1>4, IndexDeleteIs
  <1>5. ASSUME NEW s \in Save, Publish(s)
        PROVE  Enters /\ Removes
    <2>1. IndexSet(fileName[s], fileSize[s], 0) /\ fileName[s] \in Key /\ fileSize[s] \in Nat
      BY <1>0, <1>5 DEF Publish
    <2>2. /\ Removing
          /\ \A y \in Cached(index') :
               \/ y \in Cached(index) /\ index'.size[y] = index.size[y]
               \/ y = fileName[s]
      BY <2>1, IndexSetIs
    <2> QED
      BY <1>1, <1>5, <2>2
  <1>6. ASSUME IndexFile
        PROVE  Enters /\ Removes
    <2>1. IndexSet(scan.key, scan.size, scan.size) /\ scan.key \in Key /\ scan.size \in Nat
      BY <1>6 DEF IndexFile, Scanned, IndexTypeOK
    <2>2. /\ Removing
          /\ \A y \in Cached(index') :
               \/ y \in Cached(index) /\ index'.size[y] = index.size[y]
               \/ y = scan.key /\ index'.size[y] = scan.size
      BY <2>1, IndexSetIs
    <2> QED
      BY <1>1, <1>6, <2>2
  <1>7. ASSUME NEW k \in Key, NEW p \in Part, Unlink(k, p)
        PROVE  Enters /\ (Removes \/ Unlink(x, p))
    BY <1>0, <1>7 DEF Unlink
  <1>8. ASSUME Restart
        PROVE  Enters
    BY <1>8, EmptyIs DEF Restart
  <1>9. ASSUME NEW s \in Save, NEW p \in Part, Rename(s, p)
        PROVE  UNCHANGED <<index, unlinks>>
    BY <1>9 DEF Rename, indexVars
  <1>10. ASSUME NEW k \in Key, IndexStat(k)
         PROVE  UNCHANGED <<index, unlinks>>
    BY <1>10 DEF IndexStat, indexVars
  <1>11. ASSUME NEW s \in Save, BeforeCommit(s)
         PROVE  UNCHANGED <<index, unlinks>>
    BY <1>11, WorkFrame DEF IInv
  <1>12. UNCHANGED indexVars => UNCHANGED <<index, unlinks>>
    BY DEF indexVars
  <1> HIDE DEF Enters, Removes
  <1>13. Enters /\ (Removes \/ Restart \/ \E p \in Part : Unlink(x, p))
    BY <1>2, <1>3, <1>4, <1>5, <1>6, <1>7, <1>8, <1>9, <1>10, <1>11, <1>12, IndexSteps
  <1> QED
    BY <1>13 DEF Enters, Removes

\* How start-up passes a name, and what it has measured
LEMMA StartSteps ==
  ASSUME IInv, IndexTypeOK, [Next]_vars
  PROVE  \/ UNCHANGED startVars
         \/ \E k \in Key : IndexStat(k)
         \/ IndexFile
         \/ Restart
PROOF
  <1>1. \A s \in Save : BeforeCommit(s) => UNCHANGED startVars
    BY WorkFrame DEF IInv
  <1>2. \A s \in Save : Publish(s) => UNCHANGED startVars
    BY DEF Publish
  <1>3. \A s \in Save, p \in Part : Rename(s, p) => UNCHANGED startVars
    BY DEF Rename
  <1>4. \A k \in Key, p \in Part : Unlink(k, p) => UNCHANGED startVars
    BY DEF Unlink
  <1>5. Unseen => UNCHANGED startVars
    BY DEF Unseen
  <1> QED
    BY <1>1, <1>2, <1>3, <1>4, <1>5, IndexSteps

\* A commit that ends well leaves a pair of its own files, unless it was disturbed.
LEMMA PublishPair ==
  ASSUME StoreInv, CommitInv, Sizes, Standing, NEW k, k \notin disturbed',
         NEW s \in Save, Publish(s), fileName[s] = k
  PROVE  /\ s \in completed /\ file[k] = [bin |-> fd[s], metadata |-> s]
         /\ DiskSize(k) \in Nat /\ DiskSize(k) <= sent[s]
         /\ sent[s] \in Nat /\ fileSize[s] \in Nat /\ sent[s] <= fileSize[s]
         /\ file' = file /\ completed' = completed /\ fileName' = fileName /\ fd' = fd
PROOF
  <1>0. DiskTypeOK /\ Phases
    BY DEF StoreInv, IInv
  <1>1. /\ pc[s] = "committing" /\ renames[s] = {} /\ Committing(s)
        /\ UNCHANGED <<file, completed, fileName, fd>>
    BY DEF Publish, Renamed, Committing, diskVars
  <1>2. k \in Key /\ s \in completed /\ fd[s] # Null
    BY <1>0, <1>1 DEF Phases
  <1>3. \A p \in Part : file[k][p] # Null
    <2>1. CASE k \in disturbed
      BY <2>1 DEF Publish
    <2>2. CASE k \notin disturbed
      BY <1>1, <2>2 DEF Standing
    <2> QED
      BY <2>1, <2>2
  <1>4. file[k]["bin"] = fd[s] /\ file[k]["metadata"] = s
    BY <1>1, <1>3 DEF CommitInv, Renames, Kept, Part
  <1>5. file[k] = [bin |-> fd[s], metadata |-> s]
    <2>1. file[k] \in [Part -> Node]
      BY <1>0, <1>2 DEF DiskTypeOK
    <2> QED
      BY <1>4, <2>1 DEF Part
  <1>6. sent[s] \in Nat /\ fileSize[s] \in Nat /\ sent[s] <= fileSize[s]
    BY <1>0 DEF DiskTypeOK, Sizes
  <1>7. DiskSize(k) \in Nat /\ DiskSize(k) <= sent[s]
    <2>1. Whole(s, content[fd[s]])
      BY <1>1, <1>2 DEF StoreInv, Retirement, Retired
    <2>2. Len(content[fd[s]]) \in Nat /\ Len(content[fd[s]]) <= sent[s]
      BY <1>0, <2>1, WholeLength
    <2> QED
      BY <1>2, <1>4, <2>1, <2>2 DEF DiskSize
  <1> QED
    BY <1>1, <1>2, <1>5, <1>6, <1>7

\* Two files of one name are a pair, also after a step.
LEMMA PairsStep ==
  ASSUME StoreInv, CommitInv, IndexTypeOK, Sizes, Failures, Standing, Pairs, [Next]_vars
  PROVE  Pairs'
PROOF
  <1> SUFFICES ASSUME NEW k \in Key, Calm(k)', BothThere(k)'
               PROVE  Paired(k)'
    BY DEF Pairs
  <1>0. IInv
    BY DEF StoreInv
  <1>1. ASSUME NEW s \in Save, Publish(s), fileName[s] = k
        PROVE  Paired(k)'
    <2>1. k \notin disturbed'
      BY DEF Calm
    <2>2. /\ s \in completed /\ file[k] = [bin |-> fd[s], metadata |-> s]
          /\ DiskSize(k) \in Nat /\ DiskSize(k) <= sent[s]
          /\ sent[s] \in Nat /\ fileSize[s] \in Nat /\ sent[s] <= fileSize[s]
          /\ file' = file /\ completed' = completed /\ fileName' = fileName /\ fd' = fd
      BY <1>1, <2>1, PublishPair
    <2> QED
      BY <1>1, <2>2 DEF Paired
  <1>2. CASE ~ \E s \in Save : Publish(s) /\ fileName[s] = k
    <2>1. Calm(k) /\ (UNCHANGED file[k] \/ \E p \in Part : Unlink(k, p))
      BY <1>0, <1>2, CalmStep
    <2>2. ~ \E p \in Part : Unlink(k, p)
      BY <1>0 DEF Unlink, BothThere, IInv, DiskTypeOK
    <2>3. UNCHANGED file[k] /\ BothThere(k)
      BY <2>1, <2>2 DEF BothThere
    <2>4. Paired(k)
      BY <2>1, <2>3 DEF Pairs
    <2> QED
      BY <1>0, <2>3, <2>4, PairedKept
  <1> QED
    BY <1>1, <1>2

\* An entry has a pair of files, which it covers, also after a step.
LEMMA EntriesStep ==
  ASSUME StoreInv, CommitInv, IndexTypeOK, Sizes, Failures, Standing, Pairs, Entries, Scanned,
         [Next]_vars
  PROVE  Entries'
PROOF
  <1> SUFFICES ASSUME NEW k \in Cached(index'), Calm(k)'
               PROVE  Paired(k)' /\ DiskSize(k)' <= index'.size[k]
    BY DEF Entries
  <1>0. IInv
    BY DEF StoreInv
  <1>a. /\ Sound(index') /\ k \in Key /\ index'.size[k] \in Nat
        /\ k \notin disturbed'
    BY <1>0, IndexKept, Fields DEF Sound, Calm
  <1>1. ASSUME NEW s \in Save, Publish(s), fileName[s] = k
        PROVE  Paired(k)' /\ DiskSize(k)' <= index'.size[k]
    <2>1. /\ s \in completed /\ file[k] = [bin |-> fd[s], metadata |-> s]
          /\ DiskSize(k) \in Nat /\ DiskSize(k) <= sent[s]
          /\ sent[s] \in Nat /\ fileSize[s] \in Nat /\ sent[s] <= fileSize[s]
          /\ file' = file /\ completed' = completed /\ fileName' = fileName /\ fd' = fd
      BY <1>1, <1>a, PublishPair
    <2>a. Paired(k)'
      BY <1>1, <2>1 DEF Paired
    <2>2. IndexSet(k, fileSize[s], 0)
      BY <1>1 DEF Publish
    <2>3. SetThrows(fileSize[s]) \/ index'.size[k] = fileSize[s]
      BY <1>a, <2>1, <2>2, IndexSetIs
    <2>4. sent[s] <= index'.size[k]
      BY <1>a, <2>1, <2>3 DEF SetThrows
    <2>5. DiskSize(k)' = DiskSize(k)
      BY <1>0, <1>a, <2>1, DataKept
    <2>6. DiskSize(k)' <= index'.size[k]
      BY <1>a, <2>1, <2>4, <2>5
    <2> QED
      BY <2>a, <2>6
  <1>2. CASE ~ \E s \in Save : Publish(s) /\ fileName[s] = k
    <2>1. Calm(k) /\ (UNCHANGED file[k] \/ \E p \in Part : Unlink(k, p))
      BY <1>0, <1>2, <1>a, CalmStep
    <2>2. ~ \E p \in Part : Unlink(k, p)
      BY <1>a DEF Unlink
    <2>3. UNCHANGED file[k]
      BY <2>1, <2>2
    <2>4. Paired(k) /\ DiskSize(k) <= index'.size[k]
      <3>1. CASE k \in Cached(index) /\ index'.size[k] = index.size[k]
        BY <2>1, <3>1 DEF Entries
      <3>2. CASE IndexFile /\ scan.key = k /\ index'.size[k] = scan.size
        <4>1. BothThere(k) /\ scan.size = DiskSize(k)
          BY <2>1, <3>2 DEF IndexFile, Scanned, Calm
        <4> QED
          BY <1>a, <2>1, <3>2, <4>1 DEF Pairs
      <3> QED
        BY <1>0, <1>2, <1>a, <3>1, <3>2, EntrySteps
    <2>5. DiskSize(k)' = DiskSize(k)
      BY <1>0, <1>a, <2>3, DataKept
    <2> QED
      BY <1>0, <1>a, <2>3, <2>4, <2>5, PairedKept
  <1> QED
    BY <1>1, <1>2

\* What start-up has measured is there until it is entered, or disturbed.
LEMMA ScannedStep ==
  ASSUME StoreInv, IndexTypeOK, Scanned, [Next]_vars
  PROVE  Scanned'
PROOF
  <1> SUFFICES ASSUME NEW k, scan' # NoScan, scan'.key = k
               PROVE  /\ k \in Key /\ k \notin indexed'
                      /\ k \notin disturbed' => BothThere(k)' /\ scan'.size = DiskSize(k)'
    BY DEF Scanned
  <1>0. IInv /\ DiskTypeOK
    BY DEF StoreInv, IInv
  <1>1. ASSUME NEW j \in Key, IndexStat(j)
        PROVE  k \in Key /\ k \notin indexed' /\ BothThere(k)' /\ scan'.size = DiskSize(k)'
    <2>1. /\ ~ \E p \in Part : file[j][p] = Null
          /\ scan' = [key |-> j, size |-> Len(content[file[j]["bin"]])]
          /\ j \notin indexed' /\ UNCHANGED <<file, content>>
      BY <1>1 DEF IndexStat, diskVars
    <2>2. j = k /\ scan'.size = Len(content[file[k]["bin"]])
      BY <2>1
    <2>3. BothThere(k)' /\ DiskSize(k)' = Len(content[file[k]["bin"]])
      BY <2>1 DEF BothThere, DiskSize, Part
    <2> QED
      BY <2>1, <2>2, <2>3
  <1>2. CASE UNCHANGED startVars
    <2>1. /\ scan' = scan /\ scan.key = k /\ k \in Key /\ k \notin indexed'
          /\ k \notin disturbed => BothThere(k) /\ scan.size = DiskSize(k)
      BY <1>2 DEF startVars, Scanned
    <2>2. ASSUME k \notin disturbed'
          PROVE  BothThere(k)' /\ scan.size = DiskSize(k)'
      <3>1. k \notin disturbed
        <4> SUFFICES ASSUME k \in disturbed PROVE FALSE
          OBVIOUS
        <4>1. PICK s \in Save : Publish(s) /\ fileName[s] = k
          BY <1>0, <2>2, DisturbedKept
        <4>2. disturbed' = disturbed
          BY <2>1, <4>1 DEF Publish
        <4> QED
          BY <2>2, <4>2
      <3>2. UNCHANGED file[k]
        <4>1. \A s \in Save, p \in Part : Rename(s, p) => UNCHANGED file[k]
          BY <1>0, <2>1, <2>2 DEF Rename, DiskTypeOK
        <4>2. \A j \in Key, p \in Part : Unlink(j, p) => UNCHANGED file[k]
          BY <1>0, <2>1, <2>2 DEF Unlink, DiskTypeOK
        <4> QED
          BY <1>0, <4>1, <4>2, FileChanges
      <3>3. DiskSize(k)' = DiskSize(k)
        BY <1>0, <2>1, <3>2, DataKept
      <3> QED
        BY <2>1, <3>1, <3>2, <3>3 DEF BothThere
    <2> QED
      BY <2>1, <2>2
  <1>3. IndexFile \/ Restart => scan' = NoScan
    BY DEF IndexFile, Restart
  <1> QED
    BY <1>0, <1>1, <1>2, <1>3, StartSteps

\* Data without metadata were refused, or are about to be unlinked, also after a step.
LEMMA HalvesStep ==
  ASSUME StoreInv, CommitInv, IndexTypeOK, Sizes, Failures, Standing, Scanned, Halves, Left,
         [Next]_vars
  PROVE  Halves'
PROOF
  <1> SUFFICES ASSUME NEW k \in Key, Calm(k)', file'[k]["bin"] # Null, unlinks'[k]["bin"] = 0
               PROVE  file'[k]["metadata"] # Null \/ Refused(k)'
    BY DEF Halves
  <1>0. IInv /\ DiskTypeOK /\ unlinks \in [Key -> [Part -> Nat]] /\ "bin" \in Part
    BY DEF StoreInv, IInv, IndexTypeOK, Part
  <1>1. ASSUME NEW s \in Save, Publish(s), fileName[s] = k
        PROVE  file'[k]["metadata"] # Null
    <2>1. k \notin disturbed'
      BY DEF Calm
    <2>2. file'[k] = [bin |-> fd[s], metadata |-> s]
      BY <1>1, <2>1, PublishPair
    <2> QED
      BY <2>2, DiskAssumption
  <1>2. CASE ~ \E s \in Save : Publish(s) /\ fileName[s] = k
    <2>1. /\ Calm(k) /\ (UNCHANGED file[k] \/ \E p \in Part : Unlink(k, p))
          /\ Restart => unlinks[k]["bin"] = 0
      BY <1>0, <1>2, CalmStep
    <2>2. ASSUME NEW p \in Part, Unlink(k, p)
          PROVE  Refused(k)'
      <3>1. p = "metadata" /\ file'[k]["bin"] = file[k]["bin"] /\ unlinks[k]["bin"] = 0
            /\ unlinks[k]["metadata"] > 0
        BY <1>0, <2>2 DEF Unlink, DiskTypeOK, Part
      <3>2. k \notin Cached(index)
        BY <2>2 DEF Unlink, Calm
      <3>3. Refused(k)
        BY <2>1, <3>1, <3>2 DEF Left
      <3> QED
        BY <1>0, <3>1, <3>3, RefusedKept
    <2>3. CASE UNCHANGED file[k] /\ ~ \E p \in Part : Unlink(k, p)
      <3>1. unlinks[k]["bin"] = 0
        <4>1. unlinks'[k]["bin"] # unlinks[k]["bin"] + 1
          BY <1>0
        <4> QED
          BY <1>0, <2>1, <2>3, <4>1, EntrySteps
      <3>2. file[k]["metadata"] # Null \/ Refused(k)
        BY <2>1, <2>3, <3>1 DEF Halves
      <3> QED
        BY <1>0, <2>3, <3>2, RefusedKept
    <2> QED
      BY <2>1, <2>2, <2>3
  <1> QED
    BY <1>1, <1>2

\* Data that have left the index were refused, or are about to be unlinked, also
\* after a step.
LEMMA LeftStep ==
  ASSUME StoreInv, CommitInv, IndexTypeOK, Sizes, Failures, Standing, Scanned, Halves, Left,
         [Next]_vars
  PROVE  Left'
PROOF
  <1> SUFFICES ASSUME NEW k \in Key, k \in indexed' \/ unlinks'[k]["metadata"] > 0,
                      Calm(k)', file'[k]["bin"] # Null, unlinks'[k]["bin"] = 0,
                      k \notin Cached(index')
               PROVE  Refused(k)'
    BY DEF Left
  <1>0. /\ IInv /\ DiskTypeOK /\ unlinks \in [Key -> [Part -> Nat]]
        /\ "bin" \in Part /\ "metadata" \in Part
    BY DEF StoreInv, IInv, IndexTypeOK, Part
  <1>1. ASSUME NEW s \in Save, Publish(s), fileName[s] = k
        PROVE  Refused(k)'
    <2>1. k \notin disturbed'
      BY DEF Calm
    <2>2. /\ s \in completed /\ file[k] = [bin |-> fd[s], metadata |-> s]
          /\ DiskSize(k) \in Nat /\ DiskSize(k) <= sent[s]
          /\ sent[s] \in Nat /\ fileSize[s] \in Nat /\ sent[s] <= fileSize[s]
          /\ file' = file /\ completed' = completed /\ fileName' = fileName /\ fd' = fd
      BY <1>1, <2>1, PublishPair
    <2>3. IndexSet(k, fileSize[s], 0)
      BY <1>1 DEF Publish
    <2>4. SetThrows(fileSize[s]) \/ TooLarge(fileSize[s])
      BY <2>2, <2>3, IndexSetIs
    <2>5. SetThrows(DiskSize(k)) \/ TooLarge(fileSize[s])
      BY <2>2, <2>4 DEF SetThrows
    <2>6. Refused(k)
      BY <1>1, <2>2, <2>5 DEF Refused
    <2> QED
      BY <1>0, <2>2, <2>6, RefusedKept
  <1>2. CASE ~ \E s \in Save : Publish(s) /\ fileName[s] = k
    <2>1. Calm(k) /\ (UNCHANGED file[k] \/ \E p \in Part : Unlink(k, p))
      BY <1>0, <1>2, CalmStep
    <2>2. ~ Restart
      BY <1>0 DEF Restart, NoUnlinks
    <2>3. ASSUME NEW p \in Part, Unlink(k, p)
          PROVE  Refused(k)'
      <3>1. p = "metadata" /\ file'[k]["bin"] = file[k]["bin"] /\ unlinks[k]["bin"] = 0
            /\ unlinks[k]["metadata"] > 0 /\ index' = index
        BY <1>0, <2>3 DEF Unlink, DiskTypeOK, Part
      <3>2. Refused(k)
        BY <2>1, <3>1 DEF Left
      <3> QED
        BY <1>0, <3>1, <3>2, RefusedKept
    <2>4. CASE UNCHANGED file[k] /\ ~ \E p \in Part : Unlink(k, p)
      <3>1. unlinks[k]["bin"] = 0 /\ UNCHANGED unlinks[k] /\ k \notin Cached(index)
        <4>1. unlinks'[k]["bin"] # unlinks[k]["bin"] + 1
          BY <1>0
        <4>2. UNCHANGED unlinks[k] /\ (k \in Cached(index) => k \in Cached(index'))
          BY <1>0, <2>2, <2>4, <4>1, EntrySteps
        <4> QED
          BY <4>2
      <3>2. Refused(k)
        <4>1. CASE k \in indexed \/ unlinks[k]["metadata"] > 0
          BY <2>1, <2>4, <3>1, <4>1 DEF Left
        <4>2. CASE k \in indexed' /\ k \notin indexed
          <5>1. ASSUME NEW j \in Key, IndexStat(j)
                PROVE  file[k]["metadata"] = Null
            BY <2>4, <4>2, <5>1 DEF IndexStat, Part
          <5>2. CASE file[k]["metadata"] = Null
            BY <2>1, <2>4, <3>1, <5>2 DEF Halves
          <5>3. CASE IndexFile
            <6>1. /\ scan.key = k /\ IndexSet(k, scan.size, scan.size) /\ scan.size \in Nat
                  /\ scan.size = DiskSize(k)
              BY <2>1, <4>2, <5>3 DEF IndexFile, IndexTypeOK, Scanned, Calm
            <6>2. SetThrows(scan.size) \/ TooLarge(scan.size)
              BY <6>1, IndexSetIs
            <6>3. PICK s \in completed : /\ fileName[s] = k /\ fd[s] = file[k]["bin"]
                                         /\ DiskSize(k) \in Nat /\ DiskSize(k) <= sent[s]
              BY <1>0, <2>4, DataIs
            <6>4. sent[s] \in Nat /\ fileSize[s] \in Nat /\ sent[s] <= fileSize[s]
              BY <1>0 DEF DiskTypeOK, Sizes
            <6>5. TooLarge(scan.size) => TooLarge(fileSize[s])
              BY <6>1, <6>3, <6>4, MaxMemoryAssumption DEF TooLarge
            <6> QED
              BY <6>1, <6>2, <6>3, <6>5 DEF Refused
          <5>4. ~ UNCHANGED startVars
            BY <4>2 DEF startVars
          <5> QED
            BY <1>0, <2>2, <5>1, <5>2, <5>3, <5>4, StartSteps
        <4> QED
          BY <3>1, <4>1, <4>2
      <3> QED
        BY <1>0, <2>4, <3>2, RefusedKept
    <2> QED
      BY <2>1, <2>3, <2>4
  <1> QED
    BY <1>1, <1>2

-----------------------------------------------------------------------------
(* The invariant and what it implies                                       *)

\* A first start: no file, an empty index, nothing to remove.
LEMMA InitIndex == Init => IndexInv
PROOF
  <1> SUFFICES ASSUME Init PROVE IndexInv
    OBVIOUS
  <1>1. StoreInv /\ CommitInv
    BY InitStore, InitCommit
  <1>2. IndexTypeOK
    <2>1. Sound(index) /\ Used(index) <= MaxMemory
      BY EmptyIs, MaxMemoryAssumption DEF Init
    <2>2. NoUnlinks \in [Key -> [Part -> Nat]]
      BY DEF NoUnlinks
    <2>3. NoScan \in [key: Key \cup {Null}, size: Nat]
      BY DEF NoScan
    <2>4. exiting \in BOOLEAN
      BY Zenon DEF Init
    <2> QED
      BY <2>1, <2>2, <2>3, <2>4 DEF Init, IndexTypeOK
  <1>3. Sizes /\ Failures /\ Standing
    BY DEF Init, Sizes, Failures, Standing, Committing
  <1>4. \A k \in Key : file[k]["bin"] = Null /\ ~ BothThere(k)
    BY DEF Init, NoFile, BothThere, Part
  <1>5. Pairs /\ Halves /\ Left
    BY <1>4 DEF Pairs, Halves, Left
  <1>6. Entries /\ Scanned
    BY EmptyIs DEF Init, Entries, Scanned
  <1> QED
    BY <1>1, <1>2, <1>3, <1>5, <1>6 DEF IndexInv

\* Every step keeps the invariant.
LEMMA NextIndex ==
  ASSUME Overlap = "never", IndexInv, [Next]_vars
  PROVE  IndexInv'
PROOF
  <1> USE DEF IndexInv
  <1>0. IInv
    BY DEF StoreInv
  <1>1. StoreInv' /\ CommitInv'
    BY NextStore, NextCommit
  <1>2. IndexTypeOK'
    BY <1>0, IndexTypeStep
  <1>3. Sizes' /\ Failures' /\ Standing'
    BY <1>0, SizesStep, FailuresStep, StandingStep
  <1>4. Pairs' /\ Entries'
    BY PairsStep, EntriesStep
  <1>5. Scanned'
    BY ScannedStep
  <1>6. Halves' /\ Left'
    BY HalvesStep, LeftStep
  <1> QED
    BY <1>1, <1>2, <1>3, <1>4, <1>5, <1>6

\* The invariant holds always, for any set of names, calls and sizes.
LEMMA IndexInvariance ==
  ASSUME Overlap = "never"
  PROVE  Spec => []IndexInv
PROOF
  <1>1. IndexInv /\ [Next]_vars => IndexInv'
    BY NextIndex
  <1> QED
    BY <1>1, InitIndex, PTL DEF Spec

(* Every variable of the storage stays in its domain: the index is a map   *)
(* without duplicates whose timers and sizes belong to its names, and what *)
(* is counted, scheduled or measured is a number.                          *)
THEOREM TypesKept ==
  ASSUME Overlap = "never"
  PROVE  Spec => []TypeOK
PROOF
  <1>1. IndexInv /\ CallInv => TypeOK
    BY DEF IndexInv, IndexTypeOK, StoreInv, IInv, CallInv, CallTypeOK, TypeOK, Sound
  <1> QED
    BY <1>1, IndexInvariance, CallInvariance, PTL

\* A settled name is calm.
LEMMA SettledIsCalm ==
  ASSUME NEW k, Settled(k)
  PROVE  Calm(k) /\ \A p \in Part : unlinks[k][p] = 0
PROOF
  BY DEF Settled, Calm, InCommit

(* The index tells the truth about a settled name: its two files are there,*)
(* from one upload of that name, and no longer than the entry counts for,  *)
(* whatever commit, removal, eviction, crash or start-up went before       *)
(* (save, commitStream, removeFile, indexHddFiles).                        *)
THEOREM EntriesHaveFiles ==
  ASSUME Overlap = "never"
  PROVE  Spec => []IndexedIsOnDisk
PROOF
  <1>1. IndexInv => IndexedIsOnDisk
    <2> SUFFICES ASSUME IndexInv, NEW k \in Cached(index), Settled(k)
                 PROVE  \E s \in completed : /\ fileName[s] = k
                                             /\ file[k] = [bin |-> fd[s], metadata |-> s]
                                             /\ DiskSize(k) <= index.size[k]
      BY DEF IndexedIsOnDisk
    <2>1. Paired(k) /\ DiskSize(k) <= index.size[k]
      BY SettledIsCalm DEF IndexInv, Entries
    <2> QED
      BY <2>1 DEF Paired
  <1> QED
    BY <1>1, IndexInvariance, PTL

\* The invariant implies that the index knows, or has refused, what lies on the disk.
LEMMA FilesKnown == IndexInv => OnDiskIsIndexed
PROOF
  <1> SUFFICES ASSUME IndexInv, NEW k \in indexed,
                      Settled(k), file[k]["bin"] # Null, k \notin Cached(index)
               PROVE  \E s \in completed : /\ fileName[s] = k /\ fd[s] = file[k]["bin"]
                                           /\ \/ SetThrows(DiskSize(k))
                                              \/ TooLarge(fileSize[s])
    BY DEF OnDiskIsIndexed, KnownOrRefused
  <1>1. k \in Key /\ Calm(k) /\ unlinks[k]["bin"] = 0
    BY SettledIsCalm DEF IndexInv, IndexTypeOK, Part
  <1>2. Refused(k)
    BY <1>1 DEF IndexInv, Left
  <1> QED
    BY <1>2 DEF Refused

(* No file is forgotten: what lies under a settled name that start-up has  *)
(* passed is in the index, unless the index refused it for its size        *)
(* (this.files.set of save and of indexHddFiles).                          *)
THEOREM FilesHaveEntries ==
  ASSUME Overlap = "never"
  PROVE  Spec => []OnDiskIsIndexed
PROOF
  BY FilesKnown, IndexInvariance, PTL

-----------------------------------------------------------------------------
(* The sum of what the files take is written with another fold.            *)

\* The sizes on the disk as a function
Lengths == [k \in Key |-> DiskSize(k)]

\* Both folds take the same elements in the same order.
LEMMA SumsOfLengths ==
  ASSUME NEW S \in SUBSET Key, IsFiniteSet(S)
  PROVE  MapThenSumSet(DiskSize, S) = SumFunctionOnSet(Lengths, S)
PROOF
  BY DEF MapThenSumSet, SumFunctionOnSet, FoldFunctionOnSet, MapThenFoldSet, Lengths

(* The settled files of the index fit in maxMemory together, in the bytes  *)
(* they take on the disk: lru-cache bounds what the entries count for, and *)
(* a settled entry counts for its file at least.                           *)
THEOREM FilesFit ==
  ASSUME Overlap = "never"
  PROVE  Spec => []IndexedFilesFit
PROOF
  <1>1. IndexInv => IndexedFilesFit
    <2> SUFFICES ASSUME IndexInv PROVE IndexedFilesFit
      OBVIOUS
    <2> DEFINE T == {k \in Cached(index) : Settled(k)}
    <2>1. /\ Sound(index) /\ Used(index) <= MaxMemory
          /\ index.size \in [Key -> Nat] /\ Cached(index) \in SUBSET Key
          /\ IsFiniteSet(Cached(index))
      BY Fields DEF IndexInv, IndexTypeOK, Sound
    <2>2. T \in SUBSET Key /\ T \in SUBSET Cached(index) /\ IsFiniteSet(T)
      BY <2>1, FS_Subset
    <2>3. \A k \in T : Lengths[k] \in Nat /\ index.size[k] \in Nat /\ Lengths[k] <= index.size[k]
      <3> SUFFICES ASSUME NEW k \in T
                   PROVE  DiskSize(k) \in Nat /\ index.size[k] \in Nat
                            /\ DiskSize(k) <= index.size[k]
        BY <2>2 DEF Lengths
      <3>1. Calm(k)
        BY SettledIsCalm
      <3>2. Paired(k) /\ DiskSize(k) <= index.size[k]
        BY <2>2, <3>1 DEF IndexInv, Entries
      <3>3. file[k]["bin"] \in Node /\ content \in [Save -> Seq(Node)]
        BY <2>2 DEF IndexInv, StoreInv, IInv, DiskTypeOK, Part
      <3>4. DiskSize(k) \in Nat
        BY <3>3, LenProperties DEF DiskSize, Node
      <3> QED
        BY <2>1, <2>2, <3>2, <3>4
    <2> HIDE DEF T
    <2>4. MapThenSumSet(DiskSize, T) = SumFunctionOnSet(Lengths, T)
      BY <2>2, SumsOfLengths
    <2>5. SumFunctionOnSet(Lengths, T) <= SumFunctionOnSet(index.size, T)
      BY <2>2, <2>3, SumAtMost
    <2>6. /\ SumFunctionOnSet(index.size, T) \in Nat
          /\ SumFunctionOnSet(index.size, Cached(index) \ T) \in Nat
          /\ Used(index) = SumFunctionOnSet(index.size, T)
                             + SumFunctionOnSet(index.size, Cached(index) \ T)
      <3>1. \A k \in Cached(index) : index.size[k] \in Nat
        BY <2>1
      <3>2. Used(index) = SumFunctionOnSet(index.size, Cached(index))
        BY <2>1, UsedByCached
      <3> QED
        BY <2>1, <2>2, <3>1, <3>2, SumOfPart
    <2>7. SumFunctionOnSet(Lengths, T) \in Nat
      BY <2>2, <2>3, SumOfSizes
    <2>8. MapThenSumSet(DiskSize, T) <= MaxMemory
      BY <2>1, <2>4, <2>5, <2>6, <2>7, MaxMemoryAssumption
    <2> QED
      BY <2>8 DEF IndexedFilesFit, T
  <1> QED
    BY <1>1, IndexInvariance, PTL

-----------------------------------------------------------------------------
(* Start-up: its storage takes the same steps, and DiskStorage is tracked  *)
(* as finished when every name has been indexed.                           *)

\* A module that is tracked as finished has indexed every name.
FinishedInv == Tracked /\ ~Initialising => indexed = Key

\* While a process lives, a name that start-up has passed stays passed.
LEMMA IndexedKept ==
  ASSUME Requests \/ Work \/ Indexing
  PROVE  indexed \subseteq indexed'
PROOF
  <1> USE DEF startVars
  <1>1. CASE Requests
    BY <1>1 DEF Requests, Begin, LoadStart, ReadStart
  <1>2. CASE Work
    <2>1. ASSUME NEW s \in Save,
                 \/ \E size \in ChunkSize : Chunk(s, size)
                 \/ FileStep(s) \/ Complete(s) \/ Abort(s)
                 \/ WriteFails(s) \/ InitFails(s)
          PROVE  UNCHANGED indexed
      BY <2>1 DEF FileStep, Chunk, Complete, Abort, WriteFails, InitFails, WriteMetadata,
         OpenTmp, Flush, Rename, Publish
    <2>2. ASSUME NEW k \in Key, \/ Expire(k) \/ Delete(k) \/ Removal(k) \/ TmpExpires(k)
                                \/ GcStat(k) \/ \E p \in Part : GcUnlink(k, p)
          PROVE  UNCHANGED indexed
      BY <2>2 DEF Expire, Delete, Removal, Unlink, TmpExpires, GcStat, GcUnlink
    <2>3. CASE \/ GcList
               \/ \E l \in Load : LoadStat(l) \/ LoadMetadata(l)
               \/ \E r \in Read : ReadOpen(r) \/ ReadChunk(r)
      BY <2>3 DEF GcList, LoadStat, LoadMetadata, ReadOpen, ReadChunk
    <2> QED
      BY <1>2, <2>1, <2>2, <2>3 DEF Work
  <1>3. CASE Indexing
    BY <1>3 DEF Indexing, IndexFile, IndexStat
  <1> QED
    BY <1>1, <1>2, <1>3

\* A step of a server process is one of its storage, or of its modules.
LEMMA StartupSteps ==
  ASSUME [StartupNext]_allVars
  PROVE  /\ [Next]_vars
         /\ \/ NewProcess \/ ModuleInit \/ ModuleFinished
            \/ UNCHANGED initializedModules /\ indexed \subseteq indexed'
PROOF
  <1>1. UNCHANGED vars => UNCHANGED indexed
    BY DEF vars, startVars
  <1>2. CASE UNCHANGED allVars
    BY <1>1, <1>2 DEF allVars, startupVars
  <1>3. CASE ModuleInit \/ ModuleFinished \/ Signal
    BY <1>1, <1>3 DEF ModuleInit, ModuleFinished, Signal
  <1>4. CASE Close \/ (Death /\ NewProcess)
    BY <1>4 DEF Close, Death, Crash, Next
  <1>5. CASE (Requests \/ Work \/ Indexing) /\ UNCHANGED startupVars
    BY <1>5, IndexedKept DEF Next, startupVars
  <1> QED
    BY <1>2, <1>3, <1>4, <1>5 DEF StartupNext

\* The invariant of the storage and of its start-up, through the life of a process
\* and of those after it
LEMMA StartupInvariance ==
  ASSUME Overlap = "never"
  PROVE  StartupSpec => [](IndexInv /\ FinishedInv)
PROOF
  <1>1. StartupInit => IndexInv /\ FinishedInv
    BY InitIndex DEF StartupInit, Init, FinishedInv
  <1>2. IndexInv /\ FinishedInv /\ [StartupNext]_allVars => IndexInv' /\ FinishedInv'
    <2> SUFFICES ASSUME IndexInv, FinishedInv, [StartupNext]_allVars
                 PROVE  IndexInv' /\ FinishedInv'
      OBVIOUS
    <2>1. IndexInv'
      BY StartupSteps, NextIndex
    <2>2. indexed \subseteq Key /\ indexed' \subseteq Key
      BY <2>1 DEF IndexInv, IndexTypeOK
    <2>3. CASE NewProcess
      BY <2>1, <2>3 DEF NewProcess, FinishedInv, Tracked
    <2>4. CASE ModuleInit
      <3>1. ~ initializedModules'[Module]
        BY <2>4 DEF ModuleInit
      <3> QED
        BY <2>1, <3>1 DEF FinishedInv, Initialising, Tracked
    <2>5. CASE ModuleFinished
      BY <2>1, <2>5 DEF ModuleFinished, IndexBuilt, FinishedInv, vars, startVars
    <2>6. CASE UNCHANGED initializedModules /\ indexed \subseteq indexed'
      BY <2>1, <2>2, <2>6 DEF FinishedInv, Tracked, Initialising
    <2> QED
      BY <2>1, <2>3, <2>4, <2>5, <2>6, StartupSteps
  <1> QED
    BY <1>1, <1>2, PTL DEF StartupSpec

(* Once DiskStorage is being tracked, SERVING tells the truth about the    *)
(* index, in every process: each settled file of the disk is in it, or was *)
(* refused for its size (onModuleInit, trackModuleFinished, check).        *)
THEOREM ServingKnowsFiles ==
  ASSUME Overlap = "never"
  PROVE  StartupSpec => []ServingIsIndexed
PROOF
  <1>1. IndexInv /\ FinishedInv => ServingIsIndexed
    <2> SUFFICES ASSUME IndexInv, FinishedInv, Serving, Tracked, NEW k \in Key
                 PROVE  KnownOrRefused(k)
      BY DEF ServingIsIndexed
    <2>1. k \in indexed
      BY DEF FinishedInv, Serving, allModulesInitFinished, Tracked, Initialising
    <2> QED
      BY <2>1, FilesKnown DEF OnDiskIsIndexed
  <1> QED
    BY <1>1, StartupInvariance, PTL

(* Every process takes the steps of DiskStorage and no others on the disk: *)
(* what holds of its steps holds of a server that is started, stopped and  *)
(* started again.                                                          *)
THEOREM ProcessesUseDisk == StartupSpec => Spec
PROOF
  <1>1. StartupInit => Init
    BY DEF StartupInit
  <1>2. [StartupNext]_allVars => [Next]_vars
    BY StartupSteps
  <1> QED
    BY <1>1, <1>2, PTL DEF StartupSpec, Spec
=============================================================================
