------------------------- MODULE DiskStorageProofs -------------------------
(***************************************************************************)
(* Proofs about DiskStorage, for every set of names, uploads, loads and    *)
(* reads, every sequence of chunk sizes and any number of crashes: when a  *)
(* name is uploaded by one save() at a time, none beginning before the     *)
(* file-system calls of the last have ended, what is visible under a final *)
(* name is one whole upload, or all that could be written of it.           *)
(*                                                                         *)
(* WholeFiles is not inductive: the inode that a rename makes visible must *)
(* be the one this upload wrote, and nobody else may still be writing it.  *)
(* The invariant below says who may write which inode: an inode belongs to *)
(* one name (Inodes), a name has one upload with work left (Exclusion),    *)
(* and while that one writes, its inode is hidden and holds the bytes it   *)
(* has written and no others (WritersHidden).                              *)
(***************************************************************************)
EXTENDS DiskStorage, TLAPS

Phases ==
  \A s \in Save :
    /\ pc[s] # "idle" => fileName[s] \in Key
    /\ pc[s] \in {"idle", "init"} => fd[s] = Null /\ sent[s] = 0
    /\ fd[s] = Null => written[s] = 0
    /\ written[s] <= sent[s]
    /\ pc[s] = "committing" => s \in completed /\ fd[s] # Null
    /\ s \in completed => pc[s] \in {"committing", "closed"}

Exclusion ==
  \A s, t \in Save :
    s # t /\ fileName[s] = fileName[t] /\ fileName[s] # Null => Quiet(s) \/ Quiet(t)

\* n was created by the save() it is named after, for that one's file name.
Owned(n, k) == fd[n] = n /\ fileName[n] = k

Inodes ==
  /\ \A k \in Key : tmp[k]["bin"] # Null => Owned(tmp[k]["bin"], k)
  /\ \A k \in Key : file[k]["bin"] # Null => Owned(file[k]["bin"], k)
  /\ \A s \in Save : fd[s] # Null => Owned(fd[s], fileName[s])
  /\ \A k \in Key : tmp[k]["bin"] # Null => tmp[k]["bin"] # file[k]["bin"]

Writing(s) ==
  /\ fd[s] # Null
  /\ \/ pc[s] = "streaming" /\ ~Quiet(s)
     \/ pc[s] = "committing" /\ "bin" \in renames[s]

WritersHidden ==
  \A s \in Save :
    Writing(s) => /\ tmp[fileName[s]]["bin"] \in {fd[s], Null}
                  /\ file[fileName[s]]["bin"] # fd[s]
                  /\ content[fd[s]] = [i \in 1..written[s] |-> s]
                  /\ pc[s] = "committing" => Flushed(s)

IInv ==
  /\ DiskTypeOK
  /\ Phases
  /\ Exclusion
  /\ Inodes
  /\ WritersHidden
  /\ WholeFiles

\* The part of the state that the invariant speaks of.
uploadView == <<file, tmp, content, pc, fileName, fileSize, sent, written, fd, renames,
                reply, completed, torn>>

-----------------------------------------------------------------------------
\* The larger of two ordered numbers is the second.
LEMMA MaxOfPair ==
  ASSUME NEW a \in Nat, NEW b \in Nat, a <= b
  PROVE  Max({a, b}) = b
PROOF
  <1>1. \A y \in {a, b} : b >= y
    OBVIOUS
  <1>2. \A x \in {a, b} : (\A y \in {a, b} : x >= y) => x = b
    OBVIOUS
  <1> QED
    BY <1>1, <1>2 DEF Max

\* Writing at the end of what is there extends it.
LEMMA OverwriteExtends ==
  ASSUME NEW s, NEW w \in Nat, NEW n \in Nat, w <= n
  PROVE  Overwrite([i \in 1..w |-> s], w, n - w, s) = [i \in 1..n |-> s]
PROOF
  <1>1. [i \in 1..w |-> s] \in Seq({s}) /\ Len([i \in 1..w |-> s]) = w
    OBVIOUS
  <1>2. w + (n - w) = n
    OBVIOUS
  <1>3. Max({w, n}) = n
    BY MaxOfPair
  <1>4. \A i \in 1..n : i \notin w + 1..n => i <= w /\ i \in 1..w
    OBVIOUS
  <1> DEFINE old == [i \in 1..w |-> s]
             new(i) == IF i \in w + 1..n THEN s ELSE IF i <= w THEN old[i] ELSE Null
  <1>5. Overwrite(old, w, n - w, s) = [i \in 1..n |-> new(i)]
    <2>1. Len(old) = w
      BY <1>1
    <2> HIDE DEF old
    <2>2. Max({Len(old), w + (n - w)}) = n
      BY <1>2, <1>3, <2>1
    <2> QED
      BY <1>2, <2>1, <2>2, Zenon DEF Overwrite
  <1>6. \A i \in 1..n : new(i) = s
    BY <1>4
  <1> QED
    BY <1>5, <1>6

\* The bytes of one upload are bytes.
LEMMA WholeIsSeq ==
  ASSUME NEW s \in Save, NEW n \in Nat
  PROVE  [i \in 1..n |-> s] \in Seq(Node)
PROOF
  BY DEF Node

-----------------------------------------------------------------------------
\* The disk is empty and nobody writes.
LEMMA InitInv == Init => IInv
PROOF
  <1> SUFFICES ASSUME Init PROVE IInv
    OBVIOUS
  <1> USE DiskAssumption DEF Init, NoFile
  <1>1. DiskTypeOK
    BY DEF DiskTypeOK, Node, Part
  <1>2. Phases
    BY DEF Phases
  <1>3. Exclusion
    BY DEF Exclusion, Quiet
  <1>4. Inodes
    BY DEF Inodes, Part
  <1>5. WritersHidden
    BY DEF WritersHidden, Writing
  <1>6. WholeFiles
    BY DEF WholeFiles, Part
  <1> QED
    BY <1>1, <1>2, <1>3, <1>4, <1>5, <1>6 DEF IInv

\* A step that leaves uploads and disk alone keeps the invariant.
LEMMA FrameStep ==
  ASSUME IInv, UNCHANGED uploadView
  PROVE  IInv'
PROOF
  <1> USE DEF IInv, uploadView, faultVars
  <1>1. DiskTypeOK'
    BY DEF DiskTypeOK
  <1>2. Phases'
    BY DEF Phases
  <1>3. Exclusion'
    BY DEF Exclusion, Quiet, Flushed, Renamed
  <1>4. Inodes'
    BY DEF Inodes, Owned
  <1>5. WritersHidden'
    BY DEF WritersHidden, Writing, Quiet, Flushed, Renamed
  <1>6. WholeFiles'
    BY DEF WholeFiles, Whole
  <1> QED
    BY <1>1, <1>2, <1>3, <1>4, <1>5, <1>6

\* A step that changes no visible file, and no completed upload, keeps them whole.
LEMMA WholeFilesKept ==
  ASSUME DiskTypeOK, DiskTypeOK', WholeFiles, completed \subseteq completed',
         torn \subseteq torn',
         \A t \in completed : /\ fileName'[t] = fileName[t]
                              /\ fd'[t] = fd[t]
                              /\ sent'[t] = sent[t]
                              /\ written'[t] = written[t],
         \A k \in Key : file'[k]["bin"] # Null
           => /\ file'[k]["bin"] = file[k]["bin"]
              /\ content'[file[k]["bin"]] = content[file[k]["bin"]]
  PROVE  WholeFiles'
PROOF
  <1> SUFFICES ASSUME NEW k \in Key, file'[k]["bin"] # Null
               PROVE  \E t \in completed' : /\ fileName'[t] = k
                                             /\ fd'[t] = file'[k]["bin"]
                                             /\ Whole(t, content[fd[t]])'
    BY DEF WholeFiles
  <1>1. PICK t \in completed : /\ fileName[t] = k /\ fd[t] = file[k]["bin"]
                               /\ Whole(t, content[fd[t]])
    BY DEF WholeFiles
  <1>2. /\ content'[fd'[t]] = content[fd[t]] /\ written'[t] = written[t]
        /\ sent'[t] = sent[t] /\ t \in torn => t \in torn'
        /\ file'[k]["bin"] = fd'[t] /\ fileName'[t] = k /\ t \in completed'
    BY <1>1
  <1>3. Whole(t, content[fd[t]])'
    BY <1>1, <1>2, Zenon DEF Whole
  <1> QED
    BY <1>2, <1>3

\* A save() begins; nobody else is uploading the name.
LEMMA BeginStep ==
  ASSUME IInv, Overlap = "never", NEW s \in Save, NEW k \in Key, NEW size \in ChunkSize,
         Begin(s, k, size)
  PROVE  IInv'
PROOF
  <1> USE DiskAssumption DEF IInv, Begin, diskVars, faultVars
  <1>1. DiskTypeOK'
    BY DEF DiskTypeOK
  <1>2. Phases'
    BY DEF Phases, DiskTypeOK
  <1>3. Exclusion'
    BY DEF Exclusion, Quiet, MayBegin, Busy, Flushed, Renamed, DiskTypeOK
  <1>4. Inodes'
    BY DEF Inodes, Owned, Phases, DiskTypeOK
  <1>5. WritersHidden'
    BY DEF WritersHidden, Writing, Quiet, Flushed, Renamed, DiskTypeOK
  <1>6. WholeFiles'
    BY <1>1, WholeFilesKept DEF Phases, DiskTypeOK
  <1> QED
    BY <1>1, <1>2, <1>3, <1>4, <1>5, <1>6

\* The metadata of an upload are written to a temporary path.
LEMMA WriteMetadataStep ==
  ASSUME IInv, NEW s \in Save, WriteMetadata(s)
  PROVE  IInv'
PROOF
  <1> USE DiskAssumption DEF IInv, WriteMetadata, faultVars
  <1>1. DiskTypeOK'
    <2>1. fileName[s] \in Key
      BY DEF Phases
    <2>2. tmp' \in [Key -> [Part -> Node]]
      BY <2>1 DEF DiskTypeOK, Node, Part
    <2>3. /\ sent' \in [Save -> Nat] /\ fileSize' \in [Save -> Nat]
      <3>1. sent[s] \in Nat /\ fileSize[s] \in Nat /\ fileSize[s] + fileSize[s] \in Nat
        BY DEF DiskTypeOK
      <3>2. /\ sent' \in {sent, [sent EXCEPT ![s] = fileSize[s]]}
            /\ fileSize' \in {fileSize, [fileSize EXCEPT ![s] = @ + @]}
        OBVIOUS
      <3> HIDE DEF IInv, WriteMetadata
      <3>3. sent \in [Save -> Nat] /\ fileSize \in [Save -> Nat]
        BY DEF IInv, DiskTypeOK
      <3> QED
        BY <3>1, <3>2, <3>3
    <2> QED
      BY <2>2, <2>3 DEF DiskTypeOK
  <1>2. Phases'
    BY DEF Phases, DiskTypeOK
  <1>3. Exclusion'
    BY DEF Exclusion, Quiet, Flushed, Renamed, DiskTypeOK, Phases
  <1>4. Inodes'
    BY DEF Inodes, Owned, Phases, DiskTypeOK, Part
  <1>5. WritersHidden'
    BY DEF WritersHidden, Writing, Quiet, Flushed, Renamed, DiskTypeOK, Phases, Part
  <1>6. WholeFiles'
    BY <1>1, WholeFilesKept DEF Phases, DiskTypeOK, Part
  <1> QED
    BY <1>1, <1>2, <1>3, <1>4, <1>5, <1>6

\* A save() that writes has work left, so it is the only one of its name.
LEMMA WritersBusy ==
  ASSUME NEW s \in Save, Writing(s)
  PROVE  ~Quiet(s)
PROOF
  BY DEF Writing, Quiet, Renamed

\* While one upload of a name has work left, nobody else writes under that
\* name.
LEMMA OneWriter ==
  ASSUME Exclusion, Phases, NEW s \in Save, NEW t \in Save, s # t, ~Quiet(s), Writing(t)
  PROVE  fileName[t] # fileName[s]
PROOF
  <1>1. ~Quiet(t)
    BY WritersBusy
  <1>2. fileName[s] \in Key
    BY DEF Phases, Quiet
  <1> QED
    BY <1>1, <1>2, DiskAssumption DEF Exclusion

\* The inode that a temporary path leads to, or would create, is not visible and
\* no other save() is writing it.
LEMMA InodeFree ==
  ASSUME IInv, NEW s \in Save, ~Quiet(s), fd[s] = Null
  PROVE  LET n == Inode(s, fileName[s])
         IN  /\ fileName[s] \in Key /\ n \in Save
             /\ Owned(n, fileName[s]) \/ n = s
             /\ \A k \in Key : file[k]["bin"] # n
             /\ \A t \in Save : t # s /\ Writing(t) => fd[t] # n
PROOF
  <1> DEFINE k == fileName[s]
             n == Inode(s, k)
  <1>1. k \in Key
    BY DEF IInv, Phases, Quiet
  <1>2. n \in Save /\ (n = s \/ (n = tmp[k]["bin"] /\ n # Null))
    BY <1>1, DiskAssumption DEF Inode, IInv, DiskTypeOK, Node, Part
  <1>3. Owned(n, k) \/ n = s
    BY <1>1, <1>2 DEF IInv, Inodes
  <1>4. ASSUME NEW k2 \in Key PROVE file[k2]["bin"] # n
    BY <1>1, <1>2, <1>4, DiskAssumption DEF IInv, Inodes, Owned
  <1>5. ASSUME NEW t \in Save, t # s, Writing(t) PROVE fd[t] # n
    <2>1. fileName[t] # k
      BY <1>5, OneWriter DEF IInv
    <2>2. fd[t] # Null /\ Owned(fd[t], fileName[t])
      BY <1>5 DEF IInv, Inodes, Writing
    <2> QED
      BY <1>3, <2>1, <2>2, DiskAssumption DEF Owned
  <1> QED
    BY <1>1, <1>2, <1>3, <1>4, <1>5

\* The stream opens an inode that nobody sees and nobody else writes.
LEMMA OpenTmpStep ==
  ASSUME IInv, NEW s \in Save, OpenTmp(s)
  PROVE  IInv'
PROOF
  <1> DEFINE k == fileName[s]
             n == Inode(s, k)
  <1> USE DiskAssumption DEF IInv, OpenTmp, faultVars
  <1>a. ~Quiet(s) /\ pc[s] = "streaming" /\ fd[s] = Null /\ n # Null
    BY InodeFree DEF Quiet
  <1>b. /\ k \in Key /\ n \in Save
        /\ Owned(n, k) \/ n = s
        /\ \A k2 \in Key : file[k2]["bin"] # n
        /\ \A t \in Save : t # s /\ Writing(t) => fd[t] # n
    BY <1>a, InodeFree
  <1>c. /\ fd' = [fd EXCEPT ![s] = n]
        /\ tmp' = [tmp EXCEPT ![k]["bin"] = n]
        /\ content' = [content EXCEPT ![n] = <<>>]
        /\ UNCHANGED <<file, pc, fileName, fileSize, sent, written, renames, reply,
                       completed, torn>>
    BY DEF OpenTmp
  <1> HIDE DEF n, OpenTmp
  <1>1. DiskTypeOK'
    <2>1. n \in Node /\ "bin" \in Part /\ <<>> \in Seq(Node)
      BY <1>b DEF Node, Part
    <2>2. fd' \in [Save -> Node]
      BY <1>c, <2>1 DEF DiskTypeOK
    <2>3. tmp' \in [Key -> [Part -> Node]]
      BY <1>c, <2>1 DEF DiskTypeOK
    <2>4. content' \in [Save -> Seq(Node)]
      BY <1>c, <2>1 DEF DiskTypeOK
    <2> QED
      BY <1>c, <2>2, <2>3, <2>4 DEF DiskTypeOK
  <1>2. Phases'
    BY <1>a, <1>b, <1>c DEF Phases, DiskTypeOK
  <1>3. Exclusion'
    BY <1>a, <1>c DEF Exclusion, Quiet, Flushed, Renamed, DiskTypeOK
  <1>4. Inodes'
    BY <1>a, <1>b, <1>c DEF Inodes, Owned, DiskTypeOK, Part
  <1>5. WritersHidden'
    <2> SUFFICES ASSUME NEW t \in Save, Writing(t)'
                 PROVE  /\ tmp'[fileName[t]]["bin"] \in {fd'[t], Null}
                        /\ file[fileName[t]]["bin"] # fd'[t]
                        /\ content'[fd'[t]] = [i \in 1..written[t] |-> t]
                        /\ pc[t] = "committing" => Flushed(t)
      BY <1>c DEF WritersHidden, Flushed
    <2>1. CASE t = s
      <3>1. written[s] = 0 /\ pc[s] = "streaming"
        BY <1>a DEF Phases, OpenTmp
      <3>2. <<>> = [i \in 1..0 |-> s]
        OBVIOUS
      <3> QED
        BY <1>b, <1>c, <2>1, <3>1, <3>2 DEF DiskTypeOK, Part
    <2>2. CASE t # s
      <3>1. Writing(t)
        BY <1>c, <2>2 DEF Writing, Quiet, Flushed, Renamed, DiskTypeOK
      <3>2. fileName[t] # k /\ fd[t] # n
        BY <1>a, <1>b, <2>2, <3>1, OneWriter
      <3> QED
        BY <1>b, <1>c, <2>2, <3>1, <3>2 DEF WritersHidden, DiskTypeOK
    <2> QED
      BY <2>1, <2>2
  <1>6. WholeFiles'
    <2>1. \A t \in completed : t \in Save /\ t # s /\ fd'[t] = fd[t]
      BY <1>a, <1>c DEF Phases, DiskTypeOK
    <2>2. \A k2 \in Key : file[k2]["bin"] # Null
                            => content'[file[k2]["bin"]] = content[file[k2]["bin"]]
      BY <1>b, <1>c DEF DiskTypeOK, Node, Part
    <2> QED
      BY <1>1, <1>c, <2>1, <2>2, WholeFilesKept
  <1> QED
    BY <1>1, <1>2, <1>3, <1>4, <1>5, <1>6

\* A chunk is buffered.
LEMMA ChunkStep ==
  ASSUME IInv, NEW s \in Save, NEW size \in ChunkSize, Chunk(s, size)
  PROVE  IInv'
PROOF
  <1> USE DiskAssumption DEF IInv, Chunk, diskVars, faultVars
  <1>1. DiskTypeOK'
    <2>1. size \in Nat
      OBVIOUS
    <2>2. sent[s] + size \in Nat /\ fileSize[s] + size \in Nat
      BY <2>1 DEF DiskTypeOK
    <2> QED
      BY <2>2 DEF DiskTypeOK
  <1>2. Phases'
    BY DEF Phases, DiskTypeOK
  <1>3. Exclusion'
    BY DEF Exclusion, Quiet, Flushed, Renamed, DiskTypeOK, Phases
  <1>4. Inodes'
    BY DEF Inodes, Owned, Phases, DiskTypeOK, Part
  <1>5. WritersHidden'
    BY DEF WritersHidden, Writing, Quiet, Flushed, Renamed, DiskTypeOK, Phases, Part
  <1>6. WholeFiles'
    BY <1>1, WholeFilesKept DEF Phases, DiskTypeOK, Part
  <1> QED
    BY <1>1, <1>2, <1>3, <1>4, <1>5, <1>6

\* The inode of a writer is its own and hidden from every name.
LEMMA WriterAlone ==
  ASSUME IInv, NEW s \in Save, Writing(s)
  PROVE  /\ fileName[s] \in Key /\ fd[s] \in Save
         /\ \A k \in Key : file[k]["bin"] # fd[s]
         /\ \A t \in Save : t # s /\ Writing(t)
              => fd[t] # fd[s] /\ fileName[t] # fileName[s]
PROOF
  <1>1. fileName[s] \in Key /\ fd[s] \in Save /\ ~Quiet(s)
    BY WritersBusy DEF IInv, Phases, Writing, DiskTypeOK, Node
  <1>2. Owned(fd[s], fileName[s]) /\ fd[s] # Null
    BY DEF IInv, Inodes, Writing
  <1>3. ASSUME NEW k \in Key PROVE file[k]["bin"] # fd[s]
    <2>1. CASE k = fileName[s]
      BY <2>1 DEF IInv, WritersHidden
    <2>2. CASE k # fileName[s]
      <3>1. file[k]["bin"] # Null => fileName[file[k]["bin"]] = k
        BY DEF IInv, Inodes, Owned
      <3> QED
        BY <1>2, <2>2, <3>1 DEF Owned
    <2> QED
      BY <2>1, <2>2
  <1>4. ASSUME NEW t \in Save, t # s, Writing(t)
        PROVE  fd[t] # fd[s] /\ fileName[t] # fileName[s]
    <2>1. fileName[t] # fileName[s]
      BY <1>1, <1>4, OneWriter DEF IInv
    <2>2. Owned(fd[t], fileName[t])
      BY <1>4 DEF IInv, Inodes, Writing
    <2> QED
      BY <1>2, <2>1, <2>2 DEF Owned
  <1> QED
    BY <1>1, <1>3, <1>4

\* The stream extends the hidden inode that it alone writes.
LEMMA FlushStep ==
  ASSUME IInv, NEW s \in Save, NEW m \in 1..MaxSent, Flush(s, m)
  PROVE  IInv'
PROOF
  <1> DEFINE n == fd[s]
  <1> USE DiskAssumption DEF IInv
  <1>0. written[s] \in Nat /\ sent[s] \in Nat
    BY DEF DiskTypeOK
  <1>a. Writing(s) /\ pc[s] = "streaming"
    BY <1>0 DEF Flush, Writing, Quiet, Flushed
  <1>b. /\ written' = [written EXCEPT ![s] = m]
        /\ content' = [content EXCEPT ![n] = Overwrite(@, written[s], m - written[s], s)]
        /\ UNCHANGED <<file, tmp, pc, fileName, fileSize, sent, fd, renames, reply,
                       completed, torn>>
    BY DEF Flush, faultVars
  <1>c. n \in Save /\ m \in Nat /\ written[s] <= m /\ m <= sent[s]
    BY <1>0, <1>a, WriterAlone DEF Flush
  <1>d. content' = [content EXCEPT ![n] = [i \in 1..m |-> s]]
    <2>1. content[n] = [i \in 1..written[s] |-> s]
      BY <1>a DEF WritersHidden
    <2>2. Overwrite(content[n], written[s], m - written[s], s) = [i \in 1..m |-> s]
      BY <1>0, <1>c, <2>1, OverwriteExtends
    <2> QED
      BY <1>b, <2>2, Zenon
  <1> HIDE DEF n
  <1>1. DiskTypeOK'
    <2> DEFINE whole == [i \in 1..m |-> s]
    <2>1. whole \in Seq(Node)
      BY <1>c, WholeIsSeq
    <2>2. content' = [content EXCEPT ![n] = whole]
      BY <1>d
    <2> HIDE DEF whole
    <2>3. content' \in [Save -> Seq(Node)]
      BY <2>1, <2>2 DEF DiskTypeOK
    <2>4. written' \in [Save -> Nat]
      BY <1>b, <1>c DEF DiskTypeOK
    <2> QED
      BY <1>b, <2>3, <2>4 DEF DiskTypeOK
  <1>2. Phases'
    BY <1>a, <1>b, <1>c DEF Phases, DiskTypeOK, Writing
  <1>3. Exclusion'
    BY <1>a, <1>b, WritersBusy DEF Exclusion, Quiet, Flushed, Renamed, DiskTypeOK
  <1>4. Inodes'
    BY <1>b DEF Inodes, Owned
  <1>5. WritersHidden'
    <2> SUFFICES ASSUME NEW t \in Save, Writing(t)'
                 PROVE  /\ tmp[fileName[t]]["bin"] \in {fd[t], Null}
                        /\ file[fileName[t]]["bin"] # fd[t]
                        /\ content'[fd[t]] = [i \in 1..written'[t] |-> t]
                        /\ pc[t] = "committing" => Flushed(t)'
      BY <1>b DEF WritersHidden
    <2>1. CASE t = s
      <3>1. written'[s] = m
        BY <1>b DEF DiskTypeOK
      <3>2. content'[n] = [i \in 1..m |-> s]
        BY <1>c, <1>d DEF DiskTypeOK
      <3> QED
        BY <1>a, <2>1, <3>1, <3>2 DEF WritersHidden, n
    <2>2. CASE t # s
      <3>1. Writing(t)
        BY <1>b, <2>2 DEF Writing, Quiet, Flushed, Renamed, DiskTypeOK
      <3>2. fd[t] # n
        BY <1>a, <2>2, <3>1, WriterAlone DEF n
      <3>3. content'[fd[t]] = content[fd[t]]
        BY <1>d, <3>1, <3>2, WriterAlone DEF DiskTypeOK
      <3>4. written'[t] = written[t]
        BY <1>b, <2>2 DEF DiskTypeOK
      <3> QED
        BY <1>b, <3>1, <3>3, <3>4 DEF WritersHidden, Flushed
    <2> QED
      BY <2>1, <2>2
  <1>6. WholeFiles'
    <2>1. \A k \in Key : file[k]["bin"] # Null
                           => content'[file[k]["bin"]] = content[file[k]["bin"]]
      <3> SUFFICES ASSUME NEW k \in Key, file[k]["bin"] # Null
                   PROVE  content'[file[k]["bin"]] = content[file[k]["bin"]]
        OBVIOUS
      <3>1. file[k]["bin"] # n
        BY <1>a, WriterAlone DEF n
      <3>2. file[k]["bin"] \in Save
        BY DEF DiskTypeOK, Node, Part
      <3> QED
        BY <1>d, <3>1, <3>2 DEF DiskTypeOK
    <2>2. \A t \in completed : written'[t] = written[t]
      BY <1>a, <1>b DEF Phases, DiskTypeOK
    <2> QED
      BY <1>1, <1>b, <2>1, <2>2, WholeFilesKept
  <1> QED
    BY <1>1, <1>2, <1>3, <1>4, <1>5, <1>6

\* The rename that makes an upload visible.
LEMMA RenameDataStep ==
  ASSUME IInv, NEW s \in Save, Rename(s, "bin"), tmp[fileName[s]]["bin"] # Null
  PROVE  IInv'
PROOF
  <1> DEFINE k == fileName[s]
             n == fd[s]
  <1> USE DiskAssumption DEF IInv
  <1>a. Writing(s) /\ pc[s] = "committing" /\ s \in completed
    BY DEF Rename, Writing, Phases
  <1>b. /\ k \in Key /\ n \in Save
        /\ tmp[k]["bin"] = n /\ Whole(s, content[n])
    BY <1>a, WriterAlone DEF WritersHidden, Whole, Flushed
  <1>c. /\ file' = [file EXCEPT ![k]["bin"] = n]
        /\ tmp' = [tmp EXCEPT ![k]["bin"] = Null]
        /\ renames' = [renames EXCEPT ![s] = @ \ {"bin"}]
        /\ UNCHANGED <<content, pc, fileName, fileSize, sent, written, fd, reply,
                       completed, torn>>
    BY <1>b DEF Rename, faultVars
  <1>1. DiskTypeOK'
    BY <1>b, <1>c DEF DiskTypeOK, Node, Part
  <1>2. Phases'
    BY <1>c DEF Phases
  <1>3. Exclusion'
    BY <1>a, <1>c, WritersBusy DEF Exclusion, Quiet, Flushed, Renamed, DiskTypeOK
  <1>4. Inodes'
    BY <1>b, <1>c DEF Inodes, Owned, DiskTypeOK, Part, Node
  <1>5. WritersHidden'
    <2> SUFFICES ASSUME NEW t \in Save, Writing(t)'
                 PROVE  /\ tmp'[fileName[t]]["bin"] \in {fd[t], Null}
                        /\ file'[fileName[t]]["bin"] # fd[t]
                        /\ content[fd[t]] = [i \in 1..written[t] |-> t]
                        /\ pc[t] = "committing" => Flushed(t)
      BY <1>c DEF WritersHidden, Flushed
    <2>1. t # s
      BY <1>a, <1>c DEF Writing, Quiet, DiskTypeOK
    <2>2. Writing(t)
      BY <1>c, <2>1 DEF Writing, Quiet, Flushed, Renamed, DiskTypeOK
    <2>3. fileName[t] # k
      BY <1>a, <2>1, <2>2, WriterAlone
    <2> QED
      BY <1>b, <1>c, <2>2, <2>3 DEF WritersHidden, DiskTypeOK
  <1>6. WholeFiles'
    <2> SUFFICES ASSUME NEW k2 \in Key, file'[k2]["bin"] # Null
                 PROVE  \E t \in completed : /\ fileName[t] = k2
                                              /\ fd[t] = file'[k2]["bin"]
                                              /\ Whole(t, content[fd[t]])
      BY <1>c DEF WholeFiles, Whole
    <2>1. CASE k2 = k
      <3>1. file'[k]["bin"] = n
        BY <1>b, <1>c DEF DiskTypeOK, Part
      <3> QED
        BY <1>a, <1>b, <2>1, <3>1
    <2>2. CASE k2 # k
      BY <1>b, <1>c, <2>2 DEF WholeFiles, DiskTypeOK
    <2> QED
      BY <2>1, <2>2
  <1> QED
    BY <1>1, <1>2, <1>3, <1>4, <1>5, <1>6

\* A rename of the metadata, and one that finds nothing to rename.
LEMMA RenameOtherStep ==
  ASSUME IInv, NEW s \in Save, NEW p \in Part, Rename(s, p),
         p = "metadata" \/ tmp[fileName[s]]["bin"] = Null
  PROVE  IInv'
PROOF
  <1> DEFINE k == fileName[s]
  <1> USE DiskAssumption DEF IInv
  <1>a. k \in Key /\ pc[s] = "committing" /\ p \in renames[s] /\ ~Quiet(s)
    BY DEF Rename, Phases, Quiet, Renamed
  <1>b. /\ renames' = [renames EXCEPT ![s] = @ \ {p}]
        /\ reply' \in {reply, [reply EXCEPT ![s] = "error"]}
        /\ UNCHANGED <<content, pc, fileName, fileSize, sent, written, fd, completed,
                       torn>>
    BY DEF Rename, faultVars
  <1>c. /\ file' \in [Key -> [Part -> Node]] /\ tmp' \in [Key -> [Part -> Node]]
        /\ \A k2 \in Key : /\ file'[k2]["bin"] = file[k2]["bin"]
                            /\ tmp'[k2]["bin"] = tmp[k2]["bin"]
    <2>0. file \in [Key -> [Part -> Node]] /\ tmp \in [Key -> [Part -> Node]]
      BY DEF DiskTypeOK
    <2>1. CASE tmp[k][p] = Null
      BY <2>0, <2>1 DEF Rename
    <2>2. CASE tmp[k][p] # Null
      <3>1. p = "metadata" /\ tmp[k][p] \in Node
        BY <1>a, <2>0, <2>2 DEF Part
      <3>2. /\ file' = [file EXCEPT ![k][p] = tmp[k][p]]
            /\ tmp' = [tmp EXCEPT ![k][p] = Null]
        BY <2>2 DEF Rename
      <3> QED
        BY <1>a, <2>0, <3>1, <3>2 DEF Part, Node
    <2> QED
      BY <2>1, <2>2
  <1> HIDE DEF k
  <1>1. DiskTypeOK'
    <2>1. /\ renames' \in [Save -> SUBSET Part]
          /\ reply' \in [Save -> {"none", "saved", "error", "lost"}]
      BY <1>b DEF DiskTypeOK
    <2> QED
      BY <1>b, <1>c, <2>1 DEF DiskTypeOK
  <1>2. Phases'
    BY <1>b DEF Phases
  <1>3. Exclusion'
    BY <1>a, <1>b DEF Exclusion, Quiet, Flushed, Renamed, DiskTypeOK
  <1>4. Inodes'
    <2>1. \A n \in Node, k2 \in Key : Owned(n, k2)' <=> Owned(n, k2)
      BY <1>b DEF Owned
    <2>2. \A k2 \in Key : tmp[k2]["bin"] \in Node /\ file[k2]["bin"] \in Node
      BY DEF DiskTypeOK, Part
    <2>3. \A t \in Save : fd[t] # Null => Owned(fd[t], fileName[t])'
      BY <1>b DEF Inodes, Owned
    <2> QED
      BY <1>b, <1>c, <2>1, <2>2, <2>3 DEF Inodes
  <1>5. WritersHidden'
    <2> SUFFICES ASSUME NEW t \in Save, Writing(t)'
                 PROVE  Writing(t) /\ fileName[t] \in Key
      BY <1>b, <1>c DEF WritersHidden, Flushed
    <2>1. Writing(t)
      BY <1>a, <1>b DEF Writing, Quiet, Flushed, Renamed, DiskTypeOK
    <2> QED
      BY <2>1, WriterAlone
  <1>6. WholeFiles'
    BY <1>1, <1>b, <1>c, WholeFilesKept
  <1> QED
    BY <1>1, <1>2, <1>3, <1>4, <1>5, <1>6

\* An aborted upload goes on writing what it has buffered.
LEMMA AbortStep ==
  ASSUME IInv, NEW s \in Save, Abort(s)
  PROVE  IInv'
PROOF
  <1> USE DiskAssumption DEF IInv, Abort, diskVars, faultVars
  <1>1. DiskTypeOK'
    BY DEF DiskTypeOK, Node, Part
  <1>2. Phases'
    BY DEF Phases, DiskTypeOK
  <1>3. Exclusion'
    BY DEF Exclusion, Quiet, Flushed, Renamed, DiskTypeOK, Phases
  <1>4. Inodes'
    BY DEF Inodes, Owned, Phases, DiskTypeOK, Part
  <1>5. WritersHidden'
    BY DEF WritersHidden, Writing, Quiet, Flushed, Renamed, DiskTypeOK, Phases, Part
  <1>6. WholeFiles'
    BY <1>1, WholeFilesKept DEF Phases, DiskTypeOK, Part
  <1> QED
    BY <1>1, <1>2, <1>3, <1>4, <1>5, <1>6

\* A write fails: the upload ends where it is.
LEMMA WriteFailsStep ==
  ASSUME IInv, NEW s \in Save, WriteFails(s)
  PROVE  IInv'
PROOF
  <1> USE DiskAssumption DEF IInv, WriteFails, diskVars, saveVars
  <1>1. DiskTypeOK'
    BY DEF DiskTypeOK, Node, Part
  <1>2. Phases'
    BY DEF Phases, DiskTypeOK
  <1>3. Exclusion'
    BY DEF Exclusion, Quiet, Flushed, Renamed, DiskTypeOK, Phases
  <1>4. Inodes'
    BY DEF Inodes, Owned, Phases, DiskTypeOK, Part
  <1>5. WritersHidden'
    BY DEF WritersHidden, Writing, Quiet, Flushed, Renamed, DiskTypeOK, Phases, Part
  <1>6. WholeFiles'
    BY <1>1, WholeFilesKept DEF Phases, DiskTypeOK, Part
  <1> QED
    BY <1>1, <1>2, <1>3, <1>4, <1>5, <1>6

\* An upload ends before it has a stream.
LEMMA InitFailsStep ==
  ASSUME IInv, NEW s \in Save, InitFails(s)
  PROVE  IInv'
PROOF
  <1> USE DiskAssumption DEF IInv, InitFails, faultVars
  <1>a. fileName[s] \in Key
    BY DEF Phases
  <1>b. /\ tmp' \in [Key -> [Part -> Node]]
        /\ \A k \in Key : tmp'[k]["bin"] = tmp[k]["bin"]
    <2>1. CASE tmp' = tmp
      BY <2>1 DEF DiskTypeOK
    <2>2. CASE tmp' = [tmp EXCEPT ![fileName[s]]["metadata"] = s]
      BY <1>a, <2>2 DEF DiskTypeOK, Node, Part
    <2> QED
      BY <2>1, <2>2
  <1>c. UNCHANGED <<file, content, fileName, fileSize, sent, written, fd, renames, completed,
                    torn>>
    BY DEF InitFails
  <1>d. pc[s] = "init" /\ pc' = [pc EXCEPT ![s] = "closed"]
        /\ reply' = [reply EXCEPT ![s] = "error"]
    BY DEF InitFails
  <1> HIDE DEF InitFails
  <1>1. DiskTypeOK'
    BY <1>b, <1>c, <1>d DEF DiskTypeOK
  <1>2. Phases'
    BY <1>c, <1>d DEF Phases, DiskTypeOK
  <1>3. Exclusion'
    BY <1>c, <1>d DEF Exclusion, Quiet, Flushed, Renamed, DiskTypeOK
  <1>4. Inodes'
    BY <1>b, <1>c DEF Inodes, Owned
  <1>5. WritersHidden'
    BY <1>a, <1>b, <1>c, <1>d DEF WritersHidden, Writing, Quiet, Flushed, Renamed,
       DiskTypeOK, Phases
  <1>6. WholeFiles'
    BY <1>1, <1>c, WholeFilesKept
  <1> QED
    BY <1>1, <1>2, <1>3, <1>4, <1>5, <1>6

\* A commit begins after everything has been flushed, or nothing more can be.
LEMMA CompleteStep ==
  ASSUME IInv, NEW s \in Save, Complete(s)
  PROVE  IInv'
PROOF
  <1> USE DiskAssumption DEF IInv, Complete, diskVars, faultVars
  <1>1. DiskTypeOK'
    BY DEF DiskTypeOK, Node, Part
  <1>2. Phases'
    BY DEF Phases, DiskTypeOK
  <1>3. Exclusion'
    BY DEF Exclusion, Quiet, Flushed, Renamed, DiskTypeOK, Phases
  <1>4. Inodes'
    BY DEF Inodes, Owned, Phases, DiskTypeOK, Part
  <1>5. WritersHidden'
    BY DEF WritersHidden, Writing, Quiet, Flushed, Renamed, DiskTypeOK, Phases, Part
  <1>6. WholeFiles'
    BY <1>1, WholeFilesKept DEF Phases, DiskTypeOK, Part
  <1> QED
    BY <1>1, <1>2, <1>3, <1>4, <1>5, <1>6

\* A commit ends.
LEMMA PublishStep ==
  ASSUME IInv, NEW s \in Save, Publish(s)
  PROVE  IInv'
PROOF
  <1> USE DiskAssumption DEF IInv, Publish, diskVars, Outcome, faultVars
  <1>1. DiskTypeOK'
    BY DEF DiskTypeOK, Node, Part
  <1>2. Phases'
    BY DEF Phases, DiskTypeOK
  <1>3. Exclusion'
    BY DEF Exclusion, Quiet, Flushed, Renamed, DiskTypeOK, Phases
  <1>4. Inodes'
    BY DEF Inodes, Owned, Phases, DiskTypeOK, Part
  <1>5. WritersHidden'
    BY DEF WritersHidden, Writing, Quiet, Flushed, Renamed, DiskTypeOK, Phases, Part
  <1>6. WholeFiles'
    BY <1>1, WholeFilesKept DEF Phases, DiskTypeOK, Part
  <1> QED
    BY <1>1, <1>2, <1>3, <1>4, <1>5, <1>6

\* An expired or evicted file goes away.
LEMMA UnlinkStep ==
  ASSUME IInv, NEW k \in Key, NEW p \in Part, Unlink(k, p)
  PROVE  IInv'
PROOF
  <1> USE DiskAssumption DEF IInv, Unlink, saveVars, faultVars
  <1>1. DiskTypeOK'
    BY DEF DiskTypeOK, Node, Part
  <1>2. Phases'
    BY DEF Phases, DiskTypeOK
  <1>3. Exclusion'
    BY DEF Exclusion, Quiet, Flushed, Renamed, DiskTypeOK, Phases
  <1>4. Inodes'
    BY DEF Inodes, Owned, Phases, DiskTypeOK, Part
  <1>5. WritersHidden'
    BY DEF WritersHidden, Writing, Quiet, Flushed, Renamed, DiskTypeOK, Phases, Part
  <1>6. WholeFiles'
    BY <1>1, WholeFilesKept DEF Phases, DiskTypeOK, Part
  <1> QED
    BY <1>1, <1>2, <1>3, <1>4, <1>5, <1>6

\* A temporary file goes away.
LEMMA GcUnlinkStep ==
  ASSUME IInv, NEW k \in Key, NEW p \in Part, GcUnlink(k, p)
  PROVE  IInv'
PROOF
  <1> USE DiskAssumption DEF IInv, GcUnlink, saveVars, faultVars
  <1>1. DiskTypeOK'
    BY DEF DiskTypeOK, Node, Part
  <1>2. Phases'
    BY DEF Phases, DiskTypeOK
  <1>3. Exclusion'
    BY DEF Exclusion, Quiet, Flushed, Renamed, DiskTypeOK, Phases
  <1>4. Inodes'
    BY DEF Inodes, Owned, Phases, DiskTypeOK, Part
  <1>5. WritersHidden'
    BY DEF WritersHidden, Writing, Quiet, Flushed, Renamed, DiskTypeOK, Phases, Part
  <1>6. WholeFiles'
    BY <1>1, WholeFilesKept DEF Phases, DiskTypeOK, Part
  <1> QED
    BY <1>1, <1>2, <1>3, <1>4, <1>5, <1>6

\* The process dies: nobody writes any more.
LEMMA RestartStep ==
  ASSUME IInv, Restart
  PROVE  IInv'
PROOF
  <1> USE DiskAssumption DEF IInv, Restart, diskVars, faultVars
  <1>1. DiskTypeOK'
    BY DEF DiskTypeOK, Node, Part
  <1>2. Phases'
    BY DEF Phases, DiskTypeOK
  <1>3. Exclusion'
    BY DEF Exclusion, Quiet, Flushed, Renamed, DiskTypeOK, Phases
  <1>4. Inodes'
    BY DEF Inodes, Owned, Phases, DiskTypeOK, Part
  <1>5. WritersHidden'
    BY DEF WritersHidden, Writing, Quiet, Flushed, Renamed, DiskTypeOK, Phases, Part
  <1>6. WholeFiles'
    BY <1>1, WholeFilesKept DEF Phases, DiskTypeOK, Part
  <1> QED
    BY <1>1, <1>2, <1>3, <1>4, <1>5, <1>6

-----------------------------------------------------------------------------
\* Every step keeps the invariant.
LEMMA NextInv ==
  ASSUME Overlap = "never", IInv, [Next]_vars
  PROVE  IInv'
PROOF
  <1>1. CASE UNCHANGED vars
    BY <1>1, FrameStep DEF vars, diskVars, saveVars, faultVars, uploadView
  <1>2. ASSUME NEW s \in Save,
               \/ \E k \in Key, size \in ChunkSize : Begin(s, k, size)
               \/ \E size \in ChunkSize : Chunk(s, size)
               \/ FileStep(s) \/ Complete(s)
               \/ Abort(s) \/ WriteFails(s) \/ InitFails(s)
        PROVE  IInv'
    <2>1. ASSUME NEW p \in Part, Rename(s, p) PROVE IInv'
      <3>1. CASE p = "metadata" \/ tmp[fileName[s]]["bin"] = Null
        BY <2>1, <3>1, RenameOtherStep
      <3>2. CASE p = "bin" /\ tmp[fileName[s]]["bin"] # Null
        BY <2>1, <3>2, RenameDataStep
      <3> QED
        BY <3>1, <3>2 DEF Part
    <2> QED
      BY <1>2, <2>1, BeginStep, WriteMetadataStep, OpenTmpStep, ChunkStep, FlushStep,
         CompleteStep, PublishStep, AbortStep, WriteFailsStep, InitFailsStep DEF FileStep
  <1>3. ASSUME NEW k \in Key, NEW p \in Part, Unlink(k, p) \/ GcUnlink(k, p)
        PROVE  IInv'
    BY <1>3, UnlinkStep, GcUnlinkStep
  <1>4. ASSUME NEW k \in Key,
               Expire(k) \/ Delete(k) \/ TmpExpires(k) \/ GcStat(k) \/ IndexStat(k)
        PROVE  IInv'
    BY <1>4, FrameStep DEF Expire, Delete, TmpExpires, GcStat, IndexStat, diskVars,
       saveVars, faultVars, uploadView
  <1>5. CASE IndexFile \/ GcList
    BY <1>5, FrameStep DEF IndexFile, GcList, diskVars, saveVars, faultVars, uploadView
  <1>6. ASSUME NEW l \in Load,
               (\E k \in Key : LoadStart(l, k)) \/ LoadStat(l) \/ LoadMetadata(l)
        PROVE  IInv'
    BY <1>6, FrameStep DEF LoadStart, LoadStat, LoadMetadata, diskVars, saveVars, faultVars, uploadView
  <1>7. ASSUME NEW r \in Read,
               (\E k \in Key : ReadStart(r, k)) \/ ReadOpen(r) \/ ReadChunk(r)
        PROVE  IInv'
    BY <1>7, FrameStep DEF ReadStart, ReadOpen, ReadChunk, diskVars, saveVars, faultVars, uploadView
  <1>8. CASE Death
    BY <1>8, RestartStep DEF Death, Crash, LoadCrash, OpenFails, Exit
  <1> QED
    BY <1>1, <1>2, <1>3, <1>4, <1>5, <1>6, <1>7, <1>8 DEF Next, Requests, Work, Indexing, Removal

(* The invariant that carries the proofs holds in every behaviour in which *)
(* an upload of a name begins after all file-system calls of the one       *)
(* before it have ended.                                                   *)
THEOREM Invariance ==
  ASSUME Overlap = "never"
  PROVE  Spec => []IInv
PROOF
  BY InitInv, NextInv, PTL DEF Spec

(* Readers of a final name see whole uploads: commitStream makes visible   *)
(* nothing but what one save() has written, all of it unless a write has   *)
(* failed.                                                                 *)
THEOREM FilesAreWhole ==
  ASSUME Overlap = "never"
  PROVE  Spec => []WholeFiles
PROOF
  BY Invariance, PTL DEF IInv
=============================================================================
