------------------------- MODULE DiskReaderProofs -------------------------
(***************************************************************************)
(* What the callers of DiskStorage are given, for every value of the       *)
(* constants, when a name is uploaded by one save() at a time, none        *)
(* beginning before the file-system calls of the last have ended: a        *)
(* download that ends has one whole upload, load answers what has been     *)
(* committed, and when save() reports success no older version can be      *)
(* found.                                                                  *)
(*                                                                         *)
(* A reader holds an inode across many steps in which its name may be      *)
(* replaced, removed or uploaded again.  What it needs is that an inode    *)
(* that has once been visible is sealed: nobody writes it, no temporary    *)
(* path leads to it, so that it stays one whole upload for ever.           *)
(***************************************************************************)
EXTENDS DiskStorageProofs

Sealed(n, k) ==
  /\ n \in Save
  /\ Owned(n, k)
  /\ tmp[k]["bin"] # n
  /\ \A t \in Save : Writing(t) => fd[t] # n
  /\ \E s \in completed : fileName[s] = k /\ fd[s] = n /\ Whole(s, content[n])

\* m is what a completed upload of k was sent with.
CommittedMetadata(m, k) == m \in completed /\ fileName[m] = k

\* s has still to rename its metadata, or to write its data.
MetadataPending(s) ==
  \/ pc[s] = "streaming" /\ ~Quiet(s)
  \/ pc[s] = "committing" /\ "metadata" \in renames[s]

Metadata ==
  /\ \A k \in Key : file[k]["metadata"] # Null => CommittedMetadata(file[k]["metadata"], k)
  /\ \A s \in Save :
       MetadataPending(s) => tmp[fileName[s]]["metadata"] \in {s, Null}

\* What a commit has renamed is the last of that name, unless it was removed.
Committing(s) == pc[s] = "committing" /\ reply[s] = "none"

Kept(s) ==
  /\ "bin" \notin renames[s] => file[fileName[s]]["bin"] \in {fd[s], Null}
  /\ "metadata" \notin renames[s] => file[fileName[s]]["metadata"] \in {s, Null}

Renames == \A s \in Save : Committing(s) => Kept(s)

CommitInv == IInv /\ Metadata /\ Renames

LoadInv(l) ==
  /\ lpc[l] # "idle" => lname[l] \in Key
  /\ lpc[l] \in {"metadata", "found"} => Sealed(lbin[l], lname[l])
  /\ lpc[l] = "found" => CommittedMetadata(lmetadata[l], lname[l])

\* What has been read of an inode so far is the beginning of it.
ReadInv(r) ==
  /\ rpc[r] # "idle" => rname[r] \in Key
  /\ rpc[r] \in {"idle", "open"} => got[r] = <<>>
  /\ rpc[r] \in {"reading", "done"}
       => /\ Sealed(rfd[r], rname[r])
          /\ Len(got[r]) <= Len(content[rfd[r]])
          /\ \A i \in 1..Len(got[r]) : got[r][i] = content[rfd[r]][i]
  /\ rpc[r] = "done" => got[r] = content[rfd[r]]

CallTypeOK ==
  /\ lpc \in [Load -> {"idle", "stat", "metadata", "absent", "found", "error", "lost"}]
  /\ lname \in [Load -> Key \cup {Null}]
  /\ lbin \in [Load -> Node]
  /\ lmetadata \in [Load -> Node]
  /\ rpc \in [Read -> {"idle", "open", "reading", "done", "error", "lost"}]
  /\ rname \in [Read -> Key \cup {Null}]
  /\ rfd \in [Read -> Node]
  /\ got \in [Read -> Seq(Node)]

CallInv ==
  /\ CommitInv
  /\ CallTypeOK
  /\ \A l \in Load : LoadInv(l)
  /\ \A r \in Read : ReadInv(r)
-----------------------------------------------------------------------------
\* The steps that change what the invariant of the disk speaks of.
LEMMA UploadSteps ==
  ASSUME [Next]_vars
  PROVE  \/ UNCHANGED uploadView
         \/ \E s \in Save : \/ \E k \in Key, size \in ChunkSize : Begin(s, k, size)
                            \/ \E size \in ChunkSize : Chunk(s, size)
                            \/ WriteMetadata(s) \/ OpenTmp(s)
                            \/ \E m \in 1..MaxSent : Flush(s, m)
                            \/ WriteFails(s) \/ InitFails(s)
                            \/ Abort(s) \/ Complete(s) \/ Publish(s)
                            \/ \E p \in Part : Rename(s, p)
         \/ \E k \in Key, p \in Part : Unlink(k, p) \/ GcUnlink(k, p)
         \/ Restart
PROOF
  <1>1. CASE UNCHANGED vars
    BY <1>1 DEF vars, diskVars, saveVars, faultVars, uploadView
  <1>2. CASE Requests
    BY <1>2 DEF Requests, LoadStart, ReadStart, diskVars, saveVars, faultVars, uploadView
  <1>3. CASE Work
    BY <1>3 DEF Work, FileStep, Removal, Expire, Delete, TmpExpires, GcStat, GcList,
       LoadStat, LoadMetadata, ReadOpen, ReadChunk, diskVars, saveVars, faultVars, uploadView
  <1>4. CASE Indexing
    BY <1>4 DEF Indexing, IndexFile, IndexStat, diskVars, saveVars, faultVars, uploadView
  <1>5. CASE Death
    BY <1>5 DEF Death, Crash, LoadCrash, OpenFails, Exit
  <1> QED
    BY <1>1, <1>2, <1>3, <1>4, <1>5 DEF Next

\* What is visible is sealed.
LEMMA VisibleSealed ==
  ASSUME IInv, NEW k \in Key, file[k]["bin"] # Null
  PROVE  Sealed(file[k]["bin"], k)
PROOF
  <1>1. file[k]["bin"] \in Save
    BY DEF IInv, DiskTypeOK, Node, Part
  <1>2. Owned(file[k]["bin"], k) /\ tmp[k]["bin"] # file[k]["bin"]
    BY DEF IInv, Inodes
  <1>3. \A t \in Save : Writing(t) => fd[t] # file[k]["bin"]
    BY WriterAlone
  <1>4. \E s \in completed : /\ fileName[s] = k /\ fd[s] = file[k]["bin"]
                             /\ Whole(s, content[fd[s]])
    BY DEF IInv, WholeFiles
  <1> QED
    BY <1>1, <1>2, <1>3, <1>4 DEF Sealed

\* A step that leaves the inode, its writer and its owner alone keeps it sealed.
LEMMA SealedFrame ==
  ASSUME NEW n, NEW k, Sealed(n, k), completed \subseteq completed',
         \A t \in completed \cup {n} : fileName'[t] = fileName[t] /\ fd'[t] = fd[t],
         torn \subseteq torn',
         \A t \in completed : sent'[t] = sent[t] /\ written'[t] = written[t],
         content'[n] = content[n],
         tmp'[k]["bin"] # n,
         \A t \in Save : Writing(t)' => fd'[t] # n
  PROVE  Sealed(n, k)'
PROOF
  <1>1. PICK s \in completed : fileName[s] = k /\ fd[s] = n /\ Whole(s, content[n])
    BY DEF Sealed
  <1>2. /\ s \in completed' /\ fileName'[s] = k /\ fd'[s] = n
        /\ sent'[s] = sent[s] /\ written'[s] = written[s]
    BY <1>1
  <1>3. Whole(s, content[n]) => Whole(s, content[n])'
    BY <1>2 DEF Whole
  <1>4. Whole(s, content[n])'
    BY <1>1, <1>3
  <1> QED
    BY <1>2, <1>4 DEF Sealed, Owned

\* A stream never opens a sealed inode, nor is one written.
LEMMA SealedUnopened ==
  ASSUME IInv, NEW n, NEW k \in Key, Sealed(n, k), NEW s \in Save, OpenTmp(s)
  PROVE  Inode(s, fileName[s]) # n /\ Inode(s, fileName[s]) \in Save /\ fileName[s] \in Key
PROOF
  <1> DEFINE m == Inode(s, fileName[s])
  <1>1. ~Quiet(s) /\ fd[s] = Null
    BY DEF OpenTmp, Quiet
  <1>2. m \in Save /\ fileName[s] \in Key
    BY <1>1, InodeFree
  <1>3. m = s \/ (m = tmp[fileName[s]]["bin"] /\ m # Null)
    BY DEF Inode
  <1>4. s # n
    BY <1>1, DiskAssumption DEF Sealed, Owned
  <1>5. ASSUME m = tmp[fileName[s]]["bin"], m # Null PROVE m # n
    BY <1>2, <1>5 DEF IInv, Inodes, Owned, Sealed
  <1> QED
    BY <1>2, <1>3, <1>4, <1>5

\* No step writes the inode of a sealed upload: the stream of its save is
\* flushed, and the next upload of the name opens another inode.
LEMMA SealedUnwritten ==
  ASSUME IInv, [Next]_vars, NEW n, NEW k \in Key, Sealed(n, k)
  PROVE  content'[n] = content[n]
PROOF
  <1>0. n \in Save /\ DiskTypeOK
    BY DEF Sealed, IInv
  <1>1. ASSUME NEW s \in Save, OpenTmp(s)
        PROVE  content'[n] = content[n]
    <2>1. Inode(s, fileName[s]) # n
      BY <1>1, SealedUnopened
    <2> QED
      BY <1>0, <1>1, <2>1 DEF OpenTmp, DiskTypeOK
  <1>2. ASSUME NEW s \in Save, NEW m \in 1..MaxSent, Flush(s, m)
        PROVE  content'[n] = content[n]
    <2>1. Writing(s)
      BY <1>0, <1>2 DEF Flush, Writing, Quiet, Flushed, DiskTypeOK
    <2>2. fd[s] # n
      BY <2>1 DEF Sealed
    <2> QED
      BY <1>0, <1>2, <2>2 DEF Flush, DiskTypeOK
  <1>3. \/ UNCHANGED content
        \/ \E s \in Save : OpenTmp(s) \/ \E m \in 1..MaxSent : Flush(s, m)
    BY UploadSteps DEF uploadView, Begin, Chunk, WriteMetadata, WriteFails, InitFails, Abort,
       Complete, Publish, Rename, Unlink, GcUnlink, Restart, diskVars
  <1> QED
    BY <1>1, <1>2, <1>3

\* A sealed inode stays sealed, whatever happens to its name.
LEMMA SealedKept ==
  ASSUME IInv, [Next]_vars, NEW n, NEW k \in Key, Sealed(n, k)
  PROVE  Sealed(n, k)'
PROOF
  <1> USE DiskAssumption
  <1>a. /\ n \in Save /\ n # Null /\ Owned(n, k) /\ tmp[k]["bin"] # n
        /\ \A t \in Save : Writing(t) => fd[t] # n
    BY DEF Sealed
  <1>b. DiskTypeOK /\ Phases
    BY DEF IInv
  <1>c. fd[n] # Null /\ pc[n] \notin {"idle", "init"}
    BY <1>a, <1>b DEF Owned, Phases
  <1>d. \A t \in completed : t \in Save /\ pc[t] \in {"committing", "closed"}
    BY <1>b DEF DiskTypeOK, Phases
  <1>e. \A t \in completed \cup {n} : t \in Save /\ pc[t] \notin {"idle", "init"}
    BY <1>a, <1>c, <1>d
  <1>1. CASE UNCHANGED uploadView
    BY <1>a, <1>1, SealedFrame DEF uploadView, Writing, Quiet, Flushed, Renamed
  <1>2. ASSUME NEW s \in Save, NEW k2 \in Key, NEW size \in ChunkSize, Begin(s, k2, size)
        PROVE  Sealed(n, k)'
    <2>1. \A t \in Save : Writing(t)' => Writing(t) /\ fd'[t] = fd[t]
      BY <1>b, <1>2 DEF Begin, diskVars, faultVars, Writing, Quiet, Flushed, Renamed, DiskTypeOK
    <2>2. \A t \in completed \cup {n} : fileName'[t] = fileName[t] /\ fd'[t] = fd[t]
      BY <1>b, <1>e, <1>2 DEF Begin, diskVars, DiskTypeOK
    <2>3. /\ \A t \in completed : sent'[t] = sent[t] /\ written'[t] = written[t]
          /\ torn' = torn
      BY <1>a, <1>b, <1>c, <1>d, <1>2 DEF Begin, diskVars, faultVars,
         DiskTypeOK
    <2>4. content' = content /\ completed' = completed /\ tmp'[k]["bin"] = tmp[k]["bin"]
      BY <1>b, <1>2 DEF Begin, diskVars, DiskTypeOK
    <2> QED
      BY <1>a, <2>1, <2>2, <2>3, <2>4, SealedFrame
  <1>3. ASSUME NEW s \in Save, NEW size \in ChunkSize, Chunk(s, size)
        PROVE  Sealed(n, k)'
    <2>1. \A t \in Save : Writing(t)' => Writing(t) /\ fd'[t] = fd[t]
      BY <1>b, <1>3 DEF Chunk, diskVars, faultVars, Writing, Quiet, Flushed, Renamed, DiskTypeOK
    <2>2. \A t \in completed \cup {n} : fileName'[t] = fileName[t] /\ fd'[t] = fd[t]
      BY <1>b, <1>e, <1>3 DEF Chunk, diskVars, DiskTypeOK
    <2>3. /\ \A t \in completed : sent'[t] = sent[t] /\ written'[t] = written[t]
          /\ torn' = torn
      BY <1>a, <1>b, <1>c, <1>d, <1>3 DEF Chunk, diskVars, faultVars,
         DiskTypeOK
    <2>4. content' = content /\ completed' = completed /\ tmp'[k]["bin"] = tmp[k]["bin"]
      BY <1>b, <1>3 DEF Chunk, diskVars, DiskTypeOK
    <2> QED
      BY <1>a, <2>1, <2>2, <2>3, <2>4, SealedFrame
  <1>4. ASSUME NEW s \in Save, WriteMetadata(s)
        PROVE  Sealed(n, k)'
    <2>1. \A t \in Save : Writing(t)' => Writing(t) /\ fd'[t] = fd[t]
      BY <1>b, <1>4 DEF WriteMetadata, faultVars, Writing, Quiet, Flushed, Renamed, DiskTypeOK, Phases
    <2>2. \A t \in completed \cup {n} : fileName'[t] = fileName[t] /\ fd'[t] = fd[t]
      BY <1>b, <1>e, <1>4 DEF WriteMetadata, DiskTypeOK
    <2>3. /\ \A t \in completed : sent'[t] = sent[t] /\ written'[t] = written[t]
          /\ torn' = torn
      BY <1>a, <1>b, <1>c, <1>d, <1>4 DEF WriteMetadata, faultVars,
         DiskTypeOK, Phases, Part
    <2>4. content' = content /\ completed' = completed /\ tmp'[k]["bin"] = tmp[k]["bin"]
      BY <1>b, <1>4 DEF WriteMetadata, DiskTypeOK, Phases, Part
    <2> QED
      BY <1>a, <2>1, <2>2, <2>3, <2>4, SealedFrame
  <1>5. ASSUME NEW s \in Save, OpenTmp(s)
        PROVE  Sealed(n, k)'
    <2> DEFINE m == Inode(s, fileName[s])
    <2>1. fd[s] = Null /\ pc[s] = "streaming"
      BY <1>5 DEF OpenTmp
    <2>2. m # n /\ m \in Save /\ fileName[s] \in Key
      BY <1>5, SealedUnopened
    <2>3. /\ fd' = [fd EXCEPT ![s] = m]
          /\ tmp' = [tmp EXCEPT ![fileName[s]]["bin"] = m]
          /\ content' = [content EXCEPT ![m] = <<>>]
          /\ UNCHANGED <<file, pc, fileName, fileSize, sent, written, renames, reply,
                         completed, torn>>
      BY <1>5 DEF OpenTmp, faultVars
    <2> HIDE DEF m
    <2>4. tmp'[k]["bin"] # n /\ content'[n] = content[n]
      BY <1>a, <1>b, <2>2, <2>3, SealedUnwritten DEF DiskTypeOK, Part
    <2>5. \A t \in Save : Writing(t)' => fd'[t] # n
      <3> SUFFICES ASSUME NEW t \in Save, Writing(t)' PROVE fd'[t] # n
        OBVIOUS
      <3>1. CASE t = s
        BY <1>b, <2>2, <2>3, <3>1 DEF DiskTypeOK
      <3>2. CASE t # s
        BY <1>a, <1>b, <2>3, <3>2 DEF Writing, Quiet, Flushed, Renamed, DiskTypeOK
      <3> QED
        BY <3>1, <3>2
    <2>6. \A t \in completed \cup {n} : fd'[t] = fd[t]
      <3>1. n # s /\ \A t \in completed : t # s
        BY <1>c, <1>d, <2>1
      <3> QED
        BY <1>b, <1>e, <2>3, <3>1 DEF DiskTypeOK
    <2> QED
      BY <2>3, <2>4, <2>5, <2>6, SealedFrame
  <1>6. ASSUME NEW s \in Save, NEW m \in 1..MaxSent, Flush(s, m)
        PROVE  Sealed(n, k)'
    <2>1. Writing(s)
      BY <1>b, <1>6 DEF Flush, Writing, Quiet, Flushed, DiskTypeOK
    <2>3. content'[n] = content[n]
      BY SealedUnwritten
    <2>4. \A t \in Save : Writing(t)' => Writing(t)
      BY <1>b, <1>6, <2>1 DEF Flush, faultVars, Writing, Quiet, Flushed, Renamed, DiskTypeOK
    <2>5. \A t \in completed : written'[t] = written[t]
      BY <1>b, <1>d, <1>6 DEF Flush, DiskTypeOK
    <2> QED
      BY <1>a, <1>6, <2>3, <2>4, <2>5, SealedFrame DEF Flush, faultVars
  <1>7. ASSUME NEW s \in Save, Abort(s) \/ Complete(s) \/ Publish(s)
        PROVE  Sealed(n, k)'
    <2>1. \A t \in Save : Writing(t)' => Writing(t)
      BY <1>b, <1>7 DEF Abort, Complete, Publish, faultVars, Writing, Quiet, Flushed, Renamed,
         DiskTypeOK, Part
    <2> QED
      BY <1>a, <1>7, <2>1, SealedFrame DEF Abort, Complete, Publish, diskVars, faultVars
  <1>8. ASSUME NEW s \in Save, NEW p \in Part, Rename(s, p)
        PROVE  Sealed(n, k)'
    <2>1. \A t \in Save : Writing(t)' => Writing(t)
      BY <1>b, <1>8 DEF Rename, faultVars, Writing, Quiet, Flushed, Renamed, DiskTypeOK
    <2>2. tmp'[k]["bin"] # n
      <3>1. fileName[s] \in Key
        BY <1>b, <1>8 DEF Rename, Phases
      <3>2. CASE UNCHANGED tmp
        BY <1>a, <3>2
      <3>3. CASE tmp' = [tmp EXCEPT ![fileName[s]][p] = Null]
        BY <1>a, <1>b, <3>1, <3>3 DEF DiskTypeOK, Part
      <3> QED
        BY <1>8, <3>2, <3>3 DEF Rename
    <2> QED
      BY <1>a, <1>8, <2>1, <2>2, SealedFrame DEF Rename, faultVars
  <1>9. ASSUME NEW k2 \in Key, NEW p \in Part, Unlink(k2, p) \/ GcUnlink(k2, p)
        PROVE  Sealed(n, k)'
    <2>1. tmp'[k]["bin"] # n
      <3>1. CASE UNCHANGED tmp
        BY <1>a, <3>1
      <3>2. CASE tmp' = [tmp EXCEPT ![k2][p] = Null]
        BY <1>a, <1>b, <3>2 DEF DiskTypeOK, Part
      <3> QED
        BY <1>9, <3>1, <3>2 DEF Unlink, GcUnlink
    <2>2. \A t \in Save : Writing(t)' <=> Writing(t)
      BY <1>9 DEF Unlink, GcUnlink, saveVars, faultVars, Writing, Quiet, Flushed, Renamed
    <2> QED
      BY <1>a, <1>9, <2>1, <2>2, SealedFrame DEF Unlink, GcUnlink, saveVars, faultVars
  <1>10. CASE Restart
    <2>1. \A t \in Save : ~Writing(t)'
      BY <1>b, <1>10 DEF Restart, Writing, Quiet, DiskTypeOK
    <2> QED
      BY <1>a, <1>10, <2>1, SealedFrame DEF Restart, diskVars
  <1>11. ASSUME NEW s \in Save, WriteFails(s)
         PROVE  Sealed(n, k)'
    <2>1. \A t \in Save : Writing(t)' => Writing(t)
      BY <1>11 DEF WriteFails, diskVars, saveVars, Writing, Quiet, Flushed, Renamed
    <2> QED
      BY <1>a, <1>11, <2>1, SealedFrame DEF WriteFails, diskVars, saveVars
  <1>12. ASSUME NEW s \in Save, InitFails(s)
         PROVE  Sealed(n, k)'
    <2>1. \A t \in Save : Writing(t)' => Writing(t)
      BY <1>b, <1>12 DEF InitFails, faultVars, Writing, Quiet, Flushed, Renamed, DiskTypeOK
    <2>2. tmp'[k]["bin"] = tmp[k]["bin"]
      <3>1. CASE tmp' = [tmp EXCEPT ![fileName[s]]["metadata"] = s]
        BY <1>b, <1>12, <3>1 DEF InitFails, Phases, DiskTypeOK, Part
      <3> QED
        BY <1>12, <3>1 DEF InitFails
    <2> QED
      BY <1>a, <1>12, <2>1, <2>2, SealedFrame DEF InitFails, faultVars
  <1> QED
    BY <1>1, <1>2, <1>3, <1>4, <1>5, <1>6, <1>7, <1>8, <1>9, <1>10, <1>11, <1>12, UploadSteps

\* What a completed upload is of is settled.
LEMMA CompletedKept ==
  ASSUME DiskTypeOK, Phases, [Next]_vars
  PROVE  /\ completed \subseteq completed'
         /\ \A t \in completed : fileName'[t] = fileName[t] /\ fd'[t] = fd[t]
PROOF
  <1>1. \A t \in completed : t \in Save /\ pc[t] \in {"committing", "closed"}
    BY DEF DiskTypeOK, Phases
  <1> USE <1>1 DEF DiskTypeOK
  <1>2. ASSUME NEW s \in Save, NEW k \in Key, NEW size \in ChunkSize, Begin(s, k, size)
        PROVE  \A t \in completed : fileName'[t] = fileName[t]
    BY <1>2 DEF Begin
  <1>3. ASSUME NEW s \in Save, OpenTmp(s)
        PROVE  \A t \in completed : fd'[t] = fd[t]
    BY <1>3 DEF OpenTmp
  <1>4. \/ UNCHANGED fileName
        \/ \E s \in Save, k \in Key, size \in ChunkSize : Begin(s, k, size)
    BY UploadSteps DEF uploadView, Chunk, WriteMetadata, OpenTmp, Flush, WriteFails, InitFails,
       Abort, Complete, Publish, Rename, Unlink, GcUnlink, Restart, saveVars, faultVars
  <1>5. UNCHANGED fd \/ \E s \in Save : OpenTmp(s)
    BY UploadSteps DEF uploadView, Begin, Chunk, WriteMetadata, Flush, WriteFails, InitFails,
       Abort, Complete, Publish, Rename, Unlink, GcUnlink, Restart, saveVars, faultVars
  <1>6. completed \subseteq completed'
    BY UploadSteps DEF uploadView, Begin, Chunk, WriteMetadata, OpenTmp, Flush, WriteFails,
       InitFails, Abort, Complete, Publish, Rename, Unlink, GcUnlink, Restart, saveVars, faultVars
  <1> QED
    BY <1>2, <1>3, <1>4, <1>5, <1>6

\* A save() that has metadata to rename has work left.
LEMMA PendingBusy ==
  ASSUME NEW s \in Save, MetadataPending(s)
  PROVE  ~Quiet(s)
PROOF
  BY DEF MetadataPending, Quiet, Renamed

\* Two saves with file-system calls left to run are of two names.
LEMMA OneBusy ==
  ASSUME Exclusion, Phases, NEW s \in Save, NEW t \in Save, s # t, ~Quiet(s), ~Quiet(t)
  PROVE  fileName[t] # fileName[s]
PROOF
  <1>1. fileName[s] \in Key
    BY DEF Phases, Quiet
  <1> QED
    BY <1>1, DiskAssumption DEF Exclusion

\* A metadata file that gets its final name is that of the upload that renames it.
LEMMA MetadataFileStep ==
  ASSUME IInv, Metadata, [Next]_vars, NEW k \in Key, file'[k]["metadata"] # Null
  PROVE  CommittedMetadata(file[k]["metadata"], k)'
PROOF
  <1> USE DiskAssumption
  <1>a. DiskTypeOK /\ Phases
    BY DEF IInv
  <1>b. \A m : CommittedMetadata(m, k) => CommittedMetadata(m, k)'
    BY <1>a, CompletedKept DEF CommittedMetadata
  <1>1. CASE file'[k]["metadata"] = file[k]["metadata"]
    BY <1>1, <1>b DEF Metadata, CommittedMetadata
  <1>2. ASSUME NEW s \in Save, NEW p \in Part, Rename(s, p)
        PROVE  CommittedMetadata(file[k]["metadata"], k)'
    <2> DEFINE k2 == fileName[s]
    <2>1. k2 \in Key /\ pc[s] = "committing" /\ p \in renames[s] /\ s \in completed
      BY <1>a, <1>2 DEF Rename, Phases
    <2>2. CASE UNCHANGED file
      BY <1>1, <2>2
    <2>3. CASE tmp[k2][p] # Null /\ file' = [file EXCEPT ![k2][p] = tmp[k2][p]]
      <3>1. CASE k2 = k /\ p = "metadata"
        <4>1. tmp[k]["metadata"] = s
          BY <2>1, <2>3, <3>1 DEF Metadata, MetadataPending
        <4>2. file'[k]["metadata"] = s
          BY <1>a, <2>3, <3>1, <4>1 DEF DiskTypeOK, Part
        <4> QED
          BY <1>b, <2>1, <3>1, <4>2 DEF CommittedMetadata
      <3>2. CASE ~(k2 = k /\ p = "metadata")
        BY <1>a, <1>1, <2>1, <2>3, <3>2 DEF DiskTypeOK, Part
      <3> QED
        BY <3>1, <3>2
    <2> QED
      BY <1>2, <2>2, <2>3 DEF Rename
  <1>3. ASSUME NEW k2 \in Key, NEW p \in Part, Unlink(k2, p)
        PROVE  CommittedMetadata(file[k]["metadata"], k)'
    <2>1. file' = [file EXCEPT ![k2][p] = Null]
      BY <1>3 DEF Unlink
    <2>2. file'[k]["metadata"] = file[k]["metadata"]
      BY <1>a, <2>1 DEF DiskTypeOK, Part
    <2> QED
      BY <1>1, <2>2
  <1>4. \/ UNCHANGED file
        \/ \E s \in Save, p \in Part : Rename(s, p)
        \/ \E k2 \in Key, p \in Part : Unlink(k2, p)
    BY UploadSteps DEF uploadView, Begin, Chunk, WriteMetadata, OpenTmp, Flush, WriteFails,
       InitFails, Abort, Complete, Publish, GcUnlink, Restart, diskVars
  <1> QED
    BY <1>1, <1>2, <1>3, <1>4

\* Nobody writes over the temporary metadata of an upload that has yet to rename it.
LEMMA MetadataPendingStep ==
  ASSUME IInv, Metadata, [Next]_vars, NEW s \in Save, MetadataPending(s)'
  PROVE  tmp'[fileName'[s]]["metadata"] \in {s, Null}
PROOF
  <1> USE DiskAssumption
  <1>a. DiskTypeOK /\ Phases /\ Exclusion
    BY DEF IInv
  <1>1. ASSUME NEW t \in Save, WriteMetadata(t)
        PROVE  tmp'[fileName'[s]]["metadata"] \in {s, Null}
    <2>1. fileName[t] \in Key /\ ~Quiet(t) /\ fileName' = fileName
      BY <1>a, <1>1 DEF WriteMetadata, Phases, Quiet
    <2>2. tmp' = [tmp EXCEPT ![fileName[t]]["metadata"] = t]
      BY <1>1 DEF WriteMetadata
    <2>3. CASE t = s
      BY <1>a, <2>1, <2>2, <2>3 DEF DiskTypeOK, Part
    <2>4. CASE t # s
      <3>1. MetadataPending(s)
        BY <1>a, <1>1, <2>4 DEF WriteMetadata, faultVars, MetadataPending, Quiet, Flushed, Renamed,
           DiskTypeOK
      <3>2. fileName[s] # fileName[t]
        BY <1>a, <2>1, <2>4, <3>1, PendingBusy, OneBusy
      <3> QED
        BY <1>a, <2>1, <2>2, <3>1, <3>2 DEF Metadata, DiskTypeOK
    <2> QED
      BY <2>3, <2>4
  <1>3. ASSUME NEW t \in Save, InitFails(t)
        PROVE  tmp'[fileName'[s]]["metadata"] \in {s, Null}
    <2>1. fileName[t] \in Key /\ ~Quiet(t) /\ fileName' = fileName
      BY <1>a, <1>3 DEF InitFails, Phases, Quiet
    <2>2. tmp' \in {tmp, [tmp EXCEPT ![fileName[t]]["metadata"] = t]}
      BY <1>3 DEF InitFails
    <2>3. t # s /\ MetadataPending(s)
      BY <1>a, <1>3 DEF InitFails, faultVars, MetadataPending, Quiet, Flushed, Renamed,
         DiskTypeOK
    <2>4. fileName[s] # fileName[t]
      BY <1>a, <2>1, <2>3, PendingBusy, OneBusy
    <2>5. fileName[s] \in Key
      BY <1>a, <2>3 DEF MetadataPending, Phases
    <2>6. tmp'[fileName[s]] = tmp[fileName[s]]
      BY <1>a, <2>1, <2>2, <2>4, <2>5 DEF DiskTypeOK
    <2> QED
      BY <2>1, <2>3, <2>6 DEF Metadata
  <1>2. ASSUME ~\E t \in Save : WriteMetadata(t) \/ InitFails(t)
        PROVE  tmp'[fileName'[s]]["metadata"] \in {s, Null}
    <2>1. MetadataPending(s) /\ fileName'[s] = fileName[s]
      <3>1. \A t \in Save, k \in Key, size \in ChunkSize :
              Begin(t, k, size) => MetadataPending(s) /\ fileName'[s] = fileName[s]
        BY <1>a DEF Begin, faultVars, MetadataPending, Quiet, Flushed, Renamed, DiskTypeOK
      <3>2. \A t \in Save, size \in ChunkSize :
              Chunk(t, size) => MetadataPending(s) /\ fileName'[s] = fileName[s]
        BY <1>a DEF Chunk, faultVars, MetadataPending, Quiet, Flushed, Renamed, DiskTypeOK
      <3>3. \A t \in Save :
              OpenTmp(t) \/ (\E m \in 1..MaxSent : Flush(t, m)) \/ WriteFails(t)
                => MetadataPending(s) /\ fileName'[s] = fileName[s]
        BY <1>a DEF OpenTmp, Flush, WriteFails, saveVars, faultVars, MetadataPending, Quiet, Flushed, Renamed, DiskTypeOK
      <3>4. \A t \in Save :
              Abort(t) \/ Complete(t) \/ Publish(t)
                => MetadataPending(s) /\ fileName'[s] = fileName[s]
        BY <1>a DEF Abort, Complete, Publish, faultVars, MetadataPending, Quiet, Flushed, Renamed,
           DiskTypeOK
      <3>5. \A t \in Save, p \in Part :
              Rename(t, p) => MetadataPending(s) /\ fileName'[s] = fileName[s]
        BY <1>a DEF Rename, faultVars, MetadataPending, Quiet, Flushed, Renamed, DiskTypeOK
      <3>6. \A k \in Key, p \in Part :
              Unlink(k, p) \/ GcUnlink(k, p)
                => MetadataPending(s) /\ fileName'[s] = fileName[s]
        BY DEF Unlink, GcUnlink, saveVars, faultVars, MetadataPending, Quiet, Flushed, Renamed
      <3>7. ~Restart
        BY <1>a DEF Restart, MetadataPending, Quiet, DiskTypeOK
      <3>8. UNCHANGED uploadView => MetadataPending(s) /\ fileName'[s] = fileName[s]
        BY DEF uploadView, MetadataPending, Quiet, Flushed, Renamed
      <3> QED
        BY <1>2, <3>1, <3>2, <3>3, <3>4, <3>5, <3>6, <3>7, <3>8, UploadSteps
    <2>2. fileName[s] \in Key
      BY <1>a, <2>1 DEF MetadataPending, Phases
    <2>3. tmp'[fileName[s]]["metadata"] \in {tmp[fileName[s]]["metadata"], Null}
      <3>1. ASSUME NEW k \in Key, NEW p \in Part, tmp' = [tmp EXCEPT ![k][p] = Null]
            PROVE  tmp'[fileName[s]]["metadata"] \in {tmp[fileName[s]]["metadata"], Null}
        BY <1>a, <2>2, <3>1 DEF DiskTypeOK, Part
      <3>2. ASSUME NEW t \in Save, OpenTmp(t)
            PROVE  tmp'[fileName[s]]["metadata"] = tmp[fileName[s]]["metadata"]
        <4>1. tmp' = [tmp EXCEPT ![fileName[t]]["bin"] = Inode(t, fileName[t])]
          BY <3>2 DEF OpenTmp
        <4> QED
          BY <1>a, <2>2, <4>1 DEF DiskTypeOK, Part
      <3>3. \/ UNCHANGED tmp
            \/ \E t \in Save : OpenTmp(t)
            \/ \E k \in Key, p \in Part : tmp' = [tmp EXCEPT ![k][p] = Null]
        <4>1. \A t \in Save, p \in Part :
                Rename(t, p) => \/ UNCHANGED tmp
                                \/ /\ fileName[t] \in Key
                                   /\ tmp' = [tmp EXCEPT ![fileName[t]][p] = Null]
          BY <1>a DEF Rename, Phases
        <4> QED
          BY <1>2, <4>1, UploadSteps DEF uploadView, Begin, Chunk, Flush, WriteFails, Abort,
             Complete, Publish, Unlink, GcUnlink, Restart, diskVars
      <3> QED
        BY <3>1, <3>2, <3>3
    <2> QED
      BY <2>1, <2>3 DEF Metadata
  <1> QED
    BY <1>1, <1>2, <1>3

\* What a commit has renamed stays, until it is removed.
LEMMA RenamesStep ==
  ASSUME IInv, Metadata, Renames, [Next]_vars
  PROVE  Renames'
PROOF
  <1> USE DiskAssumption
  <1>a. DiskTypeOK /\ Phases /\ Exclusion
    BY DEF IInv
  <1> SUFFICES ASSUME NEW s \in Save, Committing(s)'
               PROVE  Kept(s)'
    BY DEF Renames
  <1> USE DEF Committing, Kept
  <1>b. Committing(s) => fileName[s] \in Key /\ ~Quiet(s) /\ Kept(s)
    BY <1>a DEF Renames, Phases, Quiet
  <1>1. ASSUME UNCHANGED <<file, renames>>, Committing(s),
               fileName'[s] = fileName[s], fd'[s] = fd[s]
        PROVE  Kept(s)'
    BY <1>1, <1>b
  <1>2. ASSUME NEW t \in Save, NEW size \in ChunkSize,
               (\E k \in Key : Begin(t, k, size)) \/ Chunk(t, size)
        PROVE  Kept(s)'
    <2>1. Committing(s) /\ fileName'[s] = fileName[s] /\ fd'[s] = fd[s]
      BY <1>a, <1>2 DEF Begin, Chunk, DiskTypeOK
    <2> QED
      BY <1>1, <1>2, <2>1 DEF Begin, Chunk, diskVars
  <1>3. ASSUME NEW t \in Save,
               \/ WriteMetadata(t) \/ OpenTmp(t) \/ \E m \in 1..MaxSent : Flush(t, m)
               \/ WriteFails(t) \/ InitFails(t) \/ Abort(t)
        PROVE  Kept(s)'
    <2>1. Committing(s) /\ fileName'[s] = fileName[s]
      BY <1>a, <1>3 DEF WriteMetadata, OpenTmp, Flush, WriteFails, InitFails, Abort,
         saveVars, DiskTypeOK
    <2>2. fd'[s] = fd[s]
      BY <1>a, <1>3, <2>1 DEF WriteMetadata, OpenTmp, Flush, WriteFails, InitFails, Abort,
         saveVars, DiskTypeOK
    <2> QED
      BY <1>1, <1>3, <2>1, <2>2 DEF WriteMetadata, OpenTmp, Flush, WriteFails, InitFails,
         Abort, diskVars, saveVars
  <1>4. ASSUME NEW t \in Save, Complete(t)
        PROVE  Kept(s)'
    <2>1. CASE t = s
      BY <1>a, <1>4, <2>1 DEF Complete, DiskTypeOK, Part
    <2>2. CASE t # s
      BY <1>a, <1>b, <1>4, <2>2 DEF Complete, diskVars, DiskTypeOK
    <2> QED
      BY <2>1, <2>2
  <1>5. ASSUME NEW t \in Save, Publish(t)
        PROVE  Kept(s)'
    <2>1. Committing(s)
      BY <1>a, <1>5 DEF Publish, DiskTypeOK
    <2> QED
      BY <1>1, <1>5, <2>1 DEF Publish, diskVars
  <1>6. ASSUME NEW t \in Save, NEW p \in Part, Rename(t, p)
        PROVE  Kept(s)'
    <2> DEFINE k == fileName[t]
    <2>1. /\ k \in Key /\ pc[t] = "committing" /\ p \in renames[t] /\ fd[t] # Null
          /\ ~Quiet(t)
      BY <1>a, <1>6 DEF Rename, Phases, Quiet, Renamed
    <2>2. Committing(s)
      BY <1>a, <1>6 DEF Rename, DiskTypeOK
    <2>3. /\ renames' = [renames EXCEPT ![t] = @ \ {p}]
          /\ UNCHANGED <<fileName, fd>>
      BY <1>6 DEF Rename
    <2>4. CASE t = s
      <3>1. tmp[k][p] # Null /\ file' = [file EXCEPT ![k][p] = tmp[k][p]]
        BY <1>a, <1>6, <2>4 DEF Rename, DiskTypeOK
      <3>2. CASE p = "bin"
        <4>1. tmp[k]["bin"] = fd[s]
          BY <2>1, <2>4, <3>1, <3>2 DEF IInv, WritersHidden, Writing
        <4> QED
          BY <1>a, <1>b, <2>1, <2>2, <2>3, <2>4, <3>1, <3>2, <4>1 DEF DiskTypeOK, Part
      <3>3. CASE p = "metadata"
        <4>1. tmp[k]["metadata"] = s
          BY <2>1, <2>4, <3>1, <3>3 DEF Metadata, MetadataPending
        <4> QED
          BY <1>a, <1>b, <2>1, <2>2, <2>3, <2>4, <3>1, <3>3, <4>1 DEF DiskTypeOK, Part
      <3> QED
        BY <3>2, <3>3 DEF Part
    <2>5. CASE t # s
      <3>1. fileName[s] # k
        BY <1>a, <1>b, <2>1, <2>2, <2>5, OneBusy
      <3>2. file'[fileName[s]] = file[fileName[s]]
        BY <1>a, <1>b, <1>6, <2>1, <2>2, <3>1 DEF Rename, DiskTypeOK
      <3> QED
        BY <1>a, <1>b, <2>2, <2>3, <2>5, <3>2 DEF DiskTypeOK
    <2> QED
      BY <2>4, <2>5
  <1>7. ASSUME NEW k \in Key, NEW p \in Part, Unlink(k, p)
        PROVE  Kept(s)'
    <2>1. file' = [file EXCEPT ![k][p] = Null] /\ UNCHANGED saveVars
      BY <1>7 DEF Unlink
    <2>2. Committing(s)
      BY <2>1 DEF saveVars, faultVars
    <2>3. \A q \in Part : file'[fileName[s]][q] \in {file[fileName[s]][q], Null}
      BY <1>a, <1>b, <2>1, <2>2 DEF DiskTypeOK, Part
    <2>4. "bin" \in Part /\ "metadata" \in Part
      BY DEF Part
    <2> QED
      BY <1>b, <2>1, <2>2, <2>3, <2>4 DEF saveVars, faultVars
  <1>8. ASSUME NEW k \in Key, NEW p \in Part, GcUnlink(k, p)
        PROVE  Kept(s)'
    BY <1>1, <1>8 DEF GcUnlink, saveVars, faultVars
  <1>9. ~Restart
    BY <1>a DEF Restart, DiskTypeOK
  <1>10. CASE UNCHANGED uploadView
    BY <1>1, <1>10 DEF uploadView
  <1> HIDE DEF Committing, Kept
  <1> QED
    BY <1>2, <1>3, <1>4, <1>5, <1>6, <1>7, <1>8, <1>9, <1>10, UploadSteps

\* The invariant of commits: it holds at first and is kept by every step.
\* Nothing is committed at first.
LEMMA InitCommit == Init => CommitInv
PROOF
  <1> SUFFICES ASSUME Init PROVE CommitInv
    OBVIOUS
  <1>1. IInv
    BY InitInv
  <1>2. Metadata /\ Renames
    BY DiskAssumption DEF Init, NoFile, Metadata, MetadataPending, Renames, Committing, Part
  <1> QED
    BY <1>1, <1>2 DEF CommitInv

\* Every step keeps what is known of commits: the four parts, one after the
\* other.
LEMMA NextCommit ==
  ASSUME Overlap = "never", CommitInv, [Next]_vars
  PROVE  CommitInv'
PROOF
  <1> USE DEF CommitInv
  <1>1. IInv'
    BY NextInv
  <1>2. Metadata'
    BY MetadataFileStep, MetadataPendingStep DEF Metadata
  <1>3. Renames'
    BY RenamesStep
  <1> QED
    BY <1>1, <1>2, <1>3

\* What is known of commits holds at all times.
LEMMA CommitInvariance ==
  ASSUME Overlap = "never"
  PROVE  Spec => []CommitInv
PROOF
  BY InitCommit, NextCommit, PTL DEF Spec

\* Success is answered in one step, at the end of a commit.
LEMMA SavedStep ==
  ASSUME CommitInv, [Next]_vars, NEW s \in Save, reply[s] # "saved", reply'[s] = "saved"
  PROVE  /\ file'[fileName[s]]["bin"] \in {fd[s], Null}
         /\ file'[fileName[s]]["metadata"] \in {s, Null}
PROOF
  <1>1. DiskTypeOK
    BY DEF CommitInv, IInv
  <1>2. Publish(s)
    <2>1. \A t \in Save, p \in Part : ~Rename(t, p)
      BY <1>1 DEF Rename, DiskTypeOK
    <2>2. \A t \in Save : ~Abort(t) /\ ~InitFails(t)
      BY <1>1 DEF Abort, InitFails, DiskTypeOK
    <2>3. ~Restart
      BY <1>1 DEF Restart, DiskTypeOK
    <2>4. \A t \in Save : Publish(t) => t = s
      BY <1>1 DEF Publish, DiskTypeOK
    <2>5. reply' # reply
      OBVIOUS
    <2> QED
      BY <2>1, <2>2, <2>3, <2>4, <2>5, UploadSteps DEF uploadView, Begin, Chunk,
         WriteMetadata, OpenTmp, Flush, WriteFails, Complete, Unlink, GcUnlink, saveVars, faultVars
  <1> QED
    BY <1>2 DEF Publish, Renamed, diskVars, CommitInv, Renames, Committing, Kept

(* When commitStream reports success, the two files under the name are     *)
(* those of this upload, or a removal has already taken them away: no      *)
(* reader can find an older version.                                       *)
THEOREM SuccessIsVisible ==
  ASSUME Overlap = "never"
  PROVE  Spec => SavedIsVisible
PROOF
  <1>1. CommitInv /\ [Next]_vars
          => [\A s \in Save :
                reply[s] # "saved" /\ reply'[s] = "saved"
                  => /\ file'[fileName[s]]["bin"] \in {fd[s], Null}
                     /\ file'[fileName[s]]["metadata"] \in {s, Null}]_vars
    BY SavedStep
  <1> QED
    BY <1>1, CommitInvariance, PTL DEF Spec, SavedIsVisible

-----------------------------------------------------------------------------
\* The steps that change what a load holds.
LEMMA LoadSteps ==
  ASSUME [Next]_vars
  PROVE  \/ UNCHANGED loadVars
         \/ Restart
         \/ \E m \in Load :
              (\E k \in Key : LoadStart(m, k)) \/ LoadStat(m) \/ LoadMetadata(m)
PROOF
  <1>1. CASE UNCHANGED vars
    BY <1>1 DEF vars
  <1>2. CASE Requests
    BY <1>2 DEF Requests, Begin, ReadStart
  <1>3. CASE Work
    <2>1. ASSUME NEW s \in Save,
                 (\E size \in ChunkSize : Chunk(s, size)) \/ FileStep(s)
                   \/ Complete(s) \/ Abort(s) \/ WriteFails(s) \/ InitFails(s)
          PROVE  UNCHANGED loadVars
      BY <2>1 DEF FileStep, Chunk, WriteMetadata, OpenTmp, Flush, Rename, Publish, Complete,
         Abort, WriteFails, InitFails
    <2>2. ASSUME NEW k \in Key,
                 Expire(k) \/ Delete(k) \/ Removal(k) \/ TmpExpires(k) \/ GcStat(k)
                   \/ \E p \in Part : GcUnlink(k, p)
          PROVE  UNCHANGED loadVars
      BY <2>2 DEF Expire, Delete, Removal, Unlink, TmpExpires, GcStat, GcUnlink
    <2> QED
      BY <1>3, <2>1, <2>2 DEF Work, GcList, ReadOpen, ReadChunk
  <1>4. CASE Indexing
    BY <1>4 DEF Indexing, IndexFile, IndexStat
  <1>5. CASE Death
    BY <1>5 DEF Death, Crash, LoadCrash, OpenFails, Exit
  <1> QED
    BY <1>1, <1>2, <1>3, <1>4, <1>5 DEF Next

\* What a load has been told stays true while it waits for the next call.
LEMMA LoadKept ==
  ASSUME CommitInv, [Next]_vars, NEW l \in Load, LoadInv(l),
         lname'[l] = lname[l], lbin'[l] = lbin[l], lmetadata'[l] = lmetadata[l],
         lpc'[l] = lpc[l] \/ (lpc'[l] = "lost" /\ lpc[l] # "idle")
  PROVE  LoadInv(l)'
PROOF
  <1>1. IInv /\ DiskTypeOK /\ Phases
    BY DEF CommitInv, IInv
  <1>2. ASSUME lpc'[l] \in {"metadata", "found"}
        PROVE  Sealed(lbin[l], lname[l])'
    <2> DEFINE n == lbin[l]
               k == lname[l]
    <2>1. k \in Key /\ Sealed(n, k)
      BY <1>2 DEF LoadInv
    <2> HIDE DEF n, k
    <2>2. \A x : \A y \in Key : Sealed(x, y) => Sealed(x, y)'
      BY <1>1, SealedKept
    <2>3. PICK x, y : x = n /\ y = k
      OBVIOUS
    <2>4. Sealed(x, y)'
      BY <2>1, <2>2, <2>3
    <2>5. x = lbin'[l] /\ y = lname'[l]
      BY <2>3 DEF n, k
    <2> QED
      BY <2>4, <2>5 DEF Sealed, Owned
  <1>3. ASSUME lpc'[l] = "found"
        PROVE  CommittedMetadata(lmetadata[l], lname[l])'
    BY <1>1, <1>3, CompletedKept DEF LoadInv, CommittedMetadata
  <1> QED
    BY <1>2, <1>3 DEF LoadInv

\* What a load finds under a final name is committed.
LEMMA LoadStep ==
  ASSUME CommitInv, CallTypeOK, [Next]_vars, NEW l \in Load, LoadInv(l)
  PROVE  LoadInv(l)'
PROOF
  <1>a. IInv /\ DiskTypeOK
    BY DEF CommitInv, IInv
  <1>1. ASSUME NEW k \in Key, LoadStart(l, k)
        PROVE  LoadInv(l)'
    BY <1>1 DEF LoadStart, LoadInv, CallTypeOK
  <1>2. CASE LoadStat(l)
    <2>1. /\ lpc' = [lpc EXCEPT ![l] = IF file[lname[l]]["bin"] = Null THEN "error" ELSE "metadata"]
          /\ lbin' = [lbin EXCEPT ![l] = file[lname[l]]["bin"]]
          /\ UNCHANGED <<lname, lmetadata, diskVars, saveVars, faultVars>>
          /\ lpc[l] = "stat"
      BY <1>2 DEF LoadStat, Located
    <2>2. lname[l] \in Key
      BY <2>1 DEF LoadInv
    <2>3. CASE file[lname[l]]["bin"] = Null
      BY <2>1, <2>2, <2>3 DEF LoadInv, CallTypeOK
    <2>4. CASE file[lname[l]]["bin"] # Null
      <3>1. Sealed(file[lname[l]]["bin"], lname[l])
        BY <1>a, <2>2, <2>4, VisibleSealed
      <3>2. lbin'[l] = file[lname[l]]["bin"] /\ lpc'[l] = "metadata"
        BY <2>1, <2>4 DEF CallTypeOK
      <3>3. Sealed(lbin[l], lname[l])'
        BY <2>1, <3>1, <3>2 DEF diskVars, saveVars, faultVars, Sealed, Owned, Writing, Quiet, Flushed,
           Renamed, Whole
      <3> QED
        BY <2>1, <2>2, <3>2, <3>3 DEF LoadInv
    <2> QED
      BY <2>3, <2>4
  <1>3. CASE LoadMetadata(l)
    <2>1. /\ lpc' = [lpc EXCEPT ![l] = "found"]
          /\ lmetadata' = [lmetadata EXCEPT ![l] = file[lname[l]]["metadata"]]
          /\ file[lname[l]]["metadata"] # Null
          /\ UNCHANGED <<lname, lbin, diskVars, saveVars, faultVars>>
          /\ lpc[l] = "metadata"
      BY <1>3 DEF LoadMetadata, Located
    <2>2. lname[l] \in Key /\ Sealed(lbin[l], lname[l])
      BY <2>1 DEF LoadInv
    <2>3. lmetadata'[l] = file[lname[l]]["metadata"]
      BY <2>1 DEF CallTypeOK
    <2>4. CommittedMetadata(lmetadata[l], lname[l])'
      BY <2>1, <2>2, <2>3 DEF CommitInv, Metadata, CommittedMetadata, saveVars, faultVars
    <2>5. Sealed(lbin[l], lname[l])'
      BY <2>1, <2>2 DEF diskVars, saveVars, faultVars, Sealed, Owned, Writing, Quiet, Flushed, Renamed,
         Whole
    <2> QED
      BY <2>1, <2>2, <2>4, <2>5 DEF LoadInv
  <1>4. ASSUME NEW m \in Load, m # l,
               (\E k \in Key : LoadStart(m, k)) \/ LoadStat(m) \/ LoadMetadata(m)
        PROVE  LoadInv(l)'
    <2>1. lname'[l] = lname[l] /\ lbin'[l] = lbin[l] /\ lmetadata'[l] = lmetadata[l]
      BY <1>4 DEF LoadStart, LoadStat, LoadMetadata, CallTypeOK
    <2>2. lpc'[l] = lpc[l]
      BY <1>4 DEF LoadStart, LoadStat, LoadMetadata, CallTypeOK
    <2> QED
      BY <2>1, <2>2, LoadKept
  <1>5. CASE Restart
    <2>1. lpc'[l] = IF lpc[l] \in {"stat", "metadata"} THEN "lost" ELSE lpc[l]
      BY <1>5 DEF Restart
    <2>2. UNCHANGED <<lname, lbin, lmetadata>>
      BY <1>5 DEF Restart
    <2>3. lpc'[l] = lpc[l] \/ (lpc'[l] = "lost" /\ lpc[l] # "idle")
      BY <2>1
    <2>4. lname'[l] = lname[l] /\ lbin'[l] = lbin[l] /\ lmetadata'[l] = lmetadata[l]
      BY <2>2
    <2> QED
      BY <2>3, <2>4, LoadKept
  <1>6. CASE UNCHANGED loadVars
    BY <1>6, LoadKept DEF loadVars
  <1> QED
    BY <1>1, <1>2, <1>3, <1>4, <1>5, <1>6, LoadSteps

-----------------------------------------------------------------------------
\* The steps that change what a reader holds.
LEMMA ReadSteps ==
  ASSUME [Next]_vars
  PROVE  \/ UNCHANGED readVars
         \/ Restart
         \/ \E m \in Read :
              (\E k \in Key : ReadStart(m, k)) \/ ReadOpen(m) \/ ReadChunk(m)
PROOF
  <1>1. CASE UNCHANGED vars
    BY <1>1 DEF vars
  <1>2. CASE Requests
    BY <1>2 DEF Requests, Begin, LoadStart
  <1>3. CASE Work
    <2>1. ASSUME NEW s \in Save,
                 (\E size \in ChunkSize : Chunk(s, size)) \/ FileStep(s)
                   \/ Complete(s) \/ Abort(s) \/ WriteFails(s) \/ InitFails(s)
          PROVE  UNCHANGED readVars
      BY <2>1 DEF FileStep, Chunk, WriteMetadata, OpenTmp, Flush, Rename, Publish, Complete,
         Abort, WriteFails, InitFails
    <2>2. ASSUME NEW k \in Key,
                 Expire(k) \/ Delete(k) \/ Removal(k) \/ TmpExpires(k) \/ GcStat(k)
                   \/ \E p \in Part : GcUnlink(k, p)
          PROVE  UNCHANGED readVars
      BY <2>2 DEF Expire, Delete, Removal, Unlink, TmpExpires, GcStat, GcUnlink
    <2> QED
      BY <1>3, <2>1, <2>2 DEF Work, GcList, LoadStat, LoadMetadata
  <1>4. CASE Indexing
    BY <1>4 DEF Indexing, IndexFile, IndexStat
  <1>5. CASE Death
    BY <1>5 DEF Death, Crash, LoadCrash, OpenFails, Exit
  <1> QED
    BY <1>1, <1>2, <1>3, <1>4, <1>5 DEF Next

\* What a reader has read stays true while it waits for more.
LEMMA ReadKept ==
  ASSUME IInv, [Next]_vars, NEW r \in Read, ReadInv(r),
         rname'[r] = rname[r], rfd'[r] = rfd[r], got'[r] = got[r],
         rpc'[r] = rpc[r] \/ (rpc'[r] = "lost" /\ rpc[r] # "idle")
  PROVE  ReadInv(r)'
PROOF
  <1>1. ASSUME rpc'[r] \in {"reading", "done"}
        PROVE  Sealed(rfd[r], rname[r])' /\ content'[rfd[r]] = content[rfd[r]]
    <2> DEFINE n == rfd[r]
               k == rname[r]
    <2>1. k \in Key /\ Sealed(n, k)
      BY <1>1 DEF ReadInv
    <2> HIDE DEF n, k
    <2>2. \A x : \A y \in Key : Sealed(x, y) => Sealed(x, y)' /\ content'[x] = content[x]
      BY SealedKept, SealedUnwritten
    <2>3. PICK x, y : x = n /\ y = k
      OBVIOUS
    <2>4. Sealed(x, y)' /\ content'[x] = content[x]
      BY <2>1, <2>2, <2>3
    <2>5. x = rfd'[r] /\ y = rname'[r] /\ x = rfd[r]
      BY <2>3 DEF n, k
    <2> QED
      BY <2>4, <2>5 DEF Sealed, Owned
  <1> QED
    BY <1>1 DEF ReadInv

\* A read appends the next byte of the inode it has open.
LEMMA ReadStep ==
  ASSUME IInv, CallTypeOK, [Next]_vars, NEW r \in Read, ReadInv(r)
  PROVE  ReadInv(r)'
PROOF
  <1>1. ASSUME NEW k \in Key, ReadStart(r, k)
        PROVE  ReadInv(r)'
    BY <1>1 DEF ReadStart, ReadInv, CallTypeOK
  <1>2. CASE ReadOpen(r)
    <2>1. /\ rpc' = [rpc EXCEPT ![r] = IF file[rname[r]]["bin"] = Null THEN "error" ELSE "reading"]
          /\ rfd' = [rfd EXCEPT ![r] = file[rname[r]]["bin"]]
          /\ UNCHANGED <<rname, got, diskVars, saveVars, faultVars>>
          /\ rpc[r] = "open"
      BY <1>2 DEF ReadOpen, Located
    <2>2. rname[r] \in Key /\ got[r] = <<>>
      BY <2>1 DEF ReadInv
    <2>3. CASE file[rname[r]]["bin"] = Null
      BY <2>1, <2>2, <2>3 DEF ReadInv, CallTypeOK
    <2>4. CASE file[rname[r]]["bin"] # Null
      <3>1. Sealed(file[rname[r]]["bin"], rname[r])
        BY <2>2, <2>4, VisibleSealed
      <3>2. rfd'[r] = file[rname[r]]["bin"] /\ rpc'[r] = "reading"
        BY <2>1, <2>4 DEF CallTypeOK
      <3>3. Sealed(rfd[r], rname[r])'
        BY <2>1, <3>1, <3>2 DEF diskVars, saveVars, faultVars, Sealed, Owned, Writing, Quiet, Flushed,
           Renamed, Whole
      <3>4. content[file[rname[r]]["bin"]] \in Seq(Node)
        BY <3>1 DEF Sealed, IInv, DiskTypeOK
      <3>5. Len(got'[r]) = 0 /\ Len(got'[r]) <= Len(content'[rfd'[r]])
        BY <2>1, <2>2, <3>2, <3>4 DEF diskVars
      <3> QED
        BY <2>1, <2>2, <3>2, <3>3, <3>5 DEF ReadInv
    <2> QED
      BY <2>3, <2>4
  <1>3. CASE ReadChunk(r)
    <2> DEFINE c == content[rfd[r]]
               g == got[r]
    <2>1. /\ rpc[r] = "reading"
          /\ UNCHANGED <<rname, rfd, diskVars, saveVars, faultVars>>
          /\ IF Len(g) < Len(c)
             THEN got' = [got EXCEPT ![r] = Append(g, c[Len(g) + 1])] /\ UNCHANGED rpc
             ELSE rpc' = [rpc EXCEPT ![r] = "done"] /\ UNCHANGED got
      BY <1>3 DEF ReadChunk
    <2>2. /\ rname[r] \in Key /\ Sealed(rfd[r], rname[r])
          /\ Len(g) <= Len(c)
          /\ \A i \in 1..Len(g) : g[i] = c[i]
      BY <2>1 DEF ReadInv
    <2>3. c \in Seq(Node) /\ g \in Seq(Node)
      BY <2>2 DEF Sealed, IInv, DiskTypeOK, CallTypeOK
    <2>4. Sealed(rfd[r], rname[r])' /\ content'[rfd'[r]] = c /\ rname'[r] = rname[r]
      BY <2>1, <2>2 DEF diskVars, saveVars, faultVars, Sealed, Owned, Writing, Quiet, Flushed, Renamed,
         Whole
    <2>5. CASE Len(g) < Len(c)
      <3>1. rpc'[r] = "reading" /\ got'[r] = Append(g, c[Len(g) + 1])
        BY <2>1, <2>5 DEF CallTypeOK
      <3> HIDE DEF c, g
      <3>2. /\ Len(Append(g, c[Len(g) + 1])) <= Len(c)
            /\ \A i \in 1..Len(Append(g, c[Len(g) + 1])) : Append(g, c[Len(g) + 1])[i] = c[i]
        BY <2>2, <2>3, <2>5
      <3> QED
        BY <2>2, <2>4, <3>1, <3>2 DEF ReadInv
    <2>6. CASE ~(Len(g) < Len(c))
      <3>1. rpc'[r] = "done" /\ got'[r] = g
        BY <2>1, <2>6 DEF CallTypeOK
      <3> HIDE DEF c, g
      <3>2. g = c
        BY <2>2, <2>3, <2>6
      <3> QED
        BY <2>2, <2>4, <3>1, <3>2 DEF ReadInv
    <2> QED
      BY <2>5, <2>6
  <1>4. ASSUME NEW m \in Read, m # r,
               (\E k \in Key : ReadStart(m, k)) \/ ReadOpen(m) \/ ReadChunk(m)
        PROVE  ReadInv(r)'
    <2>1. rname'[r] = rname[r] /\ rfd'[r] = rfd[r]
      BY <1>4 DEF ReadStart, ReadOpen, ReadChunk, CallTypeOK
    <2>2. rpc'[r] = rpc[r] /\ got'[r] = got[r]
      BY <1>4 DEF ReadStart, ReadOpen, ReadChunk, CallTypeOK
    <2> QED
      BY <2>1, <2>2, ReadKept
  <1>5. CASE Restart
    <2>1. rpc'[r] = IF rpc[r] \in {"open", "reading"} THEN "lost" ELSE rpc[r]
      BY <1>5 DEF Restart
    <2>2. UNCHANGED <<rname, rfd, got>>
      BY <1>5 DEF Restart
    <2>3. rpc'[r] = rpc[r] \/ (rpc'[r] = "lost" /\ rpc[r] # "idle")
      BY <2>1
    <2>4. rname'[r] = rname[r] /\ rfd'[r] = rfd[r] /\ got'[r] = got[r]
      BY <2>2
    <2> QED
      BY <2>3, <2>4, ReadKept
  <1>6. CASE UNCHANGED readVars
    BY <1>6, ReadKept DEF readVars
  <1> QED
    BY <1>1, <1>2, <1>3, <1>4, <1>5, <1>6, ReadSteps

-----------------------------------------------------------------------------
\* The variables of load() and loadChunks() stay in their domains.
LEMMA CallTypeStep ==
  ASSUME IInv, CallTypeOK, [Next]_vars, \A l \in Load : LoadInv(l), \A r \in Read : ReadInv(r)
  PROVE  CallTypeOK'
PROOF
  <1> USE DEF CallTypeOK
  <1>a. \A k \in Key : file[k]["bin"] \in Node /\ file[k]["metadata"] \in Node
    BY DEF IInv, DiskTypeOK, Part
  <1>1. ASSUME NEW l \in Load, NEW k \in Key, LoadStart(l, k)
        PROVE  CallTypeOK'
    BY <1>1 DEF LoadStart, readVars
  <1>2. ASSUME NEW l \in Load, LoadStat(l) \/ LoadMetadata(l)
        PROVE  CallTypeOK'
    <2>1. lname[l] \in Key
      BY <1>2 DEF LoadStat, LoadMetadata, LoadInv
    <2> QED
      BY <1>a, <1>2, <2>1 DEF LoadStat, LoadMetadata, Located, readVars
  <1>3. ASSUME NEW r \in Read, NEW k \in Key, ReadStart(r, k)
        PROVE  CallTypeOK'
    BY <1>3 DEF ReadStart, loadVars
  <1>4. ASSUME NEW r \in Read, ReadOpen(r)
        PROVE  CallTypeOK'
    <2>1. rname[r] \in Key
      BY <1>4 DEF ReadOpen, ReadInv
    <2> QED
      BY <1>a, <1>4, <2>1 DEF ReadOpen, Located, loadVars
  <1>5. ASSUME NEW r \in Read, ReadChunk(r)
        PROVE  CallTypeOK'
    <2> DEFINE c == content[rfd[r]]
               g == got[r]
    <2>1. c \in Seq(Node) /\ g \in Seq(Node)
      BY <1>5 DEF ReadChunk, ReadInv, Sealed, IInv, DiskTypeOK
    <2>2. ASSUME Len(g) < Len(c) PROVE Append(g, c[Len(g) + 1]) \in Seq(Node)
      <3> HIDE DEF c, g
      <3>1. c[Len(g) + 1] \in Node
        BY <2>1, <2>2
      <3> QED
        BY <2>1, <3>1
    <2>3. /\ got' \in [Read -> Seq(Node)]
          /\ UNCHANGED <<rname, rfd>> /\ UNCHANGED loadVars
      BY <1>5, <2>2 DEF ReadChunk
    <2>4. rpc' \in [Read -> {"idle", "open", "reading", "done", "error", "lost"}]
      BY <1>5 DEF ReadChunk
    <2> QED
      BY <2>3, <2>4 DEF loadVars
  <1>6. CASE Restart
    <2>1. lpc' \in [Load -> {"idle", "stat", "metadata", "absent", "found", "error", "lost"}]
      BY <1>6 DEF Restart
    <2>2. rpc' \in [Read -> {"idle", "open", "reading", "done", "error", "lost"}]
      BY <1>6 DEF Restart
    <2> QED
      BY <1>6, <2>1, <2>2 DEF Restart
  <1>7. CASE UNCHANGED loadVars /\ UNCHANGED readVars
    BY <1>7 DEF loadVars, readVars
  <1>8. ASSUME NEW l \in Load,
               (\E k \in Key : LoadStart(l, k)) \/ LoadStat(l) \/ LoadMetadata(l)
        PROVE  CallTypeOK'
    BY <1>1, <1>2, <1>8
  <1>9. ASSUME NEW r \in Read,
               (\E k \in Key : ReadStart(r, k)) \/ ReadOpen(r) \/ ReadChunk(r)
        PROVE  CallTypeOK'
    BY <1>3, <1>4, <1>5, <1>9
  <1> HIDE DEF CallTypeOK
  <1> QED
    BY <1>6, <1>7, <1>8, <1>9, LoadSteps, ReadSteps

\* Nobody loads or reads at first.
LEMMA InitCall == Init => CallInv
PROOF
  <1> SUFFICES ASSUME Init PROVE CallInv
    OBVIOUS
  <1>1. CommitInv
    BY InitCommit
  <1>2. CallTypeOK /\ (\A l \in Load : LoadInv(l)) /\ (\A r \in Read : ReadInv(r))
    BY DEF Init, CallTypeOK, LoadInv, ReadInv, Node
  <1> QED
    BY <1>1, <1>2 DEF CallInv

\* Every step keeps what is known of the loads and reads under way.
LEMMA NextCall ==
  ASSUME Overlap = "never", CallInv, [Next]_vars
  PROVE  CallInv'
PROOF
  <1> USE DEF CallInv
  <1>0. IInv
    BY DEF CommitInv
  <1>1. CommitInv'
    BY NextCommit
  <1>2. CallTypeOK'
    BY <1>0, CallTypeStep
  <1>3. \A l \in Load : LoadInv(l)'
    BY LoadStep
  <1>4. \A r \in Read : ReadInv(r)'
    BY <1>0, ReadStep
  <1> QED
    BY <1>1, <1>2, <1>3, <1>4

\* What is known of loads and reads holds at all times.
LEMMA CallInvariance ==
  ASSUME Overlap = "never"
  PROVE  Spec => []CallInv
PROOF
  BY InitCall, NextCall, PTL DEF Spec

(* What load answers was committed, data and metadata, although the name   *)
(* may be replaced, removed and uploaded again between its two calls of    *)
(* the file system.                                                        *)
THEOREM LoadsAnswerCommitted ==
  ASSUME Overlap = "never"
  PROVE  Spec => []LoadsCommitted
PROOF
  <1>1. CallInv => LoadsCommitted
    <2> SUFFICES ASSUME CallInv, NEW l \in Load, lpc[l] = "found"
                 PROVE  /\ lmetadata[l] \in completed /\ fileName[lmetadata[l]] = lname[l]
                        /\ \E s \in completed : /\ fileName[s] = lname[l] /\ fd[s] = lbin[l]
                                                /\ Whole(s, content[lbin[l]])
      BY DEF LoadsCommitted
    <2> QED
      BY DEF CallInv, LoadInv, Sealed, CommittedMetadata
  <1> QED
    BY <1>1, CallInvariance, PTL

(* A download that ends normally has delivered one whole upload of its     *)
(* name, whatever happened to the name while loadChunks was reading.       *)
THEOREM ReadersGetWhole ==
  ASSUME Overlap = "never"
  PROVE  Spec => []ReadsWhole
PROOF
  <1>1. CallInv => ReadsWhole
    <2> SUFFICES ASSUME CallInv, NEW r \in Read, rpc[r] = "done"
                 PROVE  \E s \in completed : fileName[s] = rname[r] /\ Whole(s, got[r])
      BY DEF ReadsWhole
    <2>1. Sealed(rfd[r], rname[r]) /\ got[r] = content[rfd[r]]
      BY DEF CallInv, ReadInv
    <2> QED
      BY <2>1 DEF Sealed
  <1> QED
    BY <1>1, CallInvariance, PTL
=============================================================================
