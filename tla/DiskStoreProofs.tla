-------------------------- MODULE DiskStoreProofs --------------------------
(***************************************************************************)
(* DiskStorage implements FileStore, for every value of the constants,     *)
(* when a name is uploaded by one save() at a time, none beginning before  *)
(* the file-system calls of the last have ended.                           *)
(*                                                                         *)
(* The refinement mapping names the upload that a reader of a name finds:  *)
(* it must be the same one for as long as the file stays.  Several         *)
(* completed uploads may have written one inode, since what a crash or an  *)
(* abort leaves under a temporary path is opened again; but of those that  *)
(* have renamed their data (Retired), each has an inode of its own.        *)
(***************************************************************************)
EXTENDS DiskReaderProofs

Unnamed == \A s \in Save : pc[s] = "idle" => fileName[s] = Null

\* s has renamed its data, or failed to.
Retired(s) == s \in completed /\ "bin" \notin renames[s]

Retirement ==
  \A s \in Save :
    Retired(s) => /\ Sealed(fd[s], fileName[s])
                  /\ Whole(s, content[fd[s]])
                  /\ \A t \in Save : Retired(t) /\ t # s => fd[t] # fd[s]

Showing(s, k) == Retired(s) /\ fileName[s] = k /\ fd[s] = file[k]["bin"]

Shown == \A k \in Key : file[k]["bin"] # Null => \E s \in Save : Showing(s, k)

StoreInv == IInv /\ Unnamed /\ Retirement /\ Shown

-----------------------------------------------------------------------------
\* An upload retires when its data are renamed, and for good.
LEMMA RetiredSteps ==
  ASSUME DiskTypeOK, Phases, [Next]_vars, NEW s \in Save
  PROVE  /\ Retired(s) => Retired(s)'
         /\ Retired(s)' => Retired(s) \/ Rename(s, "bin")
PROOF
  <1> USE DEF DiskTypeOK, Retired
  <1>1. CASE UNCHANGED <<completed, renames>>
    BY <1>1
  <1>2. ASSUME NEW t \in Save, Complete(t)
        PROVE  Retired(s)' <=> Retired(s)
    <2>1. t \notin completed
      BY <1>2 DEF Complete, Phases
    <2> QED
      BY <1>2, <2>1 DEF Complete, Part
  <1>3. ASSUME NEW t \in Save, NEW p \in Part, Rename(t, p)
        PROVE  /\ Retired(s) => Retired(s)'
               /\ Retired(s)' => Retired(s) \/ Rename(s, "bin")
    BY <1>3 DEF Rename
  <1>4. \/ UNCHANGED <<completed, renames>>
        \/ \E t \in Save : Complete(t)
        \/ \E t \in Save, p \in Part : Rename(t, p)
    BY UploadSteps DEF uploadView, Begin, Chunk, WriteMetadata, OpenTmp, Flush, WriteFails,
       InitFails, Abort, Publish, Unlink, GcUnlink, Restart, saveVars
  <1> QED
    BY <1>1, <1>2, <1>3, <1>4

\* The inode of an upload whose data are renamed is sealed, also when the rename
\* fails because the temporary path is gone.
LEMMA RenamedSealed ==
  ASSUME IInv, NEW s \in Save, Rename(s, "bin")
  PROVE  Sealed(fd[s], fileName[s])' /\ Whole(s, content[fd[s]])'
PROOF
  <1> DEFINE k == fileName[s]
             n == fd[s]
  <1>a. DiskTypeOK /\ Phases
    BY DEF IInv
  <1>1. Writing(s) /\ pc[s] = "committing" /\ s \in completed /\ k \in Key
    BY <1>a DEF Rename, Writing, Phases
  <1>2. n \in Save /\ Owned(n, k) /\ n # Null
    BY <1>1, DiskAssumption, WriterAlone DEF IInv, Inodes
  <1>3. Whole(s, content[n])
    BY <1>1 DEF IInv, WritersHidden, Whole, Flushed
  <1>4. tmp'[k]["bin"] = Null
    BY <1>a, <1>1 DEF Rename, DiskTypeOK, Part
  <1>5. /\ renames' = [renames EXCEPT ![s] = @ \ {"bin"}]
        /\ UNCHANGED <<content, pc, fileName, fileSize, sent, written, fd, completed, torn>>
    BY DEF Rename, faultVars
  <1>6. ASSUME NEW t \in Save, Writing(t)'
        PROVE  fd[t] # n
    <2>1. t # s
      BY <1>a, <1>1, <1>5, <1>6 DEF Writing, Quiet, DiskTypeOK
    <2>2. reply'[t] = reply[t]
      BY <1>a, <2>1 DEF Rename, DiskTypeOK
    <2>3. Writing(t)
      BY <1>a, <1>5, <1>6, <2>1, <2>2 DEF Writing, Quiet, Flushed, Renamed, DiskTypeOK
    <2> QED
      BY <1>1, <2>1, <2>3, WriterAlone
  <1>7. Whole(s, content[n]) => Whole(s, content[n])'
    BY <1>5 DEF Whole
  <1> QED
    BY <1>1, <1>2, <1>3, <1>4, <1>5, <1>6, <1>7 DEF Sealed, Owned

\* A retired upload keeps its inode, sealed and with all its bytes.
LEMMA RetiredKept ==
  ASSUME IInv, Retirement, [Next]_vars, NEW s \in Save, Retired(s)
  PROVE  /\ Retired(s)' /\ fileName'[s] = fileName[s] /\ fd'[s] = fd[s]
         /\ Sealed(fd[s], fileName[s])'
         /\ content'[fd[s]] = content[fd[s]] /\ Whole(s, content[fd[s]])'
PROOF
  <1>a. DiskTypeOK /\ Phases
    BY DEF IInv
  <1>1. s \in completed /\ pc[s] \in {"committing", "closed"} /\ fileName[s] \in Key
    BY <1>a DEF Retired, Phases
  <1>2. Retired(s)' /\ fileName'[s] = fileName[s] /\ fd'[s] = fd[s]
    BY <1>a, <1>1, RetiredSteps, CompletedKept
  <1>3. sent'[s] = sent[s] /\ written'[s] = written[s] /\ torn \subseteq torn'
    <2>1. ASSUME NEW t \in Save,
                 WriteMetadata(t) \/ \E size \in ChunkSize : Chunk(t, size)
          PROVE  sent'[s] = sent[s]
      BY <1>a, <1>1, <2>1 DEF WriteMetadata, Chunk, DiskTypeOK, Phases
    <2>2. \/ UNCHANGED sent
          \/ \E t \in Save : WriteMetadata(t) \/ \E size \in ChunkSize : Chunk(t, size)
      BY UploadSteps DEF uploadView, Begin, OpenTmp, Flush, WriteFails, InitFails, Abort,
         Complete, Rename, Publish, Unlink, GcUnlink, Restart, saveVars
    <2>3. ASSUME NEW t \in Save, NEW m \in 1..MaxSent, Flush(t, m)
          PROVE  written'[s] = written[s]
      BY <1>a, <1>1, <2>3 DEF Flush, DiskTypeOK
    <2>4. UNCHANGED written \/ \E t \in Save : \E m \in 1..MaxSent : Flush(t, m)
      BY UploadSteps DEF uploadView, Begin, Chunk, WriteMetadata, OpenTmp, WriteFails,
         InitFails, Abort, Complete, Rename, Publish, Unlink, GcUnlink, Restart, saveVars
    <2>5. torn \subseteq torn'
      BY UploadSteps DEF uploadView, Begin, Chunk, WriteMetadata, OpenTmp, Flush, WriteFails,
         InitFails, Abort, Complete, Rename, Publish, Unlink, GcUnlink, Restart, faultVars
    <2> QED
      BY <2>1, <2>2, <2>3, <2>4, <2>5
  <1>4. PICK n, k : n = fd[s] /\ k = fileName[s]
    OBVIOUS
  <1>5. Sealed(n, k)' /\ content'[n] = content[n]
    BY <1>1, <1>4, SealedKept, SealedUnwritten DEF Retirement
  <1>6. Sealed(fd[s], fileName[s])'
    BY <1>2, <1>4, <1>5 DEF Sealed, Owned
  <1>7. content'[fd[s]] = content[fd[s]] /\ fd'[s] = fd[s] /\ Whole(s, content[fd[s]])
    BY <1>2, <1>4, <1>5 DEF Retirement
  <1>8. Whole(s, content[fd[s]])'
    BY <1>3, <1>7 DEF Whole
  <1> QED
    BY <1>2, <1>6, <1>7, <1>8

\* Every step keeps retired uploads sealed, whole and each with its own inode.
LEMMA RetirementStep ==
  ASSUME IInv, Retirement, [Next]_vars
  PROVE  Retirement'
PROOF
  <1>a. DiskTypeOK /\ Phases
    BY DEF IInv
  <1>1. ASSUME NEW s \in Save, Retired(s)'
        PROVE  /\ Sealed(fd[s], fileName[s])'
               /\ Whole(s, content[fd[s]])' /\ fd'[s] = fd[s]
    <2>1. CASE Retired(s)
      BY <1>1, <2>1, RetiredKept DEF Retirement
    <2>2. CASE Rename(s, "bin")
      <3>1. UNCHANGED fd
        BY <2>2 DEF Rename
      <3> QED
        BY <2>2, <3>1, RenamedSealed
    <2> QED
      BY <1>a, <1>1, <2>1, <2>2, RetiredSteps
  <1>2. ASSUME NEW s \in Save, Rename(s, "bin"), NEW t \in Save, t # s, Retired(t)
        PROVE  fd[t] # fd[s]
    <2>1. Writing(s)
      BY <1>a, <1>2 DEF Rename, Writing, Phases
    <2> QED
      BY <1>2, <2>1 DEF Retirement, Sealed
  <1>3. ASSUME NEW s \in Save, Retired(s)', NEW t \in Save, Retired(t)', t # s
        PROVE  fd[t] # fd[s]
    <2>1. CASE Retired(s) /\ Retired(t)
      BY <1>3, <2>1 DEF Retirement
    <2>2. CASE Rename(s, "bin")
      <3>1. ~Rename(t, "bin")
        BY <1>a, <1>3, <2>2 DEF Rename, DiskTypeOK
      <3> QED
        BY <1>a, <1>2, <1>3, <2>2, <3>1, RetiredSteps
    <2>3. CASE Rename(t, "bin")
      <3>1. ~Rename(s, "bin")
        BY <1>a, <1>3, <2>3 DEF Rename, DiskTypeOK
      <3> QED
        BY <1>a, <1>2, <1>3, <2>3, <3>1, RetiredSteps
    <2> QED
      BY <1>a, <1>3, <2>1, <2>2, <2>3, RetiredSteps
  <1> QED
    BY <1>1, <1>3 DEF Retirement

\* A save has no name before its first chunk.
LEMMA UnnamedStep ==
  ASSUME DiskTypeOK, Phases, Unnamed, [Next]_vars
  PROVE  Unnamed'
PROOF
  <1> USE DEF Unnamed, DiskTypeOK
  <1>1. ASSUME NEW s \in Save, NEW k \in Key, NEW size \in ChunkSize, Begin(s, k, size)
        PROVE  Unnamed'
    BY <1>1 DEF Begin
  <1>2. UNCHANGED fileName \/ \E s \in Save, k \in Key, size \in ChunkSize : Begin(s, k, size)
    BY UploadSteps DEF uploadView, Chunk, WriteMetadata, OpenTmp, Flush, WriteFails,
       InitFails, Abort, Complete, Publish, Rename, Unlink, GcUnlink, Restart, saveVars
  <1>3. ASSUME ~\E s \in Save, k \in Key, size \in ChunkSize : Begin(s, k, size),
               NEW s \in Save, pc'[s] = "idle"
        PROVE  pc[s] = "idle"
    <2>1. \A t \in Save, size \in ChunkSize : Chunk(t, size) => UNCHANGED pc
      BY DEF Chunk
    <2>2. \A t \in Save :
            WriteMetadata(t) \/ InitFails(t) \/ Complete(t) \/ Publish(t) => pc[s] = "idle"
      BY <1>3 DEF WriteMetadata, InitFails, Complete, Publish
    <2>3. \A t \in Save :
            OpenTmp(t) \/ (\E m \in 1..MaxSent : Flush(t, m)) \/ WriteFails(t) \/ Abort(t)
              => UNCHANGED pc
      BY DEF OpenTmp, Flush, WriteFails, Abort, saveVars
    <2>4. \A t \in Save, p \in Part : Rename(t, p) => UNCHANGED pc
      BY DEF Rename
    <2>5. Restart => pc[s] = "idle"
      BY <1>3 DEF Restart
    <2>6. \A k \in Key, p \in Part : Unlink(k, p) \/ GcUnlink(k, p) => UNCHANGED pc
      BY DEF Unlink, GcUnlink, saveVars, faultVars
    <2> QED
      BY <1>3, <2>1, <2>2, <2>3, <2>4, <2>5, <2>6, UploadSteps DEF uploadView
  <1> QED
    BY <1>1, <1>2, <1>3

\* The data under a final name change when an upload is renamed or a file unlinked.
LEMMA FileSteps ==
  ASSUME IInv, [Next]_vars
  PROVE  \/ \A k \in Key : file'[k]["bin"] = file[k]["bin"]
         \/ \E s \in Save :
              /\ Rename(s, "bin") /\ fileName[s] \in Key
              /\ tmp[fileName[s]]["bin"] = fd[s] /\ fd[s] # Null
              /\ \A k \in Key : file'[k]["bin"] = IF k = fileName[s] THEN fd[s]
                                                                    ELSE file[k]["bin"]
         \/ \E k \in Key :
              /\ Unlink(k, "bin")
              /\ \A x \in Key : file'[x]["bin"] = IF x = k THEN Null ELSE file[x]["bin"]
PROOF
  <1>a. DiskTypeOK /\ Phases
    BY DEF IInv
  <1> DEFINE Same == \A k \in Key : file'[k]["bin"] = file[k]["bin"]
  <1>1. ASSUME NEW s \in Save, NEW p \in Part, Rename(s, p), ~Same
        PROVE  /\ Rename(s, "bin") /\ fileName[s] \in Key
               /\ tmp[fileName[s]]["bin"] = fd[s] /\ fd[s] # Null
               /\ \A k \in Key : file'[k]["bin"] = IF k = fileName[s] THEN fd[s]
                                                                     ELSE file[k]["bin"]
    <2> DEFINE k == fileName[s]
    <2>1. k \in Key /\ fd[s] # Null /\ pc[s] = "committing" /\ p \in renames[s]
      BY <1>a, <1>1 DEF Rename, Phases
    <2>2. tmp[k][p] # Null /\ file' = [file EXCEPT ![k][p] = tmp[k][p]]
      BY <1>1 DEF Rename
    <2>3. p = "bin"
      BY <1>a, <1>1, <2>1, <2>2 DEF DiskTypeOK, Part
    <2>4. tmp[k]["bin"] = fd[s]
      BY <2>1, <2>2, <2>3 DEF IInv, WritersHidden, Writing
    <2> QED
      BY <1>a, <1>1, <2>1, <2>2, <2>3, <2>4 DEF DiskTypeOK, Part
  <1>2. ASSUME NEW k \in Key, NEW p \in Part, Unlink(k, p), ~Same
        PROVE  /\ Unlink(k, "bin")
               /\ \A x \in Key : file'[x]["bin"] = IF x = k THEN Null ELSE file[x]["bin"]
    <2>1. file' = [file EXCEPT ![k][p] = Null]
      BY <1>2 DEF Unlink
    <2>2. p = "bin"
      BY <1>a, <1>2, <2>1 DEF DiskTypeOK, Part
    <2> QED
      BY <1>a, <1>2, <2>1, <2>2 DEF DiskTypeOK, Part
  <1>3. \/ UNCHANGED file
        \/ \E s \in Save, p \in Part : Rename(s, p)
        \/ \E k \in Key, p \in Part : Unlink(k, p)
    BY UploadSteps DEF uploadView, Begin, Chunk, WriteMetadata, OpenTmp, Flush, WriteFails,
       InitFails, Abort, Complete, Publish, GcUnlink, Restart, diskVars
  <1> QED
    BY <1>1, <1>2, <1>3

\* A visible file keeps the upload that made it visible.
LEMMA ShownStep ==
  ASSUME IInv, Retirement, Shown, [Next]_vars
  PROVE  Shown'
PROOF
  <1>a. DiskTypeOK /\ Phases
    BY DEF IInv
  <1> SUFFICES ASSUME NEW k \in Key, file'[k]["bin"] # Null
               PROVE  \E s \in Save : Showing(s, k)'
    BY DEF Shown
  <1>1. CASE file'[k]["bin"] = file[k]["bin"]
    <2>1. PICK s \in Save : Showing(s, k)
      BY <1>1 DEF Shown
    <2> QED
      BY <1>1, <2>1, RetiredKept DEF Showing
  <1>2. ASSUME NEW s \in Save, Rename(s, "bin"), file'[k]["bin"] = fd[s], fileName[s] = k
        PROVE  Showing(s, k)'
    BY <1>a, <1>2 DEF Showing, Retired, Rename, DiskTypeOK, Phases
  <1> QED
    BY <1>1, <1>2, FileSteps

\* The storage shows nothing at first.
LEMMA InitStore == Init => StoreInv
PROOF
  <1> SUFFICES ASSUME Init PROVE StoreInv
    OBVIOUS
  <1>1. IInv
    BY InitInv
  <1>2. Unnamed /\ Retirement /\ Shown
    BY DEF Init, NoFile, Unnamed, Retirement, Retired, Shown, Part
  <1> QED
    BY <1>1, <1>2 DEF StoreInv

\* Every step keeps what the refinement mapping relies on.
LEMMA NextStore ==
  ASSUME Overlap = "never", StoreInv, [Next]_vars
  PROVE  StoreInv'
PROOF
  <1>1. IInv'
    BY NextInv DEF StoreInv
  <1> QED
    BY <1>1, UnnamedStep, RetirementStep, ShownStep DEF StoreInv, IInv

-----------------------------------------------------------------------------
\* The upload a reader finds is the one that the invariant names.
VisibleIsShowing == \A k \in Key, s \in Save : Showing(s, k) => Visible(k) = s

\* The choice in Visible has one candidate: the upload whose data a name shows.
LEMMA VisibleIs == StoreInv => VisibleIsShowing
PROOF
  <1> SUFFICES ASSUME StoreInv, NEW k \in Key, NEW s \in Save, Showing(s, k)
               PROVE  Visible(k) = s
    BY DEF VisibleIsShowing
  <1> DEFINE shown == {t \in completed : /\ fileName[t] = k
                                         /\ "bin" \notin renames[t]
                                         /\ fd[t] = file[k]["bin"]
                                         /\ Whole(t, content[fd[t]])}
  <1>1. file[k]["bin"] # Null
    BY DiskAssumption DEF Showing, StoreInv, Retirement, Sealed
  <1>2. s \in shown
    BY DEF Showing, Retired, StoreInv, Retirement
  <1>3. \A t \in shown : t = s
    BY DEF Showing, Retired, StoreInv, Retirement, IInv, DiskTypeOK
  <1>4. Visible(k) = IF file[k]["bin"] = Null THEN Null
                     ELSE IF shown # {} THEN CHOOSE t \in shown : TRUE ELSE "mixed"
    BY DEF Visible
  <1> HIDE DEF shown
  <1>5. (CHOOSE t \in shown : TRUE) \in shown
    BY <1>2
  <1> QED
    BY <1>1, <1>2, <1>3, <1>4, <1>5

\* The same after a step.
LEMMA VisibleIsNext == StoreInv' => VisibleIsShowing'
PROOF
  BY VisibleIs, PTL

\* What a reader finds changes only with the data file of the name.
LEMMA VisibleKept ==
  ASSUME StoreInv, StoreInv', [Next]_vars, NEW k \in Key, file'[k]["bin"] = file[k]["bin"]
  PROVE  Visible(k)' = Visible(k)
PROOF
  <1>1. CASE file[k]["bin"] = Null
    BY <1>1 DEF Visible
  <1>2. CASE file[k]["bin"] # Null
    <2>1. PICK s \in Save : Showing(s, k)
      BY <1>2 DEF StoreInv, Shown
    <2>2. Showing(s, k)'
      BY <2>1, RetiredKept DEF Showing, StoreInv
    <2>3. Visible(k) = s
      BY <2>1, VisibleIs DEF VisibleIsShowing
    <2>4. Visible(k)' = s
      BY <2>2, VisibleIsNext DEF VisibleIsShowing
    <2> QED
      BY <2>3, <2>4
  <1> QED
    BY <1>1, <1>2

-----------------------------------------------------------------------------
\* The mapping of DiskStorage's Promise: uploads that can not become visible any more.
Spent == {s \in completed : pc[s] = "closed" \/ "bin" \notin renames[s]}

Shelf == [k \in Key |-> Visible(k)]

\* A step that leaves the data under the final names alone leaves what readers see.
LEMMA ShelfKept ==
  ASSUME StoreInv, StoreInv', [Next]_vars, \A k \in Key : file'[k]["bin"] = file[k]["bin"]
  PROVE  Shelf' = Shelf
PROOF
  <1>1. \A k \in Key : Visible(k)' = Visible(k)
    BY VisibleKept
  <1> QED
    BY <1>1 DEF Shelf

\* Only a renamed upload, the death of the process and the end of a commit spend one.
LEMMA SpentSteps ==
  ASSUME IInv, [Next]_vars
  PROVE  \/ UNCHANGED <<completed, Spent>>
         \/ \E s \in Save : /\ Complete(s) /\ s \notin completed
                            /\ completed' = completed \cup {s} /\ UNCHANGED Spent
         \/ \E s \in Save : /\ Rename(s, "bin") /\ s \in completed \ Spent
                            /\ Spent' = Spent \cup {s} /\ UNCHANGED completed
         \/ Restart /\ Spent' = completed /\ UNCHANGED completed
PROOF
  <1>a. DiskTypeOK /\ Phases
    BY DEF IInv
  <1>b. \A s \in completed : s \in Save /\ pc[s] \in {"committing", "closed"}
    BY <1>a DEF DiskTypeOK, Phases
  <1>1. ASSUME NEW s \in Save, NEW k \in Key, NEW size \in ChunkSize, Begin(s, k, size)
        PROVE  UNCHANGED <<completed, Spent>>
    BY <1>a, <1>b, <1>1 DEF Begin, Spent, DiskTypeOK
  <1>2. ASSUME NEW s \in Save, WriteMetadata(s)
        PROVE  UNCHANGED <<completed, Spent>>
    BY <1>a, <1>b, <1>2 DEF WriteMetadata, Spent, DiskTypeOK
  <1>3. ASSUME NEW s \in Save, Complete(s)
        PROVE  /\ s \notin completed
               /\ completed' = completed \cup {s} /\ UNCHANGED Spent
    <2>1. s \notin completed
      BY <1>b, <1>3 DEF Complete
    <2>2. /\ pc' = [pc EXCEPT ![s] = "committing"]
          /\ renames' = [renames EXCEPT ![s] = Part]
          /\ completed' = completed \cup {s}
      BY <1>3 DEF Complete
    <2>3. UNCHANGED Spent
      BY <1>a, <1>b, <2>1, <2>2 DEF Spent, DiskTypeOK, Part
    <2> QED
      BY <2>1, <2>2, <2>3
  <1>4. ASSUME NEW s \in Save, Publish(s)
        PROVE  UNCHANGED <<completed, Spent>>
    <2>1. "bin" \notin renames[s] /\ pc' = [pc EXCEPT ![s] = "closed"]
      BY <1>4 DEF Publish, Renamed
    <2>2. UNCHANGED <<completed, renames>>
      BY <1>4 DEF Publish
    <2> QED
      BY <1>a, <1>b, <2>1, <2>2 DEF Spent, DiskTypeOK
  <1>5. ASSUME NEW s \in Save, NEW p \in Part, Rename(s, p)
        PROVE  \/ UNCHANGED <<completed, Spent>>
               \/ /\ Rename(s, "bin") /\ s \in completed \ Spent
                  /\ Spent' = Spent \cup {s} /\ UNCHANGED completed
    <2>1. /\ renames' = [renames EXCEPT ![s] = @ \ {p}] /\ p \in renames[s]
          /\ UNCHANGED <<completed, pc>> /\ pc[s] = "committing" /\ s \in completed
      BY <1>a, <1>5 DEF Rename, Phases
    <2>2. CASE p = "bin"
      BY <1>a, <1>b, <1>5, <2>1, <2>2 DEF Spent, DiskTypeOK
    <2>3. CASE p # "bin"
      BY <1>a, <1>b, <2>1, <2>3 DEF Spent, DiskTypeOK
    <2> QED
      BY <2>2, <2>3
  <1>6. ASSUME Restart
        PROVE  Spent' = completed /\ UNCHANGED completed
    <2>1. UNCHANGED <<completed, renames>> /\ \A s \in completed : pc'[s] = "closed"
      BY <1>b, <1>6 DEF Restart
    <2> QED
      BY <2>1 DEF Spent
  <1>7. CASE UNCHANGED <<pc, completed, renames>>
    BY <1>7 DEF Spent
  <1>8. ASSUME NEW s \in Save,
               \/ \E size \in ChunkSize : Chunk(s, size)
               \/ OpenTmp(s) \/ \E m \in 1..MaxSent : Flush(s, m)
               \/ WriteFails(s) \/ Abort(s)
        PROVE  UNCHANGED <<pc, completed, renames>>
    BY <1>8 DEF Chunk, OpenTmp, Flush, WriteFails, Abort, saveVars
  <1>9. ASSUME NEW k \in Key, NEW p \in Part, Unlink(k, p) \/ GcUnlink(k, p)
        PROVE  UNCHANGED <<pc, completed, renames>>
    BY <1>9 DEF Unlink, GcUnlink, saveVars, faultVars
  <1>10. CASE UNCHANGED uploadView
    BY <1>7, <1>10 DEF uploadView
  <1>11. ASSUME NEW s \in Save, InitFails(s)
         PROVE  UNCHANGED <<completed, Spent>>
    BY <1>a, <1>b, <1>11 DEF InitFails, Spent, DiskTypeOK
  <1> QED
    BY <1>1, <1>2, <1>3, <1>4, <1>5, <1>6, <1>7, <1>8, <1>9, <1>10, <1>11, UploadSteps

\* The data that become visible are those of the upload that renames them.
LEMMA ShelfCommit ==
  ASSUME StoreInv, StoreInv', [Next]_vars, NEW s \in Save, Rename(s, "bin"),
         fileName[s] \in Key,
         \A k \in Key : file'[k]["bin"] = IF k = fileName[s] THEN fd[s] ELSE file[k]["bin"]
  PROVE  Shelf' = [Shelf EXCEPT ![fileName[s]] = s]
PROOF
  <1> DEFINE k == fileName[s]
  <1>1. Showing(s, k)'
    BY DEF Showing, Retired, Rename, StoreInv, IInv, DiskTypeOK, Phases
  <1>2. PICK x \in Key : x = k
    OBVIOUS
  <1>3. Showing(s, x)'
    BY <1>1, <1>2 DEF Showing, Rename
  <1>4. Visible(x)' = s
    BY <1>3, VisibleIsNext DEF VisibleIsShowing
  <1>5. \A y \in Key : y # k => Visible(y)' = Visible(y)
    BY VisibleKept
  <1> QED
    BY <1>2, <1>4, <1>5 DEF Shelf

\* A name whose data are unlinked shows nothing.
LEMMA ShelfRemove ==
  ASSUME StoreInv, StoreInv', [Next]_vars, NEW k \in Key,
         \A x \in Key : file'[x]["bin"] = IF x = k THEN Null ELSE file[x]["bin"]
  PROVE  Shelf' = [Shelf EXCEPT ![k] = Null]
PROOF
  <1>1. Visible(k)' = Null
    BY DEF Visible
  <1>2. \A y \in Key : y # k => Visible(y)' = Visible(y)
    BY VisibleKept
  <1> QED
    BY <1>1, <1>2 DEF Shelf

\* Only the first chunk gives a save its name.
LEMMA NameSteps ==
  ASSUME [Next]_vars
  PROVE  UNCHANGED fileName \/ \E s \in Save, k \in Key, size \in ChunkSize : Begin(s, k, size)
PROOF
  BY UploadSteps DEF uploadView, Chunk, WriteMetadata, OpenTmp, Flush, WriteFails, InitFails,
     Abort, Complete, Publish, Rename, Unlink, GcUnlink, Restart, saveVars

\* A write that fails cuts an upload short that is not complete yet; nothing
\* else does.
LEMMA TornSteps ==
  ASSUME IInv, [Next]_vars
  PROVE  \/ UNCHANGED torn
         \/ \E s \in Save : /\ fileName[s] # Null /\ s \notin completed
                            /\ torn' = torn \cup {s}
                            /\ UNCHANGED <<fileName, completed, pc, renames, file>>
PROOF
  <1>1. ASSUME NEW s \in Save, WriteFails(s)
        PROVE  /\ fileName[s] # Null /\ s \notin completed
               /\ torn' = torn \cup {s}
               /\ UNCHANGED <<fileName, completed, pc, renames, file>>
    BY <1>1, DiskAssumption DEF WriteFails, saveVars, diskVars, IInv, Phases
  <1>2. UNCHANGED torn \/ \E s \in Save : WriteFails(s)
    BY UploadSteps DEF uploadView, Begin, Chunk, WriteMetadata, OpenTmp, Flush, InitFails,
       Abort, Complete, Publish, Rename, Unlink, GcUnlink, Restart, faultVars
  <1> QED
    BY <1>1, <1>2

\* Every step of DiskStorage is a step of the FileStore, or none.
LEMMA StoreStep ==
  ASSUME StoreInv, StoreInv', [Next]_vars
  PROVE  [Promise!Next]_(Promise!vars)
PROOF
  <1>a. IInv /\ DiskTypeOK /\ Phases
    BY DEF StoreInv, IInv
  <1>b. UNCHANGED Promise!vars <=> UNCHANGED <<fileName, completed, torn, Spent, Shelf>>
    BY DEF Promise!vars, Spent, Shelf
  <1>c. \A s, k : Promise!Start(s, k) <=> /\ fileName[s] = Null
                                          /\ fileName' = [fileName EXCEPT ![s] = k]
                                          /\ UNCHANGED <<completed, torn, Spent, Shelf>>
    BY DEF Promise!Start, Spent, Shelf
  <1>d. \A s : Promise!Receive(s) <=> /\ fileName[s] # Null /\ s \notin completed
                                      /\ completed' = completed \cup {s}
                                      /\ UNCHANGED <<fileName, torn, Spent, Shelf>>
    BY DEF Promise!Receive, Spent, Shelf
  <1>e. \A s : Promise!Commit(s) <=> /\ s \in completed \ Spent /\ Spent' = Spent \cup {s}
                                     /\ Shelf' = [Shelf EXCEPT ![fileName[s]] = s]
                                     /\ UNCHANGED <<fileName, completed, torn>>
    BY DEF Promise!Commit, Spent, Shelf
  <1>f. \A lost : Promise!Lose(lost) <=> /\ Spent' = Spent \cup lost
                                         /\ UNCHANGED <<fileName, completed, torn, Shelf>>
    BY DEF Promise!Lose, Spent, Shelf
  <1>g. \A k : Promise!Remove(k) <=> /\ Shelf' = [Shelf EXCEPT ![k] = Null]
                                     /\ UNCHANGED <<fileName, completed, torn, Spent>>
    BY DEF Promise!Remove, Spent, Shelf
  <1>h. \A s : Promise!CutShort(s) <=> /\ fileName[s] # Null /\ s \notin completed
                                       /\ torn' = torn \cup {s}
                                       /\ UNCHANGED <<fileName, completed, Spent, Shelf>>
    BY DEF Promise!CutShort, Spent, Shelf
  <1> DEFINE Same == \A k \in Key : file'[k]["bin"] = file[k]["bin"]
  <1>0. ASSUME NEW s \in Save, fileName[s] # Null, s \notin completed, torn' = torn \cup {s},
               UNCHANGED <<fileName, completed, pc, renames, file>>
        PROVE  Promise!Next
    <2>1. UNCHANGED Spent /\ Same
      BY <1>0 DEF Spent
    <2>2. UNCHANGED Shelf
      BY <2>1, ShelfKept
    <2>3. Promise!CutShort(s)
      BY <1>0, <1>h, <2>1, <2>2
    <2> QED
      BY <2>3 DEF Promise!Next
  <1> SUFFICES ASSUME UNCHANGED torn
               PROVE  [Promise!Next]_(Promise!vars)
    BY <1>a, <1>0, TornSteps
  <1>1. CASE UNCHANGED <<completed, Spent>> /\ Same
    <2>1. UNCHANGED Shelf
      BY <1>1, ShelfKept
    <2>2. ASSUME NEW s \in Save, NEW k \in Key, NEW size \in ChunkSize, Begin(s, k, size)
          PROVE  Promise!Start(s, k)
      BY <1>1, <1>c, <2>1, <2>2 DEF Begin, StoreInv, Unnamed
    <2> QED
      BY <1>1, <1>b, <2>1, <2>2, NameSteps DEF Promise!Next
  <1>2. ASSUME NEW s \in Save, Complete(s), s \notin completed,
               completed' = completed \cup {s}, UNCHANGED Spent
        PROVE  Promise!Receive(s)
    <2>1. UNCHANGED <<fileName, file>> /\ fileName[s] # Null
      BY <1>2, <1>a, DiskAssumption DEF Complete, diskVars, Phases
    <2> QED
      BY <1>2, <1>d, <2>1, ShelfKept
  <1>3. CASE Restart /\ Spent' = completed /\ UNCHANGED completed
    <2>1. UNCHANGED <<fileName, file>> /\ Spent \subseteq completed
      BY <1>3 DEF Restart, diskVars, Spent
    <2>2. PICK lost : lost = completed
      OBVIOUS
    <2>3. Promise!Lose(lost) /\ lost \in SUBSET completed
      BY <1>3, <1>f, <2>1, <2>2, ShelfKept
    <2> QED
      BY <2>3 DEF Promise!Next
  <1>4. ASSUME NEW s \in Save, Rename(s, "bin"), s \in completed \ Spent,
               Spent' = Spent \cup {s}, UNCHANGED completed
        PROVE  Promise!Next
    <2>1. UNCHANGED fileName
      BY <1>4 DEF Rename
    <2>2. CASE Same
      <3>1. Promise!Lose({s})
        BY <1>4, <1>f, <2>1, <2>2, ShelfKept
      <3> QED
        BY <1>4, <3>1 DEF Promise!Next
    <2>3. ASSUME NEW t \in Save, Rename(t, "bin"), fileName[t] \in Key,
                 \A k \in Key : file'[k]["bin"] = IF k = fileName[t] THEN fd[t]
                                                                    ELSE file[k]["bin"]
          PROVE  Promise!Next
      <3>1. t = s
        BY <1>a, <1>4, <2>3 DEF Rename, DiskTypeOK
      <3>2. Promise!Commit(s)
        BY <1>4, <1>e, <2>1, <2>3, <3>1, ShelfCommit
      <3> QED
        BY <3>2 DEF Promise!Next
    <2>4. ASSUME NEW k \in Key, Unlink(k, "bin")
          PROVE  FALSE
      BY <1>a, <1>4, <2>4 DEF Rename, Unlink, saveVars, faultVars, DiskTypeOK
    <2> QED
      BY <1>a, <2>2, <2>3, <2>4, FileSteps
  <1>5. ASSUME NEW k \in Key, Unlink(k, "bin"), UNCHANGED <<completed, Spent>>,
               \A x \in Key : file'[x]["bin"] = IF x = k THEN Null ELSE file[x]["bin"]
        PROVE  Promise!Next
    <2>1. UNCHANGED fileName
      BY <1>5 DEF Unlink, saveVars, faultVars
    <2>2. Promise!Remove(k)
      BY <1>5, <1>g, <2>1, ShelfRemove
    <2> QED
      BY <2>2 DEF Promise!Next
  <1>6. ASSUME NEW s \in Save, Rename(s, "bin")
        PROVE  ~UNCHANGED Spent
    BY <1>a, <1>6 DEF Rename, Spent, DiskTypeOK, Phases
  <1>7. CASE UNCHANGED <<completed, Spent>>
    BY <1>a, <1>1, <1>5, <1>6, <1>7, FileSteps
  <1> QED
    BY <1>a, <1>2, <1>3, <1>4, <1>7, SpentSteps DEF Promise!Next

(* save, commit, removal, garbage collection and restart implement the     *)
(* FileStore: a name shows nothing or one upload, whole unless a write of  *)
(* it failed, which becomes visible in one step, at most once, and is      *)
(* never shown again when it has been replaced or removed, whatever        *)
(* crashes in between.                                                     *)
THEOREM StoreImplemented ==
  ASSUME Overlap = "never"
  PROVE  Spec => Implements
PROOF
  <1>1. Init => Promise!Init
    <2> SUFFICES ASSUME Init PROVE Promise!Init
      OBVIOUS
    <2>1. \A k \in Key : Visible(k) = Null
      BY DEF Init, NoFile, Visible, Part
    <2> QED
      BY <2>1 DEF Init, Promise!Init
  <1>2. StoreInv /\ StoreInv' /\ [Next]_vars => [Promise!Next]_(Promise!vars)
    BY StoreStep
  <1>3. Overlap = "never" /\ StoreInv /\ [Next]_vars => StoreInv'
    BY NextStore
  <1> QED
    BY <1>1, <1>2, <1>3, InitStore, PTL DEF Spec, Implements, Promise!Spec
=============================================================================
