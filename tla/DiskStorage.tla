---------------------------- MODULE DiskStorage ----------------------------
(***************************************************************************)
(* DiskStorage (src/src/storages/disk.storage.ts): save, commit, load,     *)
(* loadChunks, removal, garbage collection of temporary files, and the     *)
(* index rebuilt at start-up.  One process, many asynchronous calls: an    *)
(* action is what runs between two awaits, or one file-system operation of *)
(* the libuv pool; the operations of a Promise.all are separate actions.   *)
(*                                                                         *)
(* A file is NAME.bin and NAME.metadata; an upload writes NAME.bin.tmp and *)
(* NAME.metadata.tmp, the same two paths for every upload of that NAME.    *)
(* Data are abstracted to their writer: the bytes of a file are the        *)
(* sequence of the save() calls that wrote them, a metadata file is the    *)
(* call that wrote it, an inode is named after the call that created it.   *)
(***************************************************************************)
EXTENDS Cache

CONSTANTS Save,       \* calls of save()
          Load,       \* calls of load()
          Read,       \* calls of loadChunks()
          Null,       \* no inode, no metadata, a hole in a file
          ChunkSize,  \* sizes a chunk may have
          MaxSent,    \* bound on the bytes one upload sends
          MaxCrash,   \* bound on the number of crashes
          Overlap     \* when the next upload of a name may begin

ASSUME DiskAssumption ==
  /\ Null \notin Save \cup Key
  /\ ChunkSize \subseteq Nat
  /\ MaxSent \in Nat
  /\ MaxCrash \in Nat
  /\ Overlap \in {"never", "answered", "any"}

VARIABLES
  file, tmp, content,             \* the disk: final and temporary paths, inodes
  stale,                          \* names whose .bin.tmp is past its age limit
  index, totalMemorySize,         \* this.files and this.totalMemorySize
  unlinks,                        \* unlink calls in flight, by name and part
  gcListed, gcAwaited, gcUnlinks, \* garbageCollection: names still to be looked at,
                                  \* name it waits for, its unlinks on .tmp paths
  indexed, scan,                  \* start-up: names passed, file being indexed
  pc, fileName, fileSize, sent, written, fd, renames, reply, completed,  \* save()
  lpc, lname, lbin, lmetadata,    \* load()
  rpc, rname, rfd, got,           \* loadChunks()
  crashes, torn, exiting,         \* deaths so far, uploads whose stream failed, and
                                  \* whether such an error is about to end the process
  disturbed                       \* names whose commit was cut short or overtaken

diskVars == <<file, tmp, content, stale>>
indexVars == <<index, totalMemorySize, unlinks>>
gcVars == <<gcListed, gcAwaited, gcUnlinks>>
startVars == <<indexed, scan>>
saveVars == <<pc, fileName, fileSize, sent, written, fd, renames, reply, completed>>
loadVars == <<lpc, lname, lbin, lmetadata>>
readVars == <<rpc, rname, rfd, got>>
faultVars == <<crashes, torn, exiting>>
vars == <<diskVars, indexVars, gcVars, startVars, saveVars, loadVars, readVars,
          faultVars, disturbed>>

Part == {"bin", "metadata"}
Node == Save \cup {Null}
NoScan == [key |-> Null, size |-> 0]

DiskTypeOK ==
  /\ file \in [Key -> [Part -> Node]]
  /\ tmp \in [Key -> [Part -> Node]]
  /\ content \in [Save -> Seq(Node)]
  /\ pc \in [Save -> {"idle", "init", "streaming", "committing", "closed"}]
  /\ fileName \in [Save -> Key \cup {Null}]
  /\ fileSize \in [Save -> Nat]
  /\ sent \in [Save -> Nat]
  /\ written \in [Save -> Nat]
  /\ fd \in [Save -> Node]
  /\ renames \in [Save -> SUBSET Part]
  /\ reply \in [Save -> {"none", "saved", "error", "lost"}]
  /\ completed \subseteq Save
  /\ torn \subseteq Save

TypeOK ==
  /\ DiskTypeOK
  /\ stale \subseteq Key
  /\ index \in CacheValue
  /\ totalMemorySize \in Int
  /\ unlinks \in [Key -> [Part -> Nat]]
  /\ gcListed \subseteq Key /\ gcAwaited \in Key \cup {Null}
  /\ gcUnlinks \subseteq Key \X Part
  /\ indexed \subseteq Key
  /\ scan \in [key: Key \cup {Null}, size: Nat]
  /\ lpc \in [Load -> {"idle", "stat", "metadata", "absent", "found", "error", "lost"}]
  /\ lname \in [Load -> Key \cup {Null}]
  /\ lbin \in [Load -> Node]
  /\ lmetadata \in [Load -> Node]
  /\ rpc \in [Read -> {"idle", "open", "reading", "done", "error", "lost"}]
  /\ rname \in [Read -> Key \cup {Null}]
  /\ rfd \in [Read -> Node]
  /\ got \in [Read -> Seq(Node)]
  /\ crashes \in Nat /\ exiting \in BOOLEAN
  /\ disturbed \subseteq Key

NoFile == [k \in Key |-> [p \in Part |-> Null]]
NoUnlinks == [k \in Key |-> [p \in Part |-> 0]]

\* A first start on an empty directory.
Init ==
  /\ file = NoFile /\ tmp = NoFile
  /\ content = [s \in Save |-> <<>>]
  /\ stale = {}
  /\ index = EmptyCache /\ totalMemorySize = 0
  /\ unlinks = NoUnlinks
  /\ gcListed = {} /\ gcAwaited = Null /\ gcUnlinks = {}
  /\ indexed = Key /\ scan = NoScan
  /\ pc = [s \in Save |-> "idle"]
  /\ fileName = [s \in Save |-> Null]
  /\ fileSize = [s \in Save |-> 0]
  /\ sent = [s \in Save |-> 0] /\ written = [s \in Save |-> 0]
  /\ fd = [s \in Save |-> Null]
  /\ renames = [s \in Save |-> {}]
  /\ reply = [s \in Save |-> "none"]
  /\ completed = {}
  /\ lpc = [l \in Load |-> "idle"] /\ lname = [l \in Load |-> Null]
  /\ lbin = [l \in Load |-> Null] /\ lmetadata = [l \in Load |-> Null]
  /\ rpc = [r \in Read |-> "idle"] /\ rname = [r \in Read |-> Null]
  /\ rfd = [r \in Read |-> Null] /\ got = [r \in Read |-> <<>>]
  /\ crashes = 0 /\ torn = {} /\ exiting = FALSE
  /\ disturbed = {}

-----------------------------------------------------------------------------
(* The 'remove' handler: removeFile subtracts the recorded size and starts *)
(* the two unlinks, with no await in between that another task could use.  *)
RemoveFilesNever(removed) == UNCHANGED unlinks   \* mutant: the event has no listener

RemoveFiles(removed) ==
  unlinks' = [k \in Key |-> IF k \in removed THEN [p \in Part |-> unlinks[k][p] + 1]
                                             ELSE unlinks[k]]

RecordedSize(removed) == SumFunctionOnSet(index.size, removed)

\* this.files.set(k, ...) after `added` bytes were counted
IndexSet(k, size, added) ==
  /\ index' = CacheSet(index, k, size)
  /\ RemoveFiles(SetRemoves(index, k, size))
  /\ totalMemorySize' = totalMemorySize + added - RecordedSize(SetRemoves(index, k, size))

\* this.files.delete(k), by a caller of delete() or by the timer of k
IndexDelete(k) ==
  /\ index' = CacheDelete(index, k)
  /\ RemoveFiles(DeleteRemoves(index, k))
  /\ totalMemorySize' = totalMemorySize - RecordedSize(DeleteRemoves(index, k))

FlushedEarly(s) == TRUE   \* mutant: commit without waiting for stream.end

(* The stream has nothing buffered, or has dropped it after a write that   *)
(* failed: stream.end calls back in both cases, with an error in the       *)
(* second that the callback does not look at, and stream.close closes.     *)
Flushed(s) == written[s] = sent[s] \/ s \in torn

RenamedEarly(s) == TRUE   \* mutant: commitStream is not awaited

\* The Promise.all of commitStream has settled.
Renamed(s) == renames[s] = {}

-----------------------------------------------------------------------------
(* When clients begin an upload.  The storage knows no such rule: it is an *)
(* assumption about them and about their timing, one value of Overlap for  *)
(* each.  "never" is more than a client can see to: an upload is answered  *)
(* with an error while its stream still has bytes to write, or while the   *)
(* other rename of its commit still runs.                                  *)

(* No file-system operation of save s is left to run: closed, or answered  *)
(* with an error once its stream was flushed or its renames had settled.   *)
Quiet(s) ==
  \/ pc[s] \in {"idle", "closed"}
  \/ /\ reply[s] = "error"
     /\ \/ pc[s] = "streaming" /\ fd[s] # Null /\ Flushed(s)
        \/ pc[s] = "committing" /\ Renamed(s)

Busy(s, k) == fileName[s] = k /\ ~Quiet(s)

Unanswered(s, k) == fileName[s] = k /\ reply[s] = "none"

MayBegin(k) ==
  /\ Overlap = "never" => \A t \in Save : ~Busy(t, k)
  /\ Overlap = "answered" => \A t \in Save : ~Unanswered(t, k)

-----------------------------------------------------------------------------
(* save.  The first chunk starts initStream; concatMap holds the following *)
(* ones back until it has finished, so they are received by Chunk.         *)
Begin(s, k, size) ==
  /\ pc[s] = "idle"
  /\ MayBegin(k)
  /\ size <= MaxSent
  /\ pc' = [pc EXCEPT ![s] = "init"]
  /\ fileName' = [fileName EXCEPT ![s] = k]
  /\ fileSize' = [fileSize EXCEPT ![s] = size]
  /\ UNCHANGED <<diskVars, indexVars, gcVars, startVars, sent, written, fd, renames,
                 reply, completed, loadVars, readVars, faultVars, disturbed>>

(* saveMetadata, then createWriteStream and the return of the first chunk, *)
(* whose length counts twice: as the initial fileSize and in `next`.  When *)
(* the upload has been aborted meanwhile, the stream is created all the    *)
(* same and the chunk has nobody to go to.                                 *)
WriteMetadata(s) ==
  /\ pc[s] = "init"
  /\ pc' = [pc EXCEPT ![s] = "streaming"]
  /\ tmp' = [tmp EXCEPT ![fileName[s]]["metadata"] = s]
  /\ IF reply[s] = "none"
     THEN /\ sent' = [sent EXCEPT ![s] = fileSize[s]]
          /\ fileSize' = [fileSize EXCEPT ![s] = @ + @]
          /\ totalMemorySize' = totalMemorySize + fileSize[s]
     ELSE UNCHANGED <<sent, fileSize, totalMemorySize>>
  /\ UNCHANGED <<file, content, stale, index, unlinks, gcVars, startVars, fileName,
                 written, fd, renames, reply, completed, loadVars, readVars, faultVars,
                 disturbed>>

\* The temporary path is opened with O_CREAT: an inode left there is reused,
Inode(s, k) == IF tmp[k]["bin"] = Null THEN s ELSE tmp[k]["bin"]

\* and with O_TRUNC: it is emptied.
OpenTmp(s) ==
  LET k == fileName[s]
      n == Inode(s, k)
  IN  /\ pc[s] = "streaming"
      /\ fd[s] = Null
      /\ fd' = [fd EXCEPT ![s] = n]
      /\ tmp' = [tmp EXCEPT ![k]["bin"] = n]
      /\ content' = [content EXCEPT ![n] = <<>>]
      /\ stale' = stale \ {k}
      /\ UNCHANGED <<file, indexVars, gcVars, startVars, pc, fileName, fileSize, sent,
                     written, renames, reply, completed, loadVars, readVars, faultVars,
                     disturbed>>

\* `next` for a further chunk
Chunk(s, size) ==
  /\ pc[s] = "streaming"
  /\ reply[s] = "none"
  /\ sent[s] + size <= MaxSent
  /\ sent' = [sent EXCEPT ![s] = @ + size]
  /\ fileSize' = [fileSize EXCEPT ![s] = @ + size]
  /\ totalMemorySize' = totalMemorySize + size
  /\ UNCHANGED <<diskVars, index, unlinks, gcVars, startVars, pc, fileName, written,
                 fd, renames, reply, completed, loadVars, readVars, faultVars, disturbed>>

\* n bytes of s written at offset `from` of an inode that holds `old`
Overwrite(old, from, n, s) ==
  [i \in 1..Max({Len(old), from + n}) |->
     IF i \in from + 1..from + n THEN s ELSE IF i <= Len(old) THEN old[i] ELSE Null]

(* The stream writes some of what it has buffered, up to byte n, at the    *)
(* position of its own descriptor.  subject.error does not stop it:        *)
(* close() flushes.                                                        *)
Flush(s, n) ==
  /\ pc[s] = "streaming"
  /\ fd[s] # Null /\ s \notin torn
  /\ n \in written[s] + 1..sent[s]
  /\ content' = [content EXCEPT ![fd[s]] = Overwrite(@, written[s], n - written[s], s)]
  /\ written' = [written EXCEPT ![s] = n]
  /\ UNCHANGED <<file, tmp, stale, indexVars, gcVars, startVars, pc, fileName, fileSize,
                 sent, fd, renames, reply, completed, loadVars, readVars, faultVars,
                 disturbed>>

(* A write fails (the disk is full).  The stream drops what it has         *)
(* buffered and closes; it has no 'error' listener, so the event that      *)
(* follows its close ends the process.  What is submitted until then is    *)
(* done: the callback of stream.end commits what has been written.         *)
WriteFails(s) ==
  /\ crashes < MaxCrash
  /\ pc[s] = "streaming"
  /\ fd[s] # Null /\ s \notin torn
  /\ written[s] < sent[s]
  /\ torn' = torn \cup {s}
  /\ exiting' = TRUE
  /\ UNCHANGED <<diskVars, indexVars, gcVars, startVars, saveVars, loadVars, readVars,
                 crashes, disturbed>>

(* initStream fails: fileDir or writeFile rejects, possibly after the file *)
(* of the metadata was created.  The chunks end in an error, no stream is  *)
(* created and none has to be closed.                                      *)
InitFails(s) ==
  /\ pc[s] = "init"
  /\ pc' = [pc EXCEPT ![s] = "closed"]
  /\ reply' = [reply EXCEPT ![s] = "error"]
  /\ tmp' \in {tmp, [tmp EXCEPT ![fileName[s]]["metadata"] = s]}
  /\ UNCHANGED <<file, content, stale, indexVars, gcVars, startVars, fileName, fileSize,
                 sent, written, fd, renames, completed, loadVars, readVars, faultVars,
                 disturbed>>

\* The chunks end in an error (the upload timer): subject.error, closeStream.
Abort(s) ==
  /\ pc[s] \in {"init", "streaming"}
  /\ reply[s] = "none"
  /\ reply' = [reply EXCEPT ![s] = "error"]
  /\ UNCHANGED <<diskVars, indexVars, gcVars, startVars, pc, fileName, fileSize, sent,
                 written, fd, renames, completed, loadVars, readVars, faultVars, disturbed>>

\* The chunks are complete and stream.end has called back: commitStream begins.
Complete(s) ==
  /\ pc[s] = "streaming"
  /\ reply[s] = "none"
  /\ fd[s] # Null
  /\ Flushed(s)
  /\ pc' = [pc EXCEPT ![s] = "committing"]
  /\ renames' = [renames EXCEPT ![s] = Part]
  /\ completed' = completed \cup {s}
  /\ UNCHANGED <<diskVars, indexVars, gcVars, startVars, fileName, fileSize, sent,
                 written, fd, reply, loadVars, readVars, faultVars, disturbed>>

(* One of the two renames.  It fails when the temporary path is gone; the  *)
(* first failure rejects the Promise.all, the other rename still runs.     *)
Rename(s, p) ==
  LET k == fileName[s]
  IN  /\ pc[s] = "committing"
      /\ p \in renames[s]
      /\ renames' = [renames EXCEPT ![s] = @ \ {p}]
      /\ IF tmp[k][p] = Null
         THEN /\ reply' = [reply EXCEPT ![s] = "error"]
              /\ UNCHANGED <<file, tmp, stale>>
         ELSE /\ file' = [file EXCEPT ![k][p] = tmp[k][p]]
              /\ tmp' = [tmp EXCEPT ![k][p] = Null]
              /\ stale' = IF p = "bin" THEN stale \ {k} ELSE stale
              /\ UNCHANGED reply
      /\ disturbed' = IF tmp[k][p] = Null \/ scan.key = k THEN disturbed \cup {k}
                                                          ELSE disturbed
      /\ UNCHANGED <<content, indexVars, gcVars, startVars, pc, fileName, fileSize,
                     sent, written, fd, completed, loadVars, readVars, faultVars>>

\* mutant: the exception of this.files.set is not caught
OutcomeUncaught(s) == IF SetThrows(fileSize[s]) THEN "none" ELSE "saved"

Outcome(s) == IF SetThrows(fileSize[s]) THEN "error" ELSE "saved"

(* Both renames succeeded: the index is updated, 'new_item' emitted and    *)
(* the subject completed, unless this.files.set throws.                    *)
Publish(s) ==
  LET k == fileName[s]
  IN  /\ pc[s] = "committing"
      /\ Renamed(s)
      /\ reply[s] = "none"
      /\ pc' = [pc EXCEPT ![s] = "closed"]
      /\ IndexSet(k, fileSize[s], 0)
      /\ reply' = [reply EXCEPT ![s] = Outcome(s)]
      /\ disturbed' = IF \/ SetThrows(fileSize[s])
                         \/ scan.key = k
                         \/ \E p \in Part : unlinks[k][p] > 0 \/ file[k][p] = Null
                      THEN disturbed ELSE disturbed \ {k}
      /\ UNCHANGED <<diskVars, gcVars, startVars, fileName, fileSize, sent, written, fd,
                     renames, completed, loadVars, readVars, faultVars>>

-----------------------------------------------------------------------------
(* The timer of an entry fires, or delete() is called for it.              *)
Expire(k) ==
  /\ k \in index.timers
  /\ IndexDelete(k)
  /\ UNCHANGED <<diskVars, gcVars, startVars, saveVars, loadVars, readVars, faultVars,
                 disturbed>>

Delete(k) ==
  /\ k \in Cached(index)
  /\ IndexDelete(k)
  /\ UNCHANGED <<diskVars, gcVars, startVars, saveVars, loadVars, readVars, faultVars,
                 disturbed>>

(* An unlink of removeFile runs; a path that is gone is only logged.  It   *)
(* overtakes a commit when the file it takes away is already the next one, *)
(* and start-up when the file has just been found there.                   *)
Unlink(k, p) ==
  /\ unlinks[k][p] > 0
  /\ unlinks' = [unlinks EXCEPT ![k][p] = @ - 1]
  /\ file' = [file EXCEPT ![k][p] = Null]
  /\ disturbed' = IF \/ k \in Cached(index)
                     \/ scan.key = k
                     \/ \E s \in Save : /\ fileName[s] = k /\ pc[s] = "committing"
                                        /\ p \notin renames[s]
                  THEN disturbed \cup {k} ELSE disturbed
  /\ UNCHANGED <<tmp, content, stale, index, totalMemorySize, gcVars, startVars,
                 saveVars, loadVars, readVars, faultVars>>

-----------------------------------------------------------------------------
(* garbageCollection.  A .bin.tmp reaches its age limit only when nobody   *)
(* is uploading: the upload timer (60 s) is shorter than the limit (120 s) *)
(* and every open or write renews the mtime.                               *)
TmpExpires(k) ==
  /\ tmp[k]["bin"] # Null
  /\ \A s \in Save : ~Busy(s, k)
  /\ stale' = stale \cup {k}
  /\ UNCHANGED <<file, tmp, content, indexVars, gcVars, startVars, saveVars, loadVars,
                 readVars, faultVars, disturbed>>

\* mutant: only a complete pair of temporary files is collected
CollectablePair(k) == k \in stale /\ \A p \in Part : tmp[k][p] # Null

Collectable(k) == k \in stale /\ tmp[k]["bin"] # Null

(* An interval starts the traversal, which looks at the files one after    *)
(* the other: a round is modelled when there is something for it to find.  *)
GcList ==
  /\ gcListed = {} /\ gcAwaited = Null
  /\ stale # {}
  /\ gcListed' = {k \in Key : tmp[k]["bin"] # Null}
  /\ UNCHANGED <<diskVars, indexVars, gcAwaited, gcUnlinks, startVars, saveVars, loadVars,
                 readVars, faultVars, disturbed>>

(* The stat of one file: when it has been renamed or unlinked since it was *)
(* listed, the whole traversal is given up; when it is too old both        *)
(* unlinks start.                                                          *)
GcStat(k) ==
  /\ k \in gcListed /\ gcAwaited = Null
  /\ gcListed' = IF tmp[k]["bin"] = Null THEN {} ELSE gcListed \ {k}
  /\ IF Collectable(k) THEN gcAwaited' = k /\ gcUnlinks' = gcUnlinks \cup ({k} \X Part)
                       ELSE UNCHANGED <<gcAwaited, gcUnlinks>>
  /\ UNCHANGED <<diskVars, indexVars, startVars, saveVars, loadVars, readVars, faultVars,
                 disturbed>>

\* The Promise.all is over when both unlinks are, or when one has failed.
GcUnlink(k, p) ==
  /\ <<k, p>> \in gcUnlinks
  /\ gcUnlinks' = gcUnlinks \ {<<k, p>>}
  /\ gcAwaited' = IF tmp[k][p] = Null \/ \A q \in Part : <<k, q>> \notin gcUnlinks'
                  THEN Null ELSE gcAwaited
  /\ tmp' = [tmp EXCEPT ![k][p] = Null]
  /\ stale' = IF p = "bin" THEN stale \ {k} ELSE stale
  /\ UNCHANGED <<file, content, indexVars, gcListed, startVars, saveVars, loadVars,
                 readVars, faultVars, disturbed>>

-----------------------------------------------------------------------------
\* mutant: an index entry keeps the temporary paths of its upload
LocatedTmp(k, p) == IF tmp[k][p] = Null THEN file[k][p] ELSE tmp[k][p]

\* The file an index entry leads to (filePaths, without '.tmp').
Located(k, p) == file[k][p]

(* load: the index, then stat of the data, then read of the metadata.      *)
LoadStart(l, k) ==
  /\ lpc[l] = "idle"
  /\ lname' = [lname EXCEPT ![l] = k]
  /\ lpc' = [lpc EXCEPT ![l] = IF k \in Cached(index) THEN "stat" ELSE "absent"]
  /\ index' = CacheGet(index, k)
  /\ UNCHANGED <<diskVars, totalMemorySize, unlinks, gcVars, startVars, saveVars, lbin,
                 lmetadata, readVars, faultVars, disturbed>>

LoadStat(l) ==
  /\ lpc[l] = "stat"
  /\ lpc' = [lpc EXCEPT ![l] = IF Located(lname[l], "bin") = Null THEN "error" ELSE "metadata"]
  /\ lbin' = [lbin EXCEPT ![l] = Located(lname[l], "bin")]
  /\ UNCHANGED <<diskVars, indexVars, gcVars, startVars, saveVars, lname, lmetadata,
                 readVars, faultVars, disturbed>>

LoadMetadata(l) ==
  /\ lpc[l] = "metadata"
  /\ Located(lname[l], "metadata") # Null
  /\ lpc' = [lpc EXCEPT ![l] = "found"]
  /\ lmetadata' = [lmetadata EXCEPT ![l] = Located(lname[l], "metadata")]
  /\ UNCHANGED <<diskVars, indexVars, gcVars, startVars, saveVars, lname, lbin,
                 readVars, faultVars, disturbed>>

(* loadChunks: the index, then a read stream on the data, byte by byte.    *)
ReadStart(r, k) ==
  /\ rpc[r] = "idle"
  /\ rname' = [rname EXCEPT ![r] = k]
  /\ rpc' = [rpc EXCEPT ![r] = IF k \in Cached(index) THEN "open" ELSE "error"]
  /\ index' = CacheGet(index, k)
  /\ UNCHANGED <<diskVars, totalMemorySize, unlinks, gcVars, startVars, saveVars,
                 loadVars, rfd, got, faultVars, disturbed>>

ReadOpen(r) ==
  /\ rpc[r] = "open"
  /\ rfd' = [rfd EXCEPT ![r] = Located(rname[r], "bin")]
  /\ rpc' = [rpc EXCEPT ![r] = IF Located(rname[r], "bin") = Null THEN "error" ELSE "reading"]
  /\ UNCHANGED <<diskVars, indexVars, gcVars, startVars, saveVars, loadVars, rname, got,
                 faultVars, disturbed>>

ReadChunk(r) ==
  /\ rpc[r] = "reading"
  /\ IF Len(got[r]) < Len(content[rfd[r]])
     THEN /\ got' = [got EXCEPT ![r] = Append(@, content[rfd[r]][Len(@) + 1])]
          /\ UNCHANGED rpc
     ELSE /\ rpc' = [rpc EXCEPT ![r] = "done"]
          /\ UNCHANGED got
  /\ UNCHANGED <<diskVars, indexVars, gcVars, startVars, saveVars, loadVars, rname, rfd,
                 faultVars, disturbed>>

-----------------------------------------------------------------------------
(* The process dies and is started again: the disk stays, everything else  *)
(* is gone, indexHddFiles begins.                                          *)
Restart ==
  /\ crashes < MaxCrash
  /\ crashes' = crashes + 1
  /\ exiting' = FALSE
  /\ index' = EmptyCache /\ totalMemorySize' = 0
  /\ unlinks' = NoUnlinks
  /\ gcListed' = {} /\ gcAwaited' = Null /\ gcUnlinks' = {}
  /\ indexed' = {} /\ scan' = NoScan
  /\ disturbed' = disturbed
       \cup {k \in Key : \/ \E s \in Save : fileName[s] = k /\ pc[s] = "committing"
                         \/ \E p \in Part : unlinks[k][p] > 0}
  /\ reply' = [s \in Save |-> IF pc[s] # "idle" /\ reply[s] = "none" THEN "lost"
                                                                     ELSE reply[s]]
  /\ pc' = [s \in Save |-> IF pc[s] = "idle" THEN "idle" ELSE "closed"]
  /\ lpc' = [l \in Load |-> IF lpc[l] \in {"stat", "metadata"} THEN "lost" ELSE lpc[l]]
  /\ rpc' = [r \in Read |-> IF rpc[r] \in {"open", "reading"} THEN "lost" ELSE rpc[r]]
  /\ UNCHANGED <<diskVars, fileName, fileSize, sent, written, fd, renames, completed,
                 lname, lbin, lmetadata, rname, rfd, got, torn>>

Crash == Restart

\* readFile of the metadata rejects and nothing handles it: the process exits.
LoadCrash(l) ==
  /\ lpc[l] = "metadata"
  /\ Located(lname[l], "metadata") = Null
  /\ Restart

\* The stream cannot be opened: its 'error' comes before a commit is submitted.
OpenFails(s) ==
  /\ pc[s] = "streaming"
  /\ fd[s] = Null
  /\ Restart

\* The 'error' of a stream whose write has failed is uncaught.
Exit == exiting /\ Restart

(* indexHddFiles on one name, while requests are already served.  A name   *)
(* without .metadata is not listed, one without .bin fails in stat; both   *)
(* are passed over.                                                        *)
IndexStat(k) ==
  /\ scan = NoScan
  /\ k \notin indexed
  /\ IF \E p \in Part : file[k][p] = Null
     THEN indexed' = indexed \cup {k} /\ UNCHANGED scan
     ELSE /\ scan' = [key |-> k, size |-> Len(content[file[k]["bin"]])]
          /\ UNCHANGED indexed
  /\ UNCHANGED <<diskVars, indexVars, gcVars, saveVars, loadVars, readVars, faultVars,
                 disturbed>>

IndexFile ==
  /\ scan # NoScan
  /\ IndexSet(scan.key, scan.size, scan.size)
  /\ indexed' = indexed \cup {scan.key}
  /\ scan' = NoScan
  /\ UNCHANGED <<diskVars, gcVars, saveVars, loadVars, readVars, faultVars, disturbed>>

-----------------------------------------------------------------------------
\* The file-system calls of a save, and what follows the last of them
FileStep(s) ==
  \/ WriteMetadata(s) \/ OpenTmp(s)
  \/ \E n \in 1..MaxSent : Flush(s, n)
  \/ \E p \in Part : Rename(s, p)
  \/ Publish(s)

Removal(k) == \E p \in Part : Unlink(k, p)

\* What a client may ask for at any time
Requests ==
  \/ \E s \in Save, k \in Key, size \in ChunkSize : Begin(s, k, size)
  \/ \E l \in Load, k \in Key : LoadStart(l, k)
  \/ \E r \in Read, k \in Key : ReadStart(r, k)

\* What becomes of it, and what the timers and the interval do
Work ==
  \/ \E s \in Save : \/ \E size \in ChunkSize : Chunk(s, size)
                     \/ FileStep(s) \/ Complete(s) \/ Abort(s)
                     \/ WriteFails(s) \/ InitFails(s)
  \/ \E k \in Key : \/ Expire(k) \/ Delete(k) \/ Removal(k)
                    \/ TmpExpires(k) \/ GcStat(k)
                    \/ \E p \in Part : GcUnlink(k, p)
  \/ GcList
  \/ \E l \in Load : LoadStat(l) \/ LoadMetadata(l)
  \/ \E r \in Read : ReadOpen(r) \/ ReadChunk(r)

Indexing == IndexFile \/ \E k \in Key : IndexStat(k)

Death ==
  \/ Crash \/ Exit
  \/ \E l \in Load : LoadCrash(l)
  \/ \E s \in Save : OpenFails(s)

Next == Requests \/ Work \/ Indexing \/ Death

Spec == Init /\ [][Next]_vars

(* What runs on its own: file-system calls return, timers fire, the        *)
(* garbage collection is repeated by an interval and the index is built.   *)
(* Nothing obliges a client to send a chunk or to complete.                *)
WorkFairness ==
  /\ \A s \in Save : WF_vars(FileStep(s)) /\ WF_vars(Abort(s))
  /\ \A k \in Key : /\ WF_vars(Expire(k)) /\ WF_vars(Removal(k))
                    /\ WF_vars(TmpExpires(k)) /\ WF_vars(GcStat(k))
                    /\ \A p \in Part : WF_vars(GcUnlink(k, p))
  /\ WF_vars(GcList)

IndexFairness == WF_vars(IndexFile) /\ \A k \in Key : WF_vars(IndexStat(k))

FairSpec == Spec /\ WorkFairness /\ IndexFairness /\ WF_vars(Exit)

-----------------------------------------------------------------------------
\* `bytes` are the whole upload s, or all that could be written of it.
Whole(s, bytes) ==
  /\ bytes = [i \in 1..written[s] |-> s]
  /\ written[s] = sent[s] \/ s \in torn

(* What is visible under a final name is one whole upload of that name,    *)
(* never a part of one nor bytes of two, although all uploads of a name    *)
(* share a temporary path and inodes left by aborted ones are written      *)
(* again (commitStream renames after stream.end).  The one file that is    *)
(* cut short is that of an upload whose write failed: it ends where the    *)
(* write did.                                                              *)
WholeFiles ==
  \A k \in Key :
    file[k]["bin"] # Null
      => \E s \in completed : /\ fileName[s] = k
                              /\ fd[s] = file[k]["bin"]
                              /\ Whole(s, content[fd[s]])

(* A download that ends normally has delivered one whole upload of the     *)
(* name it asked for, even when the file was replaced, expired or evicted  *)
(* while it was being read (loadChunks reads an open inode).               *)
ReadsWhole ==
  \A r \in Read :
    rpc[r] = "done" => \E s \in completed : fileName[s] = rname[r] /\ Whole(s, got[r])

(* What load answers is committed: the size is that of a whole upload of   *)
(* the name and the metadata were sent with one, never those of an upload  *)
(* that is still running or has failed.                                    *)
LoadsCommitted ==
  \A l \in Load :
    lpc[l] = "found"
      => /\ lmetadata[l] \in completed /\ fileName[lmetadata[l]] = lname[l]
         /\ \E s \in completed : /\ fileName[s] = lname[l] /\ fd[s] = lbin[l]
                                 /\ Whole(s, content[lbin[l]])

\* The upload that a reader of k finds, if it is a whole one.
Visible(k) ==
  LET shown == {s \in completed : /\ fileName[s] = k
                                  /\ "bin" \notin renames[s]
                                  /\ fd[s] = file[k]["bin"]
                                  /\ Whole(s, content[fd[s]])}
  IN  IF file[k]["bin"] = Null THEN Null
      ELSE IF shown # {} THEN CHOOSE s \in shown : TRUE ELSE "mixed"

Promise == INSTANCE FileStore WITH
  name     <- fileName,
  received <- completed,
  cut      <- torn,
  spent    <- {s \in completed : pc[s] = "closed" \/ "bin" \notin renames[s]},
  visible  <- [k \in Key |-> Visible(k)]

(* save, commit, removal, garbage collection and restart implement the     *)
(* FileStore: the rename of the data is the one step that makes an upload  *)
(* visible.                                                                *)
Implements == Promise!Spec

(* When save() reports success, no reader can find an older version: each  *)
(* of the two files is this upload's, unless a removal has taken it away.  *)
SavedIsVisible ==
  [][\A s \in Save :
       reply[s] # "saved" /\ reply'[s] = "saved"
         => /\ file'[fileName[s]]["bin"] \in {fd[s], Null}
            /\ file'[fileName[s]]["metadata"] \in {s, Null}]_vars

Settled(k) ==
  /\ k \notin disturbed
  /\ \A p \in Part : unlinks[k][p] = 0
  /\ \A s \in Save : ~(fileName[s] = k /\ pc[s] = "committing" /\ ~Quiet(s))

DiskSize(k) == IF file[k]["bin"] = Null THEN 0 ELSE Len(content[file[k]["bin"]])

(* The index tells the truth about a settled name: the data and the        *)
(* metadata of an entry are there, come from the same upload, and take no  *)
(* more bytes than the entry counts for.                                   *)
IndexedIsOnDisk ==
  \A k \in Cached(index) :
    Settled(k)
      => \E s \in completed : /\ fileName[s] = k
                              /\ file[k] = [bin |-> fd[s], metadata |-> s]
                              /\ DiskSize(k) <= index.size[k]

\* k is in the index, or not on the disk, or was refused by the index for its size.
KnownOrRefused(k) ==
  Settled(k) /\ file[k]["bin"] # Null /\ k \notin Cached(index)
    => \E s \in completed : /\ fileName[s] = k /\ fd[s] = file[k]["bin"]
                            /\ \/ SetThrows(DiskSize(k))
                               \/ TooLarge(fileSize[s])

(* No file is forgotten: what lies on the disk under a settled name is in  *)
(* the index once start-up has passed it, unless the index refused it for  *)
(* its size (this.files.set rejects 0 and drops what can never fit).       *)
OnDiskIsIndexed == \A k \in indexed : KnownOrRefused(k)

(* The settled files of the index fit in maxMemory together, measured in   *)
(* the bytes they really take, across replacement, eviction and restart.   *)
IndexedFilesFit ==
  MapThenSumSet(DiskSize, {k \in Cached(index) : Settled(k)}) <= MaxMemory

(* Every upload is answered: with a result, an error, or by the death of   *)
(* the process that was handling it.                                       *)
UploadsAnswered == \A s \in Save : pc[s] # "idle" ~> reply[s] # "none"

(* Temporary data do not pile up: a .bin.tmp that aborts, crashes or       *)
(* failed renames leave behind is collected.                               *)
TmpDataCollected ==
  \A k \in Key : tmp[k]["bin"] # Null ~> tmp[k]["bin"] = Null

(* A file of the index does not stay on the disk for ever: unless the      *)
(* process dies first (and another one starts, which has indexed nothing), *)
(* its timer fires and it is unlinked, even when a new version arrives     *)
(* meanwhile.                                                              *)
IndexedLeavesDisk ==
  \A k \in Key : k \in Cached(index) ~> file[k]["bin"] = Null \/ indexed = {}

-----------------------------------------------------------------------------
(* What the documents of the repository say of this component and the code *)
(* does not do.                                                            *)

(* "Auto remove old files": no file stays on the disk for ever.            *)
OldFilesRemoved ==
  \A k \in Key : file[k]["bin"] # Null ~> file[k]["bin"] = Null
=============================================================================
