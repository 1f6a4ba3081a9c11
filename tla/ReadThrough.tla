---------------------------- MODULE ReadThrough ----------------------------
(***************************************************************************)
(* The download half of AppService (src/src/app/app.service.ts, getFile)   *)
(* with MemoryStorage (src/src/storages/memory.storage.ts) in front of the *)
(* disk: a download asks for a file's data, then for its chunks; what RAM  *)
(* does not hold is read from the disk, and the first chunk of the read is *)
(* saved in RAM when the read is over.  The disk announces every upload    *)
(* through 'new_item', on which the copy in RAM is deleted.                *)
(*                                                                         *)
(* An upload is here called a version, numbered in the order of the        *)
(* commits.  A commit renames the two files of a name one after the other. *)
(* When the process dies between the two, or one of the renames fails, the *)
(* data of one version lie beside the metadata of another until the name   *)
(* is uploaded again; an empty file is in place, but the index refuses it  *)
(* and nobody hears of it.  A version that is open can be read to its end, *)
(* as FileStore promises.                                                  *)
(***************************************************************************)
EXTENDS Cache

CONSTANTS Download,    \* sessions of one request id each
          NoName,      \* the name of a download that has not begun
          Requested,   \* chunk sizes a client may ask for, any integer
          Minimum,     \* a request up to this is not granted (16 bytes)
          Default,     \* the chunk size then, read_chunk_size
          Length,      \* lengths a file may have
          MaxVersion   \* bound on the uploads

ASSUME ReadAssumption ==
  /\ NoName \notin Key
  /\ Requested \subseteq Int
  /\ Minimum \in Nat
  /\ Default \in Nat \ {0}
  /\ Length \subseteq Nat
  /\ MaxVersion \in Nat

VARIABLES
  latest, length,              \* versions so far and their lengths
  visible,                     \* the version of either file of a name (0: no file)
  committing, renames,         \* version being committed (0: none), renames to come
  indexed, unlinking,          \* the index of the disk, unlinks in flight
  announced,                   \* the version that was announced last (0: none)
  cut,                         \* names whose last commit did not succeed
  ram, copy, memory_size,      \* MemoryStorage: this.files, what its values are of
  getStreams, old,             \* registered downloads, those past their maximum age
  phase, name, info, chunkSize, rfd, sent, head,  \* a download, see TypeOK
  late                         \* downloads that a commit of their name has overlapped,
                               \* or whose name was cut when they began, and those that
                               \* were given a copy made by one

diskVars == <<latest, length, visible, committing, renames, indexed, unlinking, announced,
              cut>>
ramVars == <<ram, copy, memory_size>>
downloadVars == <<phase, name, info, chunkSize, rfd, sent, head>>
vars == <<diskVars, ramVars, getStreams, old, downloadVars, late>>

Part == {"bin", "metadata"}
Version == 0..MaxVersion
NoCopy == [content |-> 0, metadata |-> 0, late |-> FALSE]
NoInfo == [version |-> 0, size |-> 0]

TypeOK ==
  /\ latest \in Version /\ length \in [Version -> Length \cup {0}]
  /\ visible \in [Key -> [Part -> Version]]
  /\ committing \in [Key -> Version] /\ renames \in [Key -> SUBSET Part]
  /\ indexed \subseteq Key /\ unlinking \subseteq Key \X Part
  /\ announced \in [Key -> Version] /\ cut \subseteq Key
  /\ ram \in CacheValue
  /\ copy \in [Key -> [content: Version, metadata: Version, late: BOOLEAN]]
  /\ memory_size \in Int
  /\ getStreams \subseteq Download /\ old \subseteq Download
  /\ phase \in [Download -> {"idle", "load", "describe", "absent", "known", "open", "read",
                             "done", "failed"}]
  /\ name \in [Download -> Key \cup {NoName}]
  /\ info \in [Download -> [version: Version, size: Nat]]  \* file_data it was given
  /\ chunkSize \in [Download -> Nat]
  /\ rfd \in [Download -> Version]                         \* version it reads
  /\ sent \in [Download -> Nat]                            \* bytes it was given
  /\ head \in [Download -> Nat]                            \* bytes in streamToMemory
  /\ late \subseteq Download

Init ==
  /\ latest = 0 /\ length = [v \in Version |-> 0]
  /\ visible = [k \in Key |-> [p \in Part |-> 0]]
  /\ committing = [k \in Key |-> 0] /\ renames = [k \in Key |-> {}]
  /\ indexed = {} /\ unlinking = {} /\ announced = [k \in Key |-> 0] /\ cut = {}
  /\ ram = EmptyCache /\ copy = [k \in Key |-> NoCopy] /\ memory_size = 0
  /\ getStreams = {} /\ old = {}
  /\ phase = [d \in Download |-> "idle"] /\ name = [d \in Download |-> NoName]
  /\ info = [d \in Download |-> NoInfo] /\ chunkSize = [d \in Download |-> 0]
  /\ rfd = [d \in Download |-> 0] /\ sent = [d \in Download |-> 0]
  /\ head = [d \in Download |-> 0]
  /\ late = {}

-----------------------------------------------------------------------------
(* MemoryStorage                                                           *)

\* The 'remove' handler: removeItem for each of the keys that were announced.
RemoveItems(removed) == SumFunctionOnSet(ram.size, removed)

\* delete(k): by 'new_item', or by the timer of k
MemoryDelete(k) ==
  /\ ram' = CacheDelete(ram, k)
  /\ memory_size' = memory_size - RemoveItems(DeleteRemoves(ram, k))

NewForgotten(k, bytes) ==   \* mutant: what is overwritten is taken off, the new is forgotten
  IF k \in Cached(ram) THEN 0 - ram.size[k] ELSE bytes

\* this.memory_size += fullFile.length, stored or not, overwritten or not
Counted(k, bytes) == bytes

(* save() completes: what it was sent, if anything, is set under the name. *)
MemorySave(d) ==
  LET k == name[d]
  IN  IF head[d] = 0
      THEN UNCHANGED ramVars
      ELSE /\ ram' = CacheSet(ram, k, head[d])
           /\ copy' = [copy EXCEPT ![k] = [content |-> rfd[d], metadata |-> info[d].version,
                                           late |-> d \in late]]
           /\ memory_size' = memory_size + Counted(k, head[d])
                               - RemoveItems(SetRemoves(ram, k, head[d]))

RamExpire(k) ==
  /\ k \in ram.timers
  /\ MemoryDelete(k)
  /\ UNCHANGED <<diskVars, copy, getStreams, old, downloadVars, late>>

-----------------------------------------------------------------------------
(* The disk, as AppService sees it: an upload is renamed into place, then  *)
(* enters the index and is announced; a removal leaves the index first.    *)
Active(k) ==
  {d \in Download : name[d] = k /\ phase[d] \in {"load", "describe", "known", "open", "read"}}

\* commitStream begins; the commits of a name follow each other.
Commit(k, n) ==
  /\ latest < MaxVersion
  /\ committing[k] = 0
  /\ latest' = latest + 1
  /\ length' = [length EXCEPT ![latest'] = n]
  /\ committing' = [committing EXCEPT ![k] = latest']
  /\ renames' = [renames EXCEPT ![k] = Part]
  /\ cut' = cut \ {k}
  /\ late' = late \cup Active(k)
  /\ UNCHANGED <<visible, indexed, unlinking, announced, ramVars, getStreams, old,
                 downloadVars>>

(* One of the two renames, which fails when the temporary path is gone.    *)
(* The other one runs all the same, then the commit is over.               *)
Rename(k, p, fails) ==
  /\ p \in renames[k]
  /\ renames' = [renames EXCEPT ![k] = @ \ {p}]
  /\ visible' = IF fails THEN visible ELSE [visible EXCEPT ![k][p] = committing[k]]
  /\ cut' = IF fails THEN cut \cup {k} ELSE cut
  /\ committing' = IF renames'[k] = {} /\ k \in cut' THEN [committing EXCEPT ![k] = 0]
                                                    ELSE committing
  /\ UNCHANGED <<latest, length, indexed, unlinking, announced, ramVars, getStreams, old,
                 downloadVars, late>>

InvalidateNothing(k) == UNCHANGED <<ram, memory_size>>   \* mutant: nobody hears 'new_item'

\* The listener of 'new_item'
Invalidate(k) == MemoryDelete(k)

FirstRename(k) == renames[k] # Part   \* mutant: Promise.race for Promise.all

\* The Promise.all of the renames is fulfilled.
Renamed(k) == renames[k] = {}

Announce(k) ==
  /\ committing[k] # 0
  /\ Renamed(k)
  /\ length[committing[k]] # 0
  /\ indexed' = indexed \cup {k}
  /\ announced' = [announced EXCEPT ![k] = committing[k]]
  /\ committing' = [committing EXCEPT ![k] = 0]
  /\ Invalidate(k)
  /\ UNCHANGED <<latest, length, visible, renames, unlinking, cut, copy, getStreams, old,
                 downloadVars, late>>

\* this.files.set throws: the index takes no empty file.
Refuse(k) ==
  /\ committing[k] # 0
  /\ Renamed(k)
  /\ length[committing[k]] = 0
  /\ committing' = [committing EXCEPT ![k] = 0]
  /\ cut' = cut \cup {k}
  /\ UNCHANGED <<latest, length, visible, renames, indexed, unlinking, announced, ramVars,
                 getStreams, old, downloadVars, late>>

DiskRemove(k) ==
  /\ k \in indexed
  /\ indexed' = indexed \ {k}
  /\ unlinking' = unlinking \cup ({k} \X Part)
  /\ UNCHANGED <<latest, length, visible, committing, renames, announced, cut, ramVars,
                 getStreams, old, downloadVars, late>>

DiskUnlink(k, p) ==
  /\ <<k, p>> \in unlinking
  /\ unlinking' = unlinking \ {<<k, p>>}
  /\ visible' = [visible EXCEPT ![k][p] = 0]
  /\ UNCHANGED <<latest, length, committing, renames, indexed, announced, cut, ramVars,
                 getStreams, old, downloadVars, late>>

\* Both files of k are there, of different versions.
Mixed(k) == /\ \A p \in Part : visible[k][p] # 0
            /\ visible[k]["bin"] # visible[k]["metadata"]

(* The process dies, and the next one has indexed the names it found with  *)
(* both files, the empty and the too large ones excepted.  Downloads end   *)
(* with their calls.                                                       *)
Restart ==
  /\ committing' = [k \in Key |-> 0] /\ renames' = [k \in Key |-> {}] /\ unlinking' = {}
  /\ indexed' \in SUBSET {k \in Key : /\ \A p \in Part : visible[k][p] # 0
                                        /\ length[visible[k]["bin"]] # 0}
  /\ cut' = {k \in Key : Mixed(k)}
  /\ announced' = [k \in Key |-> IF \E p \in Part : visible[k][p] # 0
                                 THEN Max({visible[k][p] : p \in Part}) ELSE announced[k]]
  /\ ram' = EmptyCache /\ copy' = [k \in Key |-> NoCopy] /\ memory_size' = 0
  /\ getStreams' = {} /\ old' = {}
  /\ phase' = [d \in Download |-> IF phase[d] \in {"idle", "absent", "done"}
                                  THEN phase[d] ELSE "failed"]
  /\ info' = [d \in Download |-> IF phase[d] = "done" THEN info[d] ELSE NoInfo]
  /\ rfd' = [d \in Download |-> IF phase[d] = "done" THEN rfd[d] ELSE 0]
  /\ chunkSize' = [d \in Download |-> 0] /\ head' = [d \in Download |-> 0]
  /\ late' = {d \in late : phase[d] = "done"}
  /\ UNCHANGED <<latest, length, visible, name, sent>>

-----------------------------------------------------------------------------
To(d, p) == phase' = [phase EXCEPT ![d] = p]

\* d joins the late ones.
Joins(d, belated) == late' = IF belated THEN late \cup {d} ELSE late

\* A commit of k is under way, or the last one was cut.
Unsettled(k) == committing[k] # 0 \/ k \in cut

(* getFileData: RAM answers at once, the disk after a look at its index.   *)
GetFileData(d, k) ==
  /\ phase[d] = "idle"
  /\ name' = [name EXCEPT ![d] = k]
  /\ IF k \in Cached(ram)
     THEN /\ ram' = CacheGet(ram, k)
          /\ info' = [info EXCEPT ![d] = [version |-> copy[k].metadata,
                                          size |-> ram.size[k]]]
          /\ getStreams' = getStreams \cup {d}
          /\ Joins(d, Unsettled(k) \/ copy[k].late)
          /\ To(d, "known")
     ELSE /\ Joins(d, Unsettled(k))
          /\ To(d, IF k \in indexed THEN "load" ELSE "absent")
          /\ UNCHANGED <<ram, info, getStreams>>
  /\ UNCHANGED <<diskVars, copy, memory_size, old, chunkSize, rfd, sent, head>>

\* diskStorage.load answers with the size of the data, or fails without any,
LoadStat(d) ==
  LET v == visible[name[d]]["bin"]
  IN  /\ phase[d] = "load"
      /\ IF v = 0
         THEN To(d, "failed") /\ UNCHANGED info
         ELSE To(d, "describe") /\ info' = [info EXCEPT ![d].size = length[v]]
      /\ UNCHANGED <<diskVars, ramVars, getStreams, old, name, chunkSize, rfd, sent, head,
                     late>>

\* and with the metadata.
LoadMetadata(d) ==
  LET v == visible[name[d]]["metadata"]
  IN  /\ phase[d] = "describe"
      /\ v # 0
      /\ To(d, "known")
      /\ info' = [info EXCEPT ![d].version = v]
      /\ getStreams' = getStreams \cup {d}
      /\ UNCHANGED <<diskVars, ramVars, old, name, chunkSize, rfd, sent, head, late>>

\* Without metadata readFile rejects, nobody catches it and the process dies.
LoadCrash(d) ==
  /\ phase[d] = "describe"
  /\ visible[name[d]]["metadata"] = 0
  /\ Restart

\* this.getStreams.delete
Unregister(d) == getStreams' = getStreams \ {d} /\ old' = old \ {d}

(* emitFileChunks: the registration, then RAM, then the index of the disk. *)
EmitRefused(d) ==
  /\ phase[d] = "known"
  /\ d \notin getStreams
  /\ To(d, "failed")
  /\ UNCHANGED <<diskVars, ramVars, getStreams, old, name, info, chunkSize, rfd, sent, head,
                 late>>

\* RAM sends all it has without an await, in chunks of any size.
EmitFromRam(d) ==
  LET k == name[d]
  IN  /\ phase[d] = "known"
      /\ d \in getStreams
      /\ k \in Cached(ram)
      /\ ram' = CacheGet(ram, k)
      /\ rfd' = [rfd EXCEPT ![d] = copy[k].content]
      /\ sent' = [sent EXCEPT ![d] = ram.size[k]]
      /\ To(d, "done")
      /\ Unregister(d)
      /\ Joins(d, copy[k].late)
      /\ UNCHANGED <<diskVars, copy, memory_size, name, info, chunkSize, head>>

\* StorageAbstract.getReadChunkSize
ReadChunkSize(requested) == IF requested > Minimum THEN requested ELSE Default

EmitFromDisk(d, requested) ==
  /\ phase[d] = "known"
  /\ d \in getStreams
  /\ name[d] \notin Cached(ram)
  /\ chunkSize' = [chunkSize EXCEPT ![d] = ReadChunkSize(requested)]
  /\ To(d, IF name[d] \in indexed THEN "open" ELSE "failed")
  /\ UNCHANGED <<diskVars, ramVars, getStreams, old, name, info, rfd, sent, head, late>>

Open(d) ==
  /\ phase[d] = "open"
  /\ rfd' = [rfd EXCEPT ![d] = visible[name[d]]["bin"]]
  /\ To(d, IF visible[name[d]]["bin"] = 0 THEN "failed" ELSE "read")
  /\ UNCHANGED <<diskVars, ramVars, getStreams, old, name, info, chunkSize, sent, head, late>>

\* A chunk is sent on; the first one, and no other, also goes to streamToMemory.
ReadChunk(d) ==
  LET bytes == Min({chunkSize[d], length[rfd[d]] - sent[d]})
  IN  /\ phase[d] = "read"
      /\ sent[d] < length[rfd[d]]
      /\ sent' = [sent EXCEPT ![d] = @ + bytes]
      /\ head' = [head EXCEPT ![d] = IF sent[d] = 0 THEN bytes ELSE @]
      /\ UNCHANGED <<diskVars, ramVars, getStreams, old, phase, name, info, chunkSize, rfd, late>>

\* The end of the file: finalize completes streamToMemory.
ReadEnd(d) ==
  /\ phase[d] = "read"
  /\ sent[d] = length[rfd[d]]
  /\ To(d, "done")
  /\ Unregister(d)
  /\ MemorySave(d)
  /\ UNCHANGED <<diskVars, name, info, chunkSize, rfd, sent, head, late>>

TimedFromFirstChunk == {"read"}   \* mutant: the timer starts with the first chunk

\* The phases in which the download timer is running
Timed == {"open", "read"}

(* The download timer fires, or the read stream fails: streamToMemory is   *)
(* completed all the same.  Only the timer deletes the registration.       *)
ReadFails(d, timedOut) ==
  /\ phase[d] \in Timed
  /\ To(d, "failed")
  /\ IF timedOut THEN Unregister(d) ELSE UNCHANGED <<getStreams, old>>
  /\ MemorySave(d)
  /\ UNCHANGED <<diskVars, name, info, chunkSize, rfd, sent, head, late>>

-----------------------------------------------------------------------------
Ages(d) ==
  /\ d \in getStreams
  /\ old' = old \cup {d}
  /\ UNCHANGED <<diskVars, ramVars, getStreams, downloadVars, late>>

KeptAll == getStreams   \* mutant: nothing is deleted

\* What garbageCollection leaves: it deletes the registrations that are younger
\* than download_register_max_time.
Kept == getStreams \cap old

GarbageCollection ==
  /\ getStreams \ old # {}
  /\ getStreams' = Kept
  /\ UNCHANGED <<diskVars, ramVars, old, downloadVars, late>>

-----------------------------------------------------------------------------
\* The second request of a download, for its chunks
EmitFileChunks(d, requested) ==
  EmitRefused(d) \/ EmitFromRam(d) \/ EmitFromDisk(d, requested)

\* What goes on without a client
DiskStep ==
  \E k \in Key :
    \/ \E n \in Length : Commit(k, n)
    \/ \E p \in Part, fails \in BOOLEAN : Rename(k, p, fails)
    \/ Announce(k)
    \/ Refuse(k)
    \/ DiskRemove(k)
    \/ \E p \in Part : DiskUnlink(k, p)
    \/ RamExpire(k)

ServeStep(d) ==
  \/ LoadStat(d) \/ LoadMetadata(d) \/ Open(d) \/ ReadChunk(d) \/ ReadEnd(d)
  \/ \E timedOut \in BOOLEAN : ReadFails(d, timedOut)
  \/ Ages(d)

Next ==
  \/ DiskStep
  \/ \E d \in Download : \/ \E k \in Key : GetFileData(d, k)
                         \/ \E requested \in Requested : EmitFileChunks(d, requested)
                         \/ ServeStep(d)
  \/ GarbageCollection
  \/ Restart

Spec == Init /\ [][Next]_vars

\* The disk answers, timers fire, the interval comes by, what is not caught ends the
\* process; clients owe nothing.
ServiceFairness ==
  /\ WF_vars(GarbageCollection)
  /\ \A k \in Key : WF_vars(RamExpire(k))
  /\ \A d \in Download : /\ WF_vars(LoadStat(d)) /\ WF_vars(LoadMetadata(d))
                         /\ WF_vars(LoadCrash(d)) /\ WF_vars(ReadFails(d, TRUE))

-----------------------------------------------------------------------------
(* The copy in RAM is of the last upload that was announced, content and   *)
(* metadata, unless it was made by a late download, of a name that was     *)
(* being committed or whose commit was cut: 'new_item' deletes every copy  *)
(* that is there, and no other download saves an old one later             *)
(* (AppService.constructor, emitFileChunks).                               *)
FreshUnlessLate ==
  \A k \in Cached(ram) :
    copy[k].content < announced[k] \/ copy[k].metadata < announced[k] => copy[k].late

(* The bytes of a download are of the upload whose metadata it was told in *)
(* its first request, wherever each of the two came from and whatever      *)
(* commits, removals and deaths of the process came before, unless a       *)
(* commit of the name overlapped it or the download whose copy it was      *)
(* given, or the last commit of the name was cut.                          *)
ChunksMatchData ==
  \A d \in Download \ late : phase[d] = "done" => rfd[d] = info[d].version

(* memory_size never falls below what RAM holds, although saves, removals  *)
(* and overwriting update it separately from the cache.                    *)
MemorySizeCovers == Used(ram) <= memory_size

\* Downloads that wait for the disk
Waiting == {d \in Download : phase[d] \in {"load", "describe", "open", "read"}}

(* A download that waits for the disk is ended, by the disk, by its timer  *)
(* or by the death of the process, once the disk has answered its load.    *)
DownloadsEnd == \A d \in Download : d \in Waiting ~> d \notin Waiting

(* The Map of registered downloads does not grow for ever: an entry is     *)
(* deleted, even when the client never asks for its chunks, unless it has  *)
(* grown older than the maximum before the collection first comes by.      *)
StreamsLeave == \A d \in Download : d \in getStreams ~> d \notin getStreams \/ d \in old

-----------------------------------------------------------------------------
(* What the tests of the repository say and the code does not do           *)

(* The e2e test "Should save and download file", second download: a        *)
(* download that completes has delivered the whole file.                   *)
DownloadIsComplete ==
  \A d \in Download : phase[d] = "done" => sent[d] = length[rfd[d]]
=============================================================================
