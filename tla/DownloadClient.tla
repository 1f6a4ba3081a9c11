--------------------------- MODULE DownloadClient ---------------------------
(***************************************************************************)
(* The downloadFile helper (src/src/helpers/downloadFile.ts) as a client   *)
(* of ReadThrough, over a call of AppController.GetFile.  It asks for the  *)
(* data of a file, then, when the file exists, for its chunks, and ends    *)
(* the call when they are complete; at the end of the call it resolves.    *)
(* An error message it only logs: the call stays open.  When the server    *)
(* dies its downloads fail, which stands here for an error message, too:   *)
(* nobody listens to the 'error' event of the broken call.                 *)
(*                                                                         *)
(* The other downloads are of any clients at all, as in ReadThrough.       *)
(***************************************************************************)
EXTENDS ReadThrough

CONSTANTS Helper,       \* the downloads that are calls of downloadFile
          HelperChunk   \* the chunk size it asks for (1024)

ASSUME HelperAssumption == Helper \subseteq Download /\ HelperChunk \in Requested

VARIABLES
  downloadKey,         \* the name a helper was called with
  messages,            \* responses on their way to a helper
  downloadedMessages,  \* responses a helper has received
  closed               \* the call was half-closed and its response subject completed

helperVars == <<downloadKey, messages, downloadedMessages, closed>>
allVars == <<vars, helperVars>>

ClientInit ==
  /\ Init
  /\ downloadKey = [d \in Helper |-> NoName]
  /\ messages = [d \in Helper |-> <<>>]
  /\ downloadedMessages = [d \in Helper |-> <<>>]
  /\ closed = {}

Call(d, k) ==
  /\ downloadKey[d] = NoName
  /\ downloadKey' = [downloadKey EXCEPT ![d] = k]
  /\ UNCHANGED <<vars, messages, downloadedMessages, closed>>

-----------------------------------------------------------------------------
\* What getFile answers.  A chunk is the number of its bytes.
Message(type, bytes) == [type |-> type, bytes |-> bytes]

Ending(p) ==
  CASE p = "known"  -> <<Message("file", 0), Message("completed_data", 0)>>
    [] p = "absent" -> <<Message("no file", 0), Message("completed_data", 0)>>
    [] p = "done"   -> <<Message("completed_chunks", 0)>>
    [] p = "failed" -> <<Message("error", 0)>>
    [] OTHER        -> <<>>

\* The responses to d in a step of the server; none once the subject has completed.
Responses(d) ==
  IF d \in closed THEN <<>>
  ELSE (IF sent'[d] > sent[d] THEN <<Message("chunk", sent'[d] - sent[d])>> ELSE <<>>)
         \o (IF phase'[d] = phase[d] THEN <<>> ELSE Ending(phase'[d]))

Relay ==
  /\ messages' = [d \in Helper |-> messages[d] \o Responses(d)]
  /\ UNCHANGED <<downloadKey, downloadedMessages, closed>>

Deliver(d) ==
  /\ messages[d] # <<>>
  /\ downloadedMessages' =
       [downloadedMessages EXCEPT ![d] = Append(@, Head(messages[d]))]
  /\ messages' = [messages EXCEPT ![d] = Tail(@)]
  /\ UNCHANGED <<vars, downloadKey, closed>>

-----------------------------------------------------------------------------
Received(d, type) == \E i \in DOMAIN downloadedMessages[d] :
                       downloadedMessages[d][i].type = type

\* callDownload.write({chunk: ...})
Asks(d) == Received(d, "completed_data") /\ Received(d, "file")

\* mutant: examples/upload-download.js looks for `exists` in completed_data, where
\* there is none, and takes every file for missing
EndsAtData(d) == Received(d, "completed_data")

EndsAtChunks(d) == Received(d, "completed_chunks")   \* mutant: nothing ends a missing file

\* callDownload.end()
Ends(d) ==
  \/ Received(d, "completed_data") /\ ~Received(d, "file")
  \/ Received(d, "completed_chunks")

\* AppController.GetFile: `next` for either request of a helper, and `complete`
Handle(d) ==
  \/ (\E k \in Key : downloadKey[d] = k /\ GetFileData(d, k)) /\ Relay
  \/ Asks(d) /\ EmitFileChunks(d, HelperChunk) /\ Relay

HalfClose(d) ==
  /\ Ends(d)
  /\ closed' = closed \cup {d}
  /\ UNCHANGED <<vars, downloadKey, messages, downloadedMessages>>

Resolved(d) == d \in closed /\ messages[d] = <<>>

OtherSession(d) ==
  \/ \E k \in Key : GetFileData(d, k)
  \/ \E requested \in Requested : EmitFileChunks(d, requested)

ClientNext ==
  \/ \E d \in Helper : \/ \E k \in Key : Call(d, k)
                       \/ Handle(d) \/ Deliver(d) \/ HalfClose(d)
  \/ (\E d \in Download \ Helper : OtherSession(d)) /\ Relay
  \/ (DiskStep \/ GarbageCollection \/ Restart \/ \E d \in Download : ServeStep(d)) /\ Relay

(* As in ReadThrough; besides, the requests of a helper are handled and    *)
(* the responses arrive.  Nobody has to call it.                           *)
ClientSpec ==
  /\ ClientInit /\ [][ClientNext]_allVars
  /\ ServiceFairness
  /\ \A d \in Helper : WF_allVars(Handle(d)) /\ WF_allVars(Deliver(d))
                       /\ WF_allVars(HalfClose(d))

-----------------------------------------------------------------------------
ToldError(d) == Received(d, "error")

(* Every downloadFile resolves, or is told an error (upon which it never   *)
(* resolves), although the file may be removed or cached meanwhile, one of *)
(* its two files may be missing, the collection may delete its             *)
(* registration between its requests and the server may die.               *)
DownloadResolves == \A d \in Helper : downloadKey[d] # NoName ~> Resolved(d) \/ ToldError(d)

DownloadedBytes(d) ==
  FoldSeq(LAMBDA m, n : m.bytes + n, 0, downloadedMessages[d])

(* A helper that resolves for a file that exists has all bytes that the    *)
(* server sent, from a read that ended well, and of the version it was     *)
(* told of in the first answer unless a commit of the name overlapped the  *)
(* download or the last one was cut.                                       *)
ResolvedHasFile ==
  \A d \in Helper :
    Resolved(d) /\ Received(d, "file")
      => /\ phase[d] = "done" /\ DownloadedBytes(d) = sent[d]
         /\ d \in late \/ rfd[d] = info[d].version
=============================================================================
