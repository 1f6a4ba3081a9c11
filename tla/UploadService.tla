--------------------------- MODULE UploadService ---------------------------
(***************************************************************************)
(* The upload half of AppService (src/src/app/app.service.ts) and of       *)
(* AppController: registered uploads, their timers, the collection of      *)
(* registrations, and the answers, above a storage whose save() is seen    *)
(* from outside (DiskStorage models it from inside).                       *)
(*                                                                         *)
(* A session is one client that registers an upload under a request id and *)
(* then sends chunks and a completion under that id, over one call.  The   *)
(* i-th chunk of session u is <<u, i>>.  Handlers run to their end without *)
(* an await, so each is one action; what happens in between is the save    *)
(* that works, the timer that fires and the interval that comes by.        *)
(***************************************************************************)
EXTENDS Naturals, SequencesExt

CONSTANTS Upload,    \* sessions
          Id,        \* request ids
          Null,
          MaxChunk   \* bound on the chunks of a session

ASSUME UploadAssumption == Null \notin Upload \cup Id /\ MaxChunk \in Nat

VARIABLES
  id, sent, asked, closed,   \* the sessions: request id, chunks and completion sent,
                             \* call half-closed
  uploadStreams,             \* the Map, from request ids to registrations
  subject,                   \* "none", "open", "completed" or "unsubscribed"
  piped,                     \* the pipe from subject to save() and its timer are alive
  old,                       \* registered longer ago than upload_register_max_time
  save, input, acked,        \* save(): its phase, what reached it, successes it emitted
  answers,                   \* what the save and the timer of an upload answered
  unknown,                   \* sessions that were told to register first
  collected                  \* uploads that garbageCollection completed

clientVars == <<id, sent, asked, closed>>
vars == <<clientVars, uploadStreams, subject, piped, old, save, input, acked, answers,
          unknown, collected>>

Settled == {"saved", "failed"}

TypeOK ==
  /\ id \in [Upload -> Id \cup {Null}]
  /\ sent \in [Upload -> 0..MaxChunk]
  /\ asked \subseteq Upload /\ closed \subseteq Upload
  /\ uploadStreams \in [Id -> Upload \cup {Null}]
  /\ subject \in [Upload -> {"none", "open", "completed", "unsubscribed"}]
  /\ piped \subseteq Upload /\ old \subseteq Upload
  /\ save \in [Upload -> {"empty", "init", "open", "ending"} \cup Settled]
  /\ input \in [Upload -> Seq(Upload \X (1..MaxChunk))]
  /\ acked \in [Upload -> Nat]
  /\ answers \in [Upload -> Seq({"saved", "ABORTED", "INTERNAL"})]
  /\ unknown \subseteq Upload /\ collected \subseteq Upload

Init ==
  /\ id = [u \in Upload |-> Null] /\ sent = [u \in Upload |-> 0]
  /\ asked = {} /\ closed = {}
  /\ uploadStreams = [i \in Id |-> Null]
  /\ subject = [u \in Upload |-> "none"]
  /\ piped = {} /\ old = {}
  /\ save = [u \in Upload |-> "empty"]
  /\ input = [u \in Upload |-> <<>>] /\ acked = [u \in Upload |-> 0]
  /\ answers = [u \in Upload |-> <<>>]
  /\ unknown = {} /\ collected = {}

\* response.next: dropped once AppController has completed the response subject.
Answered(u, codes) == IF u \in closed THEN answers[u] ELSE answers[u] \o codes

Answer(u, codes) == answers' = [answers EXCEPT ![u] = Answered(u, codes)]

-----------------------------------------------------------------------------
MappedBySession(u, i) == (u :> u) @@ uploadStreams   \* mutant: not under the request id

\* this.uploadStreams.set(request_id, ...)
Mapped(u, i) == [uploadStreams EXCEPT ![i] = u]

(* upload, payload.register: a registration under an id that is in use     *)
(* takes its place in the Map; the pipe of the other one stays alive.      *)
Register(u, i) ==
  /\ id[u] = Null
  /\ id' = [id EXCEPT ![u] = i]
  /\ subject' = [subject EXCEPT ![u] = "open"]
  /\ piped' = piped \cup {u}
  /\ uploadStreams' = Mapped(u, i)
  /\ UNCHANGED <<sent, asked, closed, old, save, input, acked, answers, unknown, collected>>

Sends(u) == id[u] # Null /\ u \notin asked /\ u \notin closed

\* An error that asks the session to register first.
Unknown(u) ==
  /\ uploadStreams[id[u]] = Null
  /\ unknown' = unknown \cup {u}
  /\ UNCHANGED <<uploadStreams, subject, piped, save, input, acked, answers>>

\* mutant: what comes during initStream is dropped (exhaustMap for concatMap)
AcceptDropped(w, chunk) ==
  IF w \in piped /\ save[w] # "init"
  THEN /\ input' = [input EXCEPT ![w] = Append(@, chunk)]
       /\ save' = [save EXCEPT ![w] = IF @ = "empty" THEN "init" ELSE @]
       /\ acked' = [acked EXCEPT ![w] = IF save[w] = "open" THEN @ + 1 ELSE @]
  ELSE UNCHANGED <<input, save, acked>>

\* What save() does with a chunk: the first starts initStream, concatMap holds
\* back what comes before it is done, then each is written and acknowledged.
Accept(w, chunk) ==
  IF w \in piped
  THEN /\ input' = [input EXCEPT ![w] = Append(@, chunk)]
       /\ save' = [save EXCEPT ![w] = IF @ = "empty" THEN "init" ELSE @]
       /\ acked' = [acked EXCEPT ![w] = IF save[w] = "open" THEN @ + 1 ELSE @]
  ELSE UNCHANGED <<input, save, acked>>

(* upload, payload.chunk: subject.next, whoever registered the id last.    *)
SendChunk(u) ==
  /\ Sends(u)
  /\ sent[u] < MaxChunk
  /\ sent' = [sent EXCEPT ![u] = @ + 1]
  /\ \/ Unknown(u)
     \/ \E w \in Upload :
          /\ uploadStreams[id[u]] = w
          /\ Accept(w, <<u, sent[u] + 1>>)
          /\ UNCHANGED <<uploadStreams, subject, piped, answers, unknown>>
  /\ UNCHANGED <<id, asked, closed, old, collected>>

TimerOutlives(ws) == piped   \* mutant: completing the subject does not stop the timer

\* takeUntil ends with its source, and its timer with it.
PipedAfter(ws) == piped \ ws

(* subject.complete() of the uploads ws, which leave the Map.  The save    *)
(* without a chunk fails at once ("No send any chunks close upload"); one  *)
(* that is still in initStream completes when that is done.                *)
CompleteSubjects(ws) ==
  LET live == ws \cap piped
      bare == {w \in live : save[w] = "empty"}
  IN  /\ uploadStreams' = [i \in Id |-> IF uploadStreams[i] \in ws THEN Null
                                                                   ELSE uploadStreams[i]]
      /\ subject' = [w \in Upload |-> IF w \in ws THEN "completed" ELSE subject[w]]
      /\ piped' = PipedAfter(ws)
      /\ save' = [w \in Upload |-> IF w \in bare THEN "failed"
                                   ELSE IF w \in live /\ save[w] = "open" THEN "ending"
                                   ELSE save[w]]
      /\ answers' = [w \in Upload |-> IF w \in bare THEN Answered(w, <<"INTERNAL">>)
                                                    ELSE answers[w]]

(* upload, payload.complete                                                *)
SendComplete(u) ==
  /\ Sends(u)
  /\ asked' = asked \cup {u}
  /\ \/ Unknown(u)
     \/ \E w \in Upload :
          /\ uploadStreams[id[u]] = w
          /\ CompleteSubjects({w})
          /\ UNCHANGED <<input, acked, unknown>>
  /\ UNCHANGED <<id, sent, closed, old, collected>>

\* AppController.upload: the client half-closes and the response subject
\* completes.  The upload goes on.
HalfClose(u) ==
  /\ id[u] # Null
  /\ u \notin closed
  /\ closed' = closed \cup {u}
  /\ UNCHANGED <<id, sent, asked, uploadStreams, subject, piped, old, save, input, acked,
                 answers, unknown, collected>>

-----------------------------------------------------------------------------
ForgottenNever(u) == uploadStreams   \* mutant: the entry of a timed-out upload stays

ForgottenAll(u) == [i \in Id |-> Null]   \* mutant: the Map is cleared

\* this.uploadStreams.delete(request_id), whoever holds the id now
Forgotten(u) == [uploadStreams EXCEPT ![id[u]] = Null]

(* The upload timer fires: the entry is deleted, the subject unsubscribed, *)
(* and the error is answered twice, by catchError and by the save.         *)
Timeout(u) ==
  /\ u \in piped
  /\ uploadStreams' = Forgotten(u)
  /\ subject' = [subject EXCEPT ![u] = "unsubscribed"]
  /\ piped' = piped \ {u}
  /\ save' = [save EXCEPT ![u] = "failed"]
  /\ Answer(u, <<"ABORTED", "INTERNAL">>)
  /\ UNCHANGED <<clientVars, old, input, acked, unknown, collected>>

\* More than upload_register_max_time has passed since the registration.
Ages(u) ==
  /\ \E i \in Id : uploadStreams[i] = u
  /\ old' = old \cup {u}
  /\ UNCHANGED <<clientVars, uploadStreams, subject, piped, save, input, acked, answers,
                 unknown, collected>>

\* mutant: only uploads that are still running are collected
YoungRunning == {uploadStreams[i] : i \in Id} \cap (piped \ old)

\* The registrations with saved_date + upload_register_max_time > now
Young == {uploadStreams[i] : i \in Id} \ (old \cup {Null})

(* garbageCollection: completes every upload whose registration is younger *)
(* than the maximum, and lets the others be.                               *)
GarbageCollection ==
  /\ Young # {}
  /\ CompleteSubjects(Young)
  /\ collected' = collected \cup Young
  /\ UNCHANGED <<clientVars, old, input, acked, unknown>>

-----------------------------------------------------------------------------
DrainedFirst(u) == acked[u] + 1   \* mutant: only the first chunk is passed on

\* concatMap passes on the first chunk and all it has held back.
Drained(u) == Len(input[u])

AfterInitOpen(u) == "open"   \* mutant: a completion during initStream is lost

AfterInit(u) == IF subject[u] = "completed" THEN "ending" ELSE "open"

(* initStream is done.  When the subject has completed in the meantime the *)
(* completion follows the chunks.                                          *)
InitStream(u) ==
  /\ save[u] = "init"
  /\ acked' = [acked EXCEPT ![u] = Drained(u)]
  /\ save' = [save EXCEPT ![u] = AfterInit(u)]
  /\ UNCHANGED <<clientVars, uploadStreams, subject, piped, old, input, answers, unknown,
                 collected>>

\* initStream rejects (the name is refused, the disk fails): save() unsubscribes.
InitFails(u) ==
  /\ save[u] = "init"
  /\ save' = [save EXCEPT ![u] = "failed"]
  /\ piped' = piped \ {u}
  /\ Answer(u, <<"INTERNAL">>)
  /\ UNCHANGED <<clientVars, uploadStreams, subject, old, input, acked, unknown, collected>>

Commits(u) ==
  /\ save[u] = "ending"
  /\ save' = [save EXCEPT ![u] = "saved"]
  /\ Answer(u, <<"saved">>)
  /\ UNCHANGED <<clientVars, uploadStreams, subject, piped, old, input, acked, unknown,
                 collected>>

CommitFails(u) ==
  /\ save[u] = "ending"
  /\ save' = [save EXCEPT ![u] = "failed"]
  /\ Answer(u, <<"INTERNAL">>)
  /\ UNCHANGED <<clientVars, uploadStreams, subject, piped, old, input, acked, unknown,
                 collected>>

-----------------------------------------------------------------------------
Next ==
  \/ \E u \in Upload : \/ \E i \in Id : Register(u, i)
                       \/ SendChunk(u) \/ SendComplete(u) \/ HalfClose(u)
                       \/ Timeout(u) \/ Ages(u)
                       \/ InitStream(u) \/ InitFails(u) \/ Commits(u) \/ CommitFails(u)
  \/ GarbageCollection

Spec == Init /\ [][Next]_vars

\* Timers and intervals fire and the disk answers; clients owe nothing.
ServiceFairness ==
  /\ WF_vars(GarbageCollection)
  /\ \A u \in Upload : /\ WF_vars(Timeout(u))
                       /\ WF_vars(InitStream(u) \/ InitFails(u))
                       /\ WF_vars(Commits(u) \/ CommitFails(u))

-----------------------------------------------------------------------------
(* A chunk or a completion never meets a subject that was unsubscribed or  *)
(* completed, even when request ids are used twice: next() on such a       *)
(* subject throws out of the gRPC handler (upload, the timer, the          *)
(* collection all delete the entry with the subject).                      *)
MappedIsOpen ==
  \A i \in Id : uploadStreams[i] # Null => subject[uploadStreams[i]] = "open"

(* An upload has one outcome: it is not saved after an error was answered, *)
(* nor does an error follow "saved", although the timer, the collection,   *)
(* the completion and the disk race to end it.                             *)
OneOutcome ==
  \A u \in Upload :
    /\ Contains(answers[u], "saved") => answers[u] = <<"saved">> /\ save[u] = "saved"
    /\ u \notin closed => (save[u] \in Settled <=> answers[u] # <<>>)

Alone(u) == \A v \in Upload \ {u} : id[v] # id[u]

(* What is saved under an id that one session uses is what that session    *)
(* sent, all of it and in order, up to its completion, unless the          *)
(* collection of registrations has completed the upload in its place.      *)
SavedIsSent ==
  \A u \in Upload :
    save[u] = "saved" /\ Alone(u) /\ u \notin collected
      => u \in asked /\ input[u] = [i \in 1..sent[u] |-> <<u, i>>]

(* A session that shares its id with nobody is asked to register first     *)
(* only when its upload is over: nothing that ends another upload removes  *)
(* its entry.                                                              *)
RegisteredIsKnown ==
  \A u \in unknown :
    Alone(u) => u \in collected \/ Contains(answers[u], "ABORTED")

(* "saved" comes after the acknowledgement of every chunk that is in the   *)
(* file, those that concatMap held back during initStream included.        *)
SavedAfterAcks ==
  \A u \in Upload : save[u] = "saved" => acked[u] = Len(input[u])

(* Every upload is settled in the end, by its client or by its timer, even *)
(* when another session has taken over its request id.                     *)
UploadsSettle == \A u \in Upload : id[u] # Null ~> save[u] \in Settled

(* The Map does not grow for ever: an entry is deleted, even when its save *)
(* has failed early and taken the timer with it, unless it has grown older *)
(* than upload_register_max_time before the collection first comes by.     *)
EntriesLeave ==
  \A i \in Id, u \in Upload :
    uploadStreams[i] = u ~> uploadStreams[i] # u \/ u \in old

-----------------------------------------------------------------------------
(* The e2e test "Should save and download file" finds all its chunks in    *)
(* the file it was told is saved: what is answered as saved is complete.   *)
SavedIsComplete ==
  \A u \in Upload : save[u] = "saved" /\ Alone(u) => u \in asked
=============================================================================
