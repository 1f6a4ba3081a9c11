---------------------------- MODULE UploadClient ----------------------------
(***************************************************************************)
(* The uploadFile helper (src/src/helpers/uploadFile.ts, and the copy in   *)
(* examples/upload-download.js) as a client of UploadService.  It writes   *)
(* the registration, all chunks and the completion at once, then listens:  *)
(* at "saved" or at an error it half-closes the call, and when the server  *)
(* has closed its side it resolves.  The server handles the messages of a  *)
(* call in their order, at any time after they were written; its answers   *)
(* arrive in order too, and any time later.                                *)
(*                                                                         *)
(* The other sessions are any clients at all, as in UploadService.         *)
(***************************************************************************)
EXTENDS UploadService

CONSTANT Helper   \* the sessions that are calls of uploadFile

ASSUME HelperAssumption == Helper \subseteq Upload

VARIABLES
  called, plan,   \* helpers that were called, and with how many chunks
  messages,       \* outcomes on their way to a helper
  told            \* outcomes a helper has received, of its uploadMessages

helperVars == <<called, plan, messages, told>>
allVars == <<vars, helperVars>>

ClientInit ==
  /\ Init
  /\ called = {}
  /\ plan = [u \in Helper |-> 0]
  /\ messages = [u \in Helper |-> <<>>]
  /\ told = [u \in Helper |-> {}]

-----------------------------------------------------------------------------
Call(u, n) ==
  /\ u \notin called
  /\ called' = called \cup {u}
  /\ plan' = [plan EXCEPT ![u] = n]
  /\ UNCHANGED <<vars, messages, told>>

EndsWhenSaved(u) == "saved" \in told[u]   \* mutant: an error does not end the call

\* call.end() has been called.
Ends(u) == told[u] # {}

\* The next message of a helper that the server handles.
HelperRegisters(u, i) == u \in called /\ Register(u, i)
HelperChunk(u)        == sent[u] < plan[u] /\ SendChunk(u)
HelperComplete(u)     == sent[u] = plan[u] /\ SendComplete(u)
HelperHalfCloses(u)   == u \in asked /\ Ends(u) /\ HalfClose(u)

Outcome(code) == IF code = "saved" THEN "saved" ELSE "error"

\* What a step of the server answers u: "saved", errors, "please register first".
Outcomes(u, refused) ==
  LET codes == SubSeq(answers'[u], Len(answers[u]) + 1, Len(answers'[u]))
  IN  [i \in DOMAIN codes |-> Outcome(codes[i])]
        \o (IF u \in refused THEN <<"error">> ELSE <<>>)

Relay(refused) ==
  /\ messages' = [u \in Helper |-> messages[u] \o Outcomes(u, refused)]
  /\ UNCHANGED <<called, plan, told>>

Handle(u) ==
  \/ (\E i \in Id : HelperRegisters(u, i)) /\ Relay({})
  \/ /\ HelperChunk(u) \/ HelperComplete(u)
     /\ Relay(IF uploadStreams[id[u]] = Null THEN {u} ELSE {})
  \/ HelperHalfCloses(u) /\ Relay({})

Deliver(u) ==
  /\ messages[u] # <<>>
  /\ told' = [told EXCEPT ![u] = @ \cup {Head(messages[u])}]
  /\ messages' = [messages EXCEPT ![u] = Tail(@)]
  /\ UNCHANGED <<vars, called, plan>>

\* The response subject has completed and all that was sent before has arrived.
Resolved(u) == u \in closed /\ messages[u] = <<>>

-----------------------------------------------------------------------------
OtherSession(u) ==
  \/ \E i \in Id : Register(u, i)
  \/ SendChunk(u) \/ SendComplete(u) \/ HalfClose(u)

ServerStep ==
  \/ \E u \in Upload : \/ Timeout(u) \/ Ages(u)
                       \/ InitStream(u) \/ InitFails(u) \/ Commits(u) \/ CommitFails(u)
  \/ GarbageCollection

ClientNext ==
  \/ \E u \in Helper : \/ \E n \in 0..MaxChunk : Call(u, n)
                       \/ Handle(u) \/ Deliver(u)
  \/ \E u \in Upload \ Helper : OtherSession(u) /\ Relay({})
  \/ ServerStep /\ Relay({})

(* As in UploadService; besides, what a helper has written is handled and  *)
(* what it is answered arrives.  Nobody has to call it, and the other      *)
(* clients owe nothing.                                                    *)
ClientSpec ==
  /\ ClientInit /\ [][ClientNext]_allVars
  /\ ServiceFairness
  /\ \A u \in Helper : WF_allVars(Handle(u)) /\ WF_allVars(Deliver(u))

-----------------------------------------------------------------------------
(* Every uploadFile resolves, whichever of the disk, the timer and the     *)
(* collection ends its upload, and whatever other clients do with its id:  *)
(* an outcome is always answered while its call is still open.             *)
UploadResolves == \A u \in Helper : u \in called ~> Resolved(u)

(* A helper is told the truth: after an error its file is not saved, not   *)
(* even later; after "saved" the file holds all the chunks it was called   *)
(* with.  (Not so when another session uses its id, or when the collection *)
(* of registrations has completed its upload.)                             *)
ClientToldTruth ==
  \A u \in Helper :
    Alone(u) /\ u \notin collected
      => /\ "error" \in told[u] => save[u] = "failed"
         /\ "saved" \in told[u] => save[u] = "saved" /\ Len(input[u]) = plan[u]
=============================================================================
