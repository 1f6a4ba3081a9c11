------------------------ MODULE UploadServiceProofs ------------------------
(***************************************************************************)
(* Proofs about UploadService, for every set of sessions and request ids   *)
(* and every number of chunks: no handler meets a closed subject, an       *)
(* upload has one outcome, and what is saved for a session that shares its *)
(* request id with nobody is what it sent.                                 *)
(*                                                                         *)
(* None of the claims is inductive. What they rest on is who may touch     *)
(* what: an entry of the Map is under the id of its own session            *)
(* (OwnEntries), an upload whose pipe is alive is registered and neither   *)
(* ended nor completed (Alive), it is answered when it is settled and not  *)
(* before (SettledAnswers), and a session alone with its id owns its entry *)
(* for as long as the pipe is alive (Sole).                                *)
(*                                                                         *)
(* What the uploadFile helper, of UploadClient, was told or is about to be *)
(* told is the outcome of its save (Heard); it has registered only when it *)
(* was called, and has asked for the completion only when it has written   *)
(* every chunk it was called with (Follows).                               *)
(***************************************************************************)
EXTENDS UploadClient, TLAPS

OwnEntries ==
  \A i \in Id : uploadStreams[i] # Null => id[uploadStreams[i]] = i

Alive ==
  \A u \in Upload :
    /\ u \in piped => /\ id[u] # Null
                      /\ subject[u] = "open"
                      /\ save[u] \in {"empty", "init", "open"}
    /\ id[u] = Null => /\ save[u] = "empty" /\ subject[u] = "none"
                       /\ sent[u] = 0 /\ input[u] = <<>>
                       /\ u \notin asked /\ u \notin unknown

TimedOut == <<"ABORTED", "INTERNAL">>

SettledAnswers ==
  \A u \in Upload :
    /\ answers[u] \in {<<>>, <<"saved">>, <<"INTERNAL">>, TimedOut}
    /\ save[u] \notin Settled => answers[u] = <<>>
    /\ answers[u] = <<"saved">> => save[u] = "saved"
    /\ save[u] \in Settled /\ u \notin closed => answers[u] # <<>>

Acknowledged ==
  \A u \in Upload :
    save[u] \in {"open", "ending", "saved"} => acked[u] = Len(input[u])

Own(u) == [i \in 1..sent[u] |-> <<u, i>>]

SoleOf(u) ==
  /\ u \in piped => uploadStreams[id[u]] = u /\ u \notin asked
  /\ save[u] # "failed" => input[u] = Own(u) /\ (u \in piped \/ u \in asked)
  /\ u \notin asked /\ u \notin closed
       => uploadStreams[id[u]] = u \/ answers[u] = TimedOut
  /\ u \in unknown => answers[u] = TimedOut

Sole ==
  \A u \in Upload :
    Alone(u) /\ id[u] # Null /\ u \notin collected => SoleOf(u)

IInv ==
  /\ TypeOK
  /\ OwnEntries
  /\ MappedIsOpen
  /\ Alive
  /\ SettledAnswers
  /\ Acknowledged
  /\ Sole

-----------------------------------------------------------------------------
\* The codes that an upload is answered with.
Codes == {<<"saved">>, <<"INTERNAL">>, TimedOut}

\* Codes are lists of answers.
LEMMA CodesAreSeq == Codes \subseteq Seq({"saved", "ABORTED", "INTERNAL"})
PROOF
  BY DEF Codes, TimedOut

\* An upload that is not answered yet is answered with the codes or, when the
\* client has half-closed, with nothing.
LEMMA FirstAnswer ==
  ASSUME NEW u \in Upload, NEW codes \in Codes, answers[u] = <<>>
  PROVE  /\ u \in closed => Answered(u, codes) = <<>>
         /\ u \notin closed => Answered(u, codes) = codes
PROOF
  <1>1. codes \in Seq({"saved", "ABORTED", "INTERNAL"})
    BY CodesAreSeq
  <1>2. <<>> \o codes = codes
    BY <1>1
  <1> QED
    BY <1>2 DEF Answered

\* The next chunk of a session extends what it has sent.
LEMMA OwnExtends ==
  ASSUME NEW u \in Upload, NEW n \in Nat
  PROVE  Append([i \in 1..n |-> <<u, i>>], <<u, n + 1>>)
           = [i \in 1..n + 1 |-> <<u, i>>]
PROOF
  OBVIOUS

-----------------------------------------------------------------------------
\* No session has registered.
LEMMA InitInv == Init => IInv
PROOF
  <1> SUFFICES ASSUME Init PROVE IInv
    OBVIOUS
  <1> USE UploadAssumption DEF Init
  <1>1. TypeOK
    BY DEF TypeOK, Settled
  <1>2. OwnEntries /\ MappedIsOpen
    BY DEF OwnEntries, MappedIsOpen
  <1>3. Alive
    BY DEF Alive
  <1>4. SettledAnswers
    BY DEF SettledAnswers, Settled
  <1>5. Acknowledged
    BY DEF Acknowledged
  <1>6. Sole
    BY DEF Sole
  <1> QED
    BY <1>1, <1>2, <1>3, <1>4, <1>5, <1>6 DEF IInv

-----------------------------------------------------------------------------
\* What an upload answers keeps the type of its answers.
LEMMA AnsweredType ==
  ASSUME NEW u \in Upload, NEW codes \in Codes, TypeOK
  PROVE  Answered(u, codes) \in Seq({"saved", "ABORTED", "INTERNAL"})
PROOF
  <1>1. codes \in Seq({"saved", "ABORTED", "INTERNAL"})
    BY CodesAreSeq
  <1> QED
    BY <1>1 DEF Answered, TypeOK

\* Accept lengthens what reached save() by the chunk, when the pipe is alive,
\* and touches no other upload.
LEMMA AcceptEffect ==
  ASSUME NEW w \in Upload, NEW chunk \in Upload \X (1..MaxChunk), TypeOK, Accept(w, chunk)
  PROVE  /\ w \in piped => /\ input'[w] = Append(input[w], chunk)
                           /\ Len(input'[w]) = Len(input[w]) + 1
                           /\ save'[w] = IF save[w] = "empty" THEN "init" ELSE save[w]
                           /\ acked'[w] = IF save[w] = "open" THEN acked[w] + 1
                                                              ELSE acked[w]
         /\ w \notin piped => UNCHANGED <<input, save, acked>>
         /\ \A x \in Upload \ {w} : /\ input'[x] = input[x]
                                    /\ save'[x] = save[x]
                                    /\ acked'[x] = acked[x]
         /\ input' \in [Upload -> Seq(Upload \X (1..MaxChunk))]
         /\ save' \in [Upload -> {"empty", "init", "open", "ending"} \cup Settled]
         /\ acked' \in [Upload -> Nat]
PROOF
  <1> DEFINE Chunk == Upload \X (1..MaxChunk)
  <1>1. input \in [Upload -> Seq(Chunk)] /\ chunk \in Chunk
    BY DEF TypeOK
  <1>2. /\ save \in [Upload -> {"empty", "init", "open", "ending"} \cup Settled]
        /\ acked \in [Upload -> Nat]
    BY DEF TypeOK
  <1> HIDE DEF Chunk
  <1>3. Append(input[w], chunk) \in Seq(Chunk) /\ Len(Append(input[w], chunk)) = Len(input[w]) + 1
    BY <1>1
  <1>4. CASE w \in piped
    <2>1. input' = [input EXCEPT ![w] = Append(@, chunk)]
      BY <1>4 DEF Accept
    <2>2. /\ save' = [save EXCEPT ![w] = IF @ = "empty" THEN "init" ELSE @]
          /\ acked' = [acked EXCEPT ![w] = IF save[w] = "open" THEN @ + 1 ELSE @]
      BY <1>4 DEF Accept
    <2>3. /\ input' \in [Upload -> Seq(Chunk)]
          /\ input'[w] = Append(input[w], chunk)
          /\ \A x \in Upload \ {w} : input'[x] = input[x]
      BY <1>1, <1>3, <2>1, Zenon
    <2>4. /\ save'[w] = IF save[w] = "empty" THEN "init" ELSE save[w]
          /\ \A x \in Upload \ {w} : save'[x] = save[x]
          /\ save' \in [Upload -> {"empty", "init", "open", "ending"} \cup Settled]
      BY <1>2, <2>2
    <2>5. /\ acked'[w] = IF save[w] = "open" THEN acked[w] + 1 ELSE acked[w]
          /\ \A x \in Upload \ {w} : acked'[x] = acked[x]
          /\ acked' \in [Upload -> Nat]
      BY <1>2, <2>2
    <2> QED
      BY <1>3, <1>4, <2>3, <2>4, <2>5 DEF Chunk
  <1>5. CASE w \notin piped
    BY <1>1, <1>2, <1>5 DEF Accept, Chunk
  <1> QED
    BY <1>4, <1>5

\* Every step keeps the variables in their domains.
LEMMA TypeStep == TypeOK /\ [Next]_vars => TypeOK'
PROOF
  <1> SUFFICES ASSUME TypeOK, [Next]_vars PROVE TypeOK'
    OBVIOUS
  <1> USE UploadAssumption DEF TypeOK
  <1>1. ASSUME NEW u \in Upload, NEW i \in Id, Register(u, i) PROVE TypeOK'
    BY <1>1 DEF Register, Mapped
  <1>2. ASSUME NEW u \in Upload, SendChunk(u) PROVE TypeOK'
    <2>1. sent'[u] \in 1..MaxChunk /\ sent' \in [Upload -> 0..MaxChunk]
      BY <1>2 DEF SendChunk
    <2>2. CASE Unknown(u)
      BY <1>2, <2>1, <2>2 DEF SendChunk, Unknown
    <2>3. ASSUME NEW w \in Upload, Accept(w, <<u, sent[u] + 1>>),
                 UNCHANGED <<uploadStreams, subject, piped, answers, unknown>>
          PROVE  TypeOK'
      <3>1. <<u, sent[u] + 1>> \in Upload \X (1..MaxChunk)
        BY <1>2 DEF SendChunk
      <3>2. /\ input' \in [Upload -> Seq(Upload \X (1..MaxChunk))]
            /\ save' \in [Upload -> {"empty", "init", "open", "ending"} \cup Settled]
            /\ acked' \in [Upload -> Nat]
        BY AcceptEffect, <2>3, <3>1
      <3> QED
        BY <1>2, <2>1, <2>3, <3>2 DEF SendChunk
    <2> QED
      BY <1>2, <2>2, <2>3 DEF SendChunk
  <1>3. ASSUME NEW ws \in SUBSET Upload, CompleteSubjects(ws)
        PROVE  /\ uploadStreams' \in [Id -> Upload \cup {Null}]
               /\ subject' \in [Upload -> {"none", "open", "completed", "unsubscribed"}]
               /\ piped' \subseteq Upload
               /\ save' \in [Upload -> {"empty", "init", "open", "ending"} \cup Settled]
               /\ answers' \in [Upload -> Seq({"saved", "ABORTED", "INTERNAL"})]
    <2>1. \A w \in Upload : Answered(w, <<"INTERNAL">>)
                              \in Seq({"saved", "ABORTED", "INTERNAL"})
      BY AnsweredType DEF Codes
    <2> QED
      BY <1>3, <2>1 DEF CompleteSubjects, PipedAfter, Settled
  <1>4. ASSUME NEW u \in Upload, SendComplete(u) PROVE TypeOK'
    <2>1. CASE Unknown(u)
      BY <1>4, <2>1 DEF SendComplete, Unknown
    <2>2. ASSUME NEW w \in Upload, CompleteSubjects({w}), UNCHANGED <<input, acked, unknown>>
          PROVE  TypeOK'
      BY <1>3, <1>4, <2>2 DEF SendComplete
    <2> QED
      BY <1>4, <2>1, <2>2 DEF SendComplete
  <1>5. ASSUME NEW u \in Upload, HalfClose(u) PROVE TypeOK'
    BY <1>5 DEF HalfClose
  <1>6. ASSUME NEW u \in Upload, Timeout(u) PROVE TypeOK'
    <2>1. Answered(u, TimedOut) \in Seq({"saved", "ABORTED", "INTERNAL"})
      BY AnsweredType DEF Codes
    <2> QED
      BY <1>6, <2>1 DEF Timeout, clientVars, Forgotten, Settled, Answer, TimedOut
  <1>7. ASSUME NEW u \in Upload, Ages(u) PROVE TypeOK'
    BY <1>7 DEF Ages, clientVars
  <1>8. CASE GarbageCollection
    <2>1. Young \subseteq Upload
      BY DEF Young
    <2> QED
      BY <1>3, <1>8, <2>1 DEF GarbageCollection, clientVars
  <1>9. ASSUME NEW u \in Upload, InitStream(u) PROVE TypeOK'
    BY <1>9 DEF InitStream, clientVars, Drained, AfterInit
  <1>10. ASSUME NEW u \in Upload, InitFails(u) \/ Commits(u) \/ CommitFails(u) PROVE TypeOK'
    <2>1. Answered(u, <<"INTERNAL">>) \in Seq({"saved", "ABORTED", "INTERNAL"})
      BY AnsweredType DEF Codes
    <2>2. Answered(u, <<"saved">>) \in Seq({"saved", "ABORTED", "INTERNAL"})
      BY AnsweredType DEF Codes
    <2>3. CASE InitFails(u)
      BY <2>1, <2>3 DEF InitFails, clientVars, Settled, Answer
    <2>4. CASE Commits(u)
      BY <2>2, <2>4 DEF Commits, clientVars, Settled, Answer
    <2>5. CASE CommitFails(u)
      BY <2>1, <2>5 DEF CommitFails, clientVars, Settled, Answer
    <2> QED
      BY <1>10, <2>3, <2>4, <2>5
  <1>11. CASE UNCHANGED vars
    BY <1>11 DEF vars, clientVars
  <1> QED
    BY <1>1, <1>2, <1>4, <1>5, <1>6, <1>7, <1>8, <1>9, <1>10, <1>11 DEF Next

-----------------------------------------------------------------------------
\* An entry goes with the subject that is closed, and nobody else's subject is.
LEMMA EntriesStep == IInv /\ [Next]_vars => OwnEntries' /\ MappedIsOpen'
PROOF
  <1> SUFFICES ASSUME IInv, [Next]_vars PROVE OwnEntries' /\ MappedIsOpen'
    OBVIOUS
  <1>0. TypeOK'
    BY TypeStep DEF IInv
  <1> USE UploadAssumption DEF IInv, TypeOK, OwnEntries, MappedIsOpen, Alive
  <1>1. ASSUME NEW u \in Upload, NEW i \in Id, Register(u, i) PROVE OwnEntries' /\ MappedIsOpen'
    BY <1>0, <1>1 DEF Register, Mapped
  <1>2. ASSUME NEW u \in Upload, SendChunk(u) PROVE OwnEntries' /\ MappedIsOpen'
    BY <1>0, <1>2 DEF SendChunk, Unknown, Accept
  <1>3. ASSUME NEW u \in Upload, SendComplete(u) PROVE OwnEntries' /\ MappedIsOpen'
    <2>1. CASE Unknown(u)
      BY <1>0, <1>3, <2>1 DEF SendComplete, Unknown
    <2>2. ASSUME NEW w \in Upload, uploadStreams[id[u]] = w, CompleteSubjects({w}),
                 UNCHANGED <<input, acked, unknown>>
          PROVE  OwnEntries' /\ MappedIsOpen'
      BY <1>0, <1>3, <2>2 DEF SendComplete, CompleteSubjects, PipedAfter
    <2> QED
      BY <1>3, <2>1, <2>2 DEF SendComplete
  <1>4. ASSUME NEW u \in Upload, HalfClose(u) PROVE OwnEntries' /\ MappedIsOpen'
    BY <1>0, <1>4 DEF HalfClose
  <1>5. ASSUME NEW u \in Upload, Timeout(u) PROVE OwnEntries' /\ MappedIsOpen'
    BY <1>0, <1>5 DEF Timeout, Forgotten, clientVars
  <1>6. ASSUME NEW u \in Upload, Ages(u) PROVE OwnEntries' /\ MappedIsOpen'
    BY <1>0, <1>6 DEF Ages, clientVars
  <1>7. CASE GarbageCollection
    BY <1>0, <1>7 DEF GarbageCollection, CompleteSubjects, PipedAfter, Young, clientVars
  <1>8. ASSUME NEW u \in Upload, InitStream(u) PROVE OwnEntries' /\ MappedIsOpen'
    BY <1>0, <1>8 DEF InitStream, Drained, AfterInit, clientVars
  <1>9. ASSUME NEW u \in Upload, InitFails(u) PROVE OwnEntries' /\ MappedIsOpen'
    BY <1>0, <1>9 DEF InitFails, clientVars
  <1>10. ASSUME NEW u \in Upload, Commits(u) PROVE OwnEntries' /\ MappedIsOpen'
    BY <1>0, <1>10 DEF Commits, clientVars
  <1>11. ASSUME NEW u \in Upload, CommitFails(u) PROVE OwnEntries' /\ MappedIsOpen'
    BY <1>0, <1>11 DEF CommitFails, clientVars
  <1>12. CASE UNCHANGED vars
    BY <1>0, <1>12 DEF vars, clientVars
  <1> QED
    BY <1>1, <1>2, <1>3, <1>4, <1>5, <1>6, <1>7, <1>8, <1>9, <1>10, <1>11, <1>12 DEF Next

\* What ends a save takes its pipe away.
LEMMA AliveStep == IInv /\ [Next]_vars => Alive'
PROOF
  <1> SUFFICES ASSUME IInv, [Next]_vars PROVE Alive'
    OBVIOUS
  <1>0. TypeOK'
    BY TypeStep DEF IInv
  <1> USE UploadAssumption DEF IInv, TypeOK, Alive
  <1>1. ASSUME NEW u \in Upload, NEW i \in Id, Register(u, i) PROVE Alive'
    BY <1>0, <1>1 DEF Register, Mapped
  <1>2. ASSUME NEW u \in Upload, SendChunk(u) PROVE Alive'
    <2>1. CASE Unknown(u)
      BY <1>0, <1>2, <2>1 DEF SendChunk, Sends, Unknown
    <2>2. ASSUME NEW w \in Upload, uploadStreams[id[u]] = w, Accept(w, <<u, sent[u] + 1>>),
                 UNCHANGED <<uploadStreams, subject, piped, answers, unknown>>
          PROVE  Alive'
      <3>1. id[u] # Null /\ id[w] # Null
        BY <1>2, <2>2 DEF SendChunk, Sends, OwnEntries
      <3>2. <<u, sent[u] + 1>> \in Upload \X (1..MaxChunk)
        BY <1>2 DEF SendChunk
      <3>3. \A x \in Upload \ {w} : input'[x] = input[x] /\ save'[x] = save[x]
        BY AcceptEffect, <2>2, <3>2
      <3>4. w \in piped => save'[w] \in {"init", "open"}
        BY AcceptEffect, <2>2, <3>2
      <3>5. w \notin piped => UNCHANGED <<input, save>>
        BY <2>2 DEF Accept
      <3>6. /\ UNCHANGED <<id, asked, piped, subject, unknown>>
            /\ \A x \in Upload \ {u} : sent'[x] = sent[x]
        BY <1>2, <2>2 DEF SendChunk
      <3> QED
        BY <3>1, <3>3, <3>4, <3>5, <3>6
    <2> QED
      BY <1>2, <2>1, <2>2 DEF SendChunk
  <1>3. ASSUME NEW u \in Upload, SendComplete(u) PROVE Alive'
    <2>1. CASE Unknown(u)
      BY <1>0, <1>3, <2>1 DEF SendComplete, Sends, Unknown
    <2>2. ASSUME NEW w \in Upload, uploadStreams[id[u]] = w, CompleteSubjects({w}),
                 UNCHANGED <<input, acked, unknown>>
          PROVE  Alive'
      <3>1. id[u] # Null /\ id[w] # Null
        BY <1>3, <2>2 DEF SendComplete, Sends, OwnEntries
      <3> QED
        BY <1>0, <1>3, <2>2, <3>1 DEF SendComplete, CompleteSubjects, PipedAfter
    <2> QED
      BY <1>3, <2>1, <2>2 DEF SendComplete
  <1>4. ASSUME NEW u \in Upload, HalfClose(u) PROVE Alive'
    BY <1>0, <1>4 DEF HalfClose
  <1>5. ASSUME NEW u \in Upload, Timeout(u) PROVE Alive'
    BY <1>0, <1>5 DEF Timeout, Forgotten, clientVars
  <1>6. ASSUME NEW u \in Upload, Ages(u) PROVE Alive'
    BY <1>0, <1>6 DEF Ages, clientVars
  <1>7. CASE GarbageCollection
    <2>1. Young \subseteq Upload /\ \A w \in Young : id[w] # Null
      BY DEF Young, OwnEntries
    <2> QED
      BY <1>0, <1>7, <2>1 DEF GarbageCollection, CompleteSubjects, PipedAfter, clientVars
  <1>8. ASSUME NEW u \in Upload, InitStream(u) PROVE Alive'
    BY <1>0, <1>8 DEF InitStream, Drained, AfterInit, clientVars
  <1>9. ASSUME NEW u \in Upload, InitFails(u) PROVE Alive'
    BY <1>0, <1>9 DEF InitFails, clientVars
  <1>10. ASSUME NEW u \in Upload, Commits(u) PROVE Alive'
    BY <1>0, <1>10 DEF Commits, clientVars
  <1>11. ASSUME NEW u \in Upload, CommitFails(u) PROVE Alive'
    BY <1>0, <1>11 DEF CommitFails, clientVars
  <1>12. CASE UNCHANGED vars
    BY <1>0, <1>12 DEF vars, clientVars
  <1> QED
    BY <1>1, <1>2, <1>3, <1>4, <1>5, <1>6, <1>7, <1>8, <1>9, <1>10, <1>11, <1>12 DEF Next

\* Every chunk that is passed on is acknowledged, those held back all at once.
LEMMA AcknowledgedStep == IInv /\ [Next]_vars => Acknowledged'
PROOF
  <1> SUFFICES ASSUME IInv, [Next]_vars PROVE Acknowledged'
    OBVIOUS
  <1>0. TypeOK'
    BY TypeStep DEF IInv
  <1> USE UploadAssumption DEF IInv, TypeOK, Acknowledged, Alive
  <1>1. ASSUME NEW u \in Upload, NEW i \in Id, Register(u, i) PROVE Acknowledged'
    BY <1>0, <1>1 DEF Register, Mapped
  <1>2. ASSUME NEW u \in Upload, SendChunk(u) PROVE Acknowledged'
    <2>1. CASE Unknown(u)
      BY <1>0, <1>2, <2>1 DEF SendChunk, Sends, Unknown
    <2>2. ASSUME NEW w \in Upload, uploadStreams[id[u]] = w, Accept(w, <<u, sent[u] + 1>>),
                 UNCHANGED <<uploadStreams, subject, piped, answers, unknown>>
          PROVE  Acknowledged'
      <3> DEFINE chunk == <<u, sent[u] + 1>>
      <3>1. chunk \in Upload \X (1..MaxChunk) /\ Accept(w, chunk)
        BY <1>2, <2>2 DEF SendChunk
      <3> HIDE DEF chunk
      <3>2. \A x \in Upload \ {w} : /\ input'[x] = input[x] /\ save'[x] = save[x]
                                    /\ acked'[x] = acked[x]
        BY AcceptEffect, <3>1
      <3>3. w \in piped
              => /\ save'[w] = "open" => save[w] = "open" /\ acked'[w] = acked[w] + 1
                 /\ save'[w] \notin {"ending", "saved"}
                 /\ Len(input'[w]) = Len(input[w]) + 1
        BY AcceptEffect, <3>1
      <3>4. w \notin piped => UNCHANGED <<input, save, acked>>
        BY <3>1 DEF Accept
      <3>5. save'[w] \in {"open", "ending", "saved"} => acked'[w] = Len(input'[w])
        <4>1. save[w] \in {"open", "ending", "saved"} => acked[w] = Len(input[w])
          OBVIOUS
        <4>2. CASE w \in piped
          BY <3>3, <4>1, <4>2
        <4>3. CASE w \notin piped
          BY <3>4, <4>1, <4>3
        <4> QED
          BY <4>2, <4>3
      <3> QED
        BY <3>2, <3>5
    <2> QED
      BY <1>2, <2>1, <2>2 DEF SendChunk
  <1>3. ASSUME NEW u \in Upload, SendComplete(u) PROVE Acknowledged'
    <2>1. CASE Unknown(u)
      BY <1>0, <1>3, <2>1 DEF SendComplete, Unknown
    <2>2. ASSUME NEW w \in Upload, uploadStreams[id[u]] = w, CompleteSubjects({w}),
                 UNCHANGED <<input, acked, unknown>>
          PROVE  Acknowledged'
      BY <1>0, <1>3, <2>2 DEF SendComplete, CompleteSubjects, PipedAfter
    <2> QED
      BY <1>3, <2>1, <2>2 DEF SendComplete
  <1>4. ASSUME NEW u \in Upload, HalfClose(u) PROVE Acknowledged'
    BY <1>0, <1>4 DEF HalfClose
  <1>5. ASSUME NEW u \in Upload, Timeout(u) PROVE Acknowledged'
    BY <1>0, <1>5 DEF Timeout, Forgotten, clientVars
  <1>6. ASSUME NEW u \in Upload, Ages(u) PROVE Acknowledged'
    BY <1>0, <1>6 DEF Ages, clientVars
  <1>7. CASE GarbageCollection
    BY <1>0, <1>7 DEF GarbageCollection, CompleteSubjects, PipedAfter, Young, clientVars
  <1>8. ASSUME NEW u \in Upload, InitStream(u) PROVE Acknowledged'
    BY <1>0, <1>8 DEF InitStream, Drained, AfterInit, clientVars
  <1>9. ASSUME NEW u \in Upload, InitFails(u) PROVE Acknowledged'
    BY <1>0, <1>9 DEF InitFails, clientVars
  <1>10. ASSUME NEW u \in Upload, Commits(u) PROVE Acknowledged'
    BY <1>0, <1>10 DEF Commits, clientVars
  <1>11. ASSUME NEW u \in Upload, CommitFails(u) PROVE Acknowledged'
    BY <1>0, <1>11 DEF CommitFails, clientVars
  <1>12. CASE UNCHANGED vars
    BY <1>0, <1>12 DEF vars, clientVars
  <1> QED
    BY <1>1, <1>2, <1>3, <1>4, <1>5, <1>6, <1>7, <1>8, <1>9, <1>10, <1>11, <1>12 DEF Next

\* The answers that an upload can have are told apart.
LEMMA CodesDiffer ==
  /\ <<"saved">> # <<>> /\ <<"INTERNAL">> # <<>> /\ TimedOut # <<>>
  /\ <<"saved">> # <<"INTERNAL">> /\ <<"saved">> # TimedOut /\ <<"INTERNAL">> # TimedOut
PROOF
  BY DEF TimedOut

\* An upload is answered in the step that settles it.
LEMMA SettledOutcome ==
  ASSUME TypeOK, SettledAnswers, closed' = closed,
         NEW u \in Upload, NEW codes \in Codes, save[u] \notin Settled,
         answers'[u] = Answered(u, codes),
         save'[u] = IF codes = <<"saved">> THEN "saved" ELSE "failed"
  PROVE  /\ answers'[u] \in {<<>>, <<"saved">>, <<"INTERNAL">>, TimedOut}
         /\ save'[u] \in Settled
         /\ answers'[u] = <<"saved">> => save'[u] = "saved"
         /\ u \notin closed' => answers'[u] # <<>>
PROOF
  <1>1. answers[u] = <<>>
    BY DEF SettledAnswers
  <1>2. /\ u \in closed => answers'[u] = <<>>
        /\ u \notin closed => answers'[u] = codes
    BY <1>1, FirstAnswer
  <1>3. codes \in {<<"saved">>, <<"INTERNAL">>, TimedOut} /\ codes # <<>>
    BY CodesDiffer DEF Codes
  <1>4. save'[u] \in Settled
    BY DEF Settled
  <1> HIDE DEF TimedOut
  <1>5. CASE u \in closed
    BY <1>2, <1>4, <1>5, CodesDiffer
  <1>6. CASE u \notin closed
    BY <1>2, <1>3, <1>4, <1>6, CodesDiffer
  <1> QED
    BY <1>5, <1>6

\* Completing a subject answers the uploads that had no chunk, and no other.
LEMMA CompleteOutcomes ==
  ASSUME TypeOK, SettledAnswers, NEW ws \in SUBSET Upload, CompleteSubjects(ws), closed' = closed
  PROVE  SettledAnswers'
PROOF
  <1> DEFINE bare == {w \in ws \cap piped : save[w] = "empty"}
  <1>1. ASSUME NEW u \in bare
        PROVE  /\ u \in Upload /\ save[u] \notin Settled
               /\ save'[u] = "failed" /\ answers'[u] = Answered(u, <<"INTERNAL">>)
    BY <1>1 DEF CompleteSubjects, Settled, TypeOK
  <1>2. ASSUME NEW u \in Upload \ bare
        PROVE  /\ answers'[u] = answers[u]
               /\ \/ save'[u] = save[u]
                  \/ save[u] = "open" /\ save'[u] = "ending"
    BY <1>2 DEF CompleteSubjects, TypeOK
  <1> HIDE DEF bare
  <1>3. ASSUME NEW u \in bare
        PROVE  /\ answers'[u] \in {<<>>, <<"saved">>, <<"INTERNAL">>, TimedOut}
               /\ save'[u] \in Settled
               /\ answers'[u] = <<"saved">> => save'[u] = "saved"
               /\ u \notin closed' => answers'[u] # <<>>
    <2>1. <<"INTERNAL">> \in Codes /\ <<"INTERNAL">> # <<"saved">>
      BY CodesDiffer DEF Codes
    <2> QED
      BY <1>1, <2>1, SettledOutcome
  <1>4. ASSUME NEW u \in Upload \ bare
        PROVE  /\ answers'[u] \in {<<>>, <<"saved">>, <<"INTERNAL">>, TimedOut}
               /\ save'[u] \notin Settled => answers'[u] = <<>>
               /\ answers'[u] = <<"saved">> => save'[u] = "saved"
               /\ save'[u] \in Settled /\ u \notin closed' => answers'[u] # <<>>
    BY <1>2, CodesDiffer DEF SettledAnswers, Settled
  <1> QED
    BY <1>3, <1>4 DEF SettledAnswers

\* Every step settles and answers together, or does neither.
LEMMA OutcomesStep == IInv /\ [Next]_vars => SettledAnswers'
PROOF
  <1> SUFFICES ASSUME IInv, [Next]_vars PROVE SettledAnswers'
    OBVIOUS
  <1>0. TypeOK'
    BY TypeStep DEF IInv
  <1> USE UploadAssumption DEF IInv
  <1>1. ASSUME NEW u \in Upload, NEW i \in Id, Register(u, i) PROVE SettledAnswers'
    BY <1>0, <1>1 DEF Register, Mapped, TypeOK, SettledAnswers, Alive, Settled
  <1>2. ASSUME NEW u \in Upload, SendChunk(u) PROVE SettledAnswers'
    <2>1. CASE Unknown(u)
      BY <1>0, <1>2, <2>1 DEF SendChunk, Sends, Unknown, SettledAnswers
    <2>2. ASSUME NEW w \in Upload, uploadStreams[id[u]] = w, Accept(w, <<u, sent[u] + 1>>),
                 UNCHANGED <<uploadStreams, subject, piped, answers, unknown>>
          PROVE  SettledAnswers'
      <3> DEFINE chunk == <<u, sent[u] + 1>>
      <3>1. chunk \in Upload \X (1..MaxChunk) /\ Accept(w, chunk)
        BY <1>2, <2>2 DEF SendChunk, TypeOK
      <3> HIDE DEF chunk
      <3>2. \A x \in Upload : save'[x] # save[x] => save[x] = "empty" /\ save'[x] = "init"
        BY AcceptEffect, <3>1
      <3> QED
        BY <1>2, <2>2, <3>2 DEF SendChunk, Settled, SettledAnswers
    <2> QED
      BY <1>2, <2>1, <2>2 DEF SendChunk
  <1>3. ASSUME NEW u \in Upload, SendComplete(u) PROVE SettledAnswers'
    <2>1. CASE Unknown(u)
      BY <1>0, <1>3, <2>1 DEF SendComplete, Unknown, SettledAnswers
    <2>2. ASSUME NEW w \in Upload, CompleteSubjects({w}) PROVE SettledAnswers'
      BY <1>3, <2>2, CompleteOutcomes DEF SendComplete
    <2> QED
      BY <1>3, <2>1, <2>2 DEF SendComplete
  <1>4. ASSUME NEW u \in Upload, HalfClose(u) PROVE SettledAnswers'
    BY <1>0, <1>4 DEF HalfClose, TypeOK, SettledAnswers, Alive, Settled
  <1>5. ASSUME NEW u \in Upload, Timeout(u) PROVE SettledAnswers'
    <2>1. /\ save[u] \notin Settled /\ TimedOut \in Codes
          /\ answers'[u] = Answered(u, TimedOut)
          /\ save'[u] = IF TimedOut = <<"saved">> THEN "saved" ELSE "failed"
      BY <1>5, CodesDiffer DEF Timeout, Answer, Codes, Settled, TypeOK, Alive, TimedOut
    <2>2. \A x \in Upload \ {u} : answers'[x] = answers[x] /\ save'[x] = save[x]
      BY <1>5 DEF Timeout, Answer, TypeOK
    <2>3. closed' = closed
      BY <1>5 DEF Timeout, clientVars
    <2> QED
      BY <2>1, <2>2, <2>3, SettledOutcome DEF SettledAnswers
  <1>6. ASSUME NEW u \in Upload, Ages(u) PROVE SettledAnswers'
    BY <1>0, <1>6 DEF Ages, clientVars, TypeOK, SettledAnswers, Alive, Settled
  <1>7. CASE GarbageCollection
    <2>1. Young \subseteq Upload
      BY DEF Young, TypeOK
    <2> QED
      BY <1>7, <2>1, CompleteOutcomes DEF GarbageCollection, clientVars
  <1>8. ASSUME NEW u \in Upload, InitStream(u) PROVE SettledAnswers'
    BY <1>0, <1>8 DEF InitStream, Drained, AfterInit, clientVars, TypeOK, SettledAnswers, Alive, Settled
  <1>9. ASSUME NEW u \in Upload, InitFails(u) PROVE SettledAnswers'
    <2>1. /\ save[u] \notin Settled /\ <<"INTERNAL">> \in Codes
          /\ answers'[u] = Answered(u, <<"INTERNAL">>)
          /\ save'[u] = IF <<"INTERNAL">> = <<"saved">> THEN "saved" ELSE "failed"
      BY <1>9, CodesDiffer DEF InitFails, Answer, Codes, Settled, TypeOK, Alive
    <2>2. \A x \in Upload \ {u} : answers'[x] = answers[x] /\ save'[x] = save[x]
      BY <1>9 DEF InitFails, Answer, TypeOK
    <2>3. closed' = closed
      BY <1>9 DEF InitFails, clientVars
    <2> QED
      BY <2>1, <2>2, <2>3, SettledOutcome DEF SettledAnswers
  <1>10. ASSUME NEW u \in Upload, Commits(u) PROVE SettledAnswers'
    <2>1. /\ save[u] \notin Settled /\ <<"saved">> \in Codes
          /\ answers'[u] = Answered(u, <<"saved">>)
          /\ save'[u] = IF <<"saved">> = <<"saved">> THEN "saved" ELSE "failed"
      BY <1>10, CodesDiffer DEF Commits, Answer, Codes, Settled, TypeOK, Alive
    <2>2. \A x \in Upload \ {u} : answers'[x] = answers[x] /\ save'[x] = save[x]
      BY <1>10 DEF Commits, Answer, TypeOK
    <2>3. closed' = closed
      BY <1>10 DEF Commits, clientVars
    <2> QED
      BY <2>1, <2>2, <2>3, SettledOutcome DEF SettledAnswers
  <1>11. ASSUME NEW u \in Upload, CommitFails(u) PROVE SettledAnswers'
    <2>1. /\ save[u] \notin Settled /\ <<"INTERNAL">> \in Codes
          /\ answers'[u] = Answered(u, <<"INTERNAL">>)
          /\ save'[u] = IF <<"INTERNAL">> = <<"saved">> THEN "saved" ELSE "failed"
      BY <1>11, CodesDiffer DEF CommitFails, Answer, Codes, Settled, TypeOK, Alive
    <2>2. \A x \in Upload \ {u} : answers'[x] = answers[x] /\ save'[x] = save[x]
      BY <1>11 DEF CommitFails, Answer, TypeOK
    <2>3. closed' = closed
      BY <1>11 DEF CommitFails, clientVars
    <2> QED
      BY <2>1, <2>2, <2>3, SettledOutcome DEF SettledAnswers
  <1>12. CASE UNCHANGED vars
    BY <1>0, <1>12 DEF vars, clientVars, TypeOK, SettledAnswers, Alive, Settled
  <1> QED
    BY <1>1, <1>2, <1>3, <1>4, <1>5, <1>6, <1>7, <1>8, <1>9, <1>10, <1>11, <1>12 DEF Next

\* Nothing that another session does reaches an upload that is alone with its
\* id, and its own chunks reach save() in their order.
LEMMA SoleStep == IInv /\ [Next]_vars => Sole'
PROOF
  <1> SUFFICES ASSUME IInv, [Next]_vars PROVE Sole'
    OBVIOUS
  <1>0. TypeOK'
    BY TypeStep DEF IInv
  <1> USE UploadAssumption DEF IInv
  <1>1. ASSUME NEW u \in Upload, NEW i \in Id, Register(u, i) PROVE Sole'
    <2>1. ASSUME NEW x \in Upload, Alone(x)', id'[x] # Null, x \notin collected'
          PROVE  SoleOf(x)'
      <3>2. CASE x = u
        <4>1. sent[u] = 0 /\ input[u] = <<>> /\ u \notin asked
          BY <1>1 DEF Register, Alive
        <4>2. Own(u)' = <<>>
          BY <1>1, <4>1 DEF Register, Own
        <4>3. u \notin unknown
          BY <1>1 DEF Register, Alive
        <4> QED
          BY <1>1, <3>2, <4>1, <4>2, <4>3 DEF Register, Mapped, SoleOf, TypeOK
      <3>3. CASE x # u
        <4>1. id[x] # Null /\ id[x] # i
          BY <1>1, <2>1, <3>3 DEF Register, Alone, TypeOK
        <4>2. Alone(x) /\ x \notin collected
          BY <1>1, <2>1, <3>3, <4>1 DEF Register, Alone, TypeOK
        <4>3. SoleOf(x)
          BY <4>1, <4>2 DEF Sole
        <4> QED
          BY <1>1, <3>3, <4>1, <4>3 DEF Register, Mapped, SoleOf, Own, TypeOK
      <3> QED
        BY <3>2, <3>3
    <2> QED
      BY <2>1 DEF Sole
  <1>2. ASSUME NEW u \in Upload, SendChunk(u) PROVE Sole'
    <2>1. ASSUME NEW x \in Upload, Alone(x)', id'[x] # Null, x \notin collected'
          PROVE  SoleOf(x)'
      <3>1. Alone(x) /\ id[x] # Null /\ x \notin collected /\ SoleOf(x)
        BY <1>2, <2>1 DEF SendChunk, Alone, Sole
      <3>2. CASE Unknown(u)
        <4>1. CASE x = u
          <5>1. answers[u] = TimedOut /\ save[u] = "failed" /\ u \notin piped
            BY <1>2, <3>1, <3>2, <4>1, CodesDiffer
               DEF SendChunk, Sends, Unknown, SoleOf, SettledAnswers, Settled, TypeOK
          <5> QED
            BY <1>2, <3>2, <4>1, <5>1 DEF SendChunk, Unknown, SoleOf
        <4>2. CASE x # u
          BY <1>2, <3>1, <3>2, <4>2 DEF SendChunk, Unknown, SoleOf, Own, TypeOK
        <4> QED
          BY <4>1, <4>2
      <3>3. ASSUME NEW w \in Upload, uploadStreams[id[u]] = w, Accept(w, <<u, sent[u] + 1>>),
                   UNCHANGED <<uploadStreams, subject, piped, answers, unknown>>
            PROVE  SoleOf(x)'
        <4> DEFINE chunk == <<u, sent[u] + 1>>
        <4>1. chunk \in Upload \X (1..MaxChunk) /\ Accept(w, chunk)
          BY <1>2, <3>3 DEF SendChunk, TypeOK
        <4>2. x = w => x = u
          BY <1>2, <3>1, <3>3 DEF SendChunk, Sends, OwnEntries, Alone, TypeOK
        <4>3. Append(Own(u), chunk) = [j \in 1..sent[u] + 1 |-> <<u, j>>]
          <5>1. sent[u] \in Nat
            BY DEF TypeOK
          <5> QED
            BY <5>1, OwnExtends, Zenon DEF Own
        <4> HIDE DEF chunk
        <4>4. CASE x = w /\ x \in piped
          <5>1. x = u /\ sent'[x] = sent[x] + 1
            BY <1>2, <4>2, <4>4 DEF SendChunk, TypeOK
          <5>2. save[x] # "failed" /\ save'[x] # "failed" /\ input'[x] = Append(input[x], chunk)
            BY AcceptEffect, <4>1, <4>4 DEF Alive
          <5>3. input[x] = Own(u)
            BY <3>1, <5>1, <5>2 DEF SoleOf
          <5>4. Own(x)' = [j \in 1..sent[u] + 1 |-> <<u, j>>]
            BY <5>1 DEF Own
          <5>5. input'[x] = Own(x)'
            BY <4>3, <5>2, <5>3, <5>4
          <5> QED
            BY <1>2, <3>1, <3>3, <4>4, <5>2, <5>5 DEF SendChunk, SoleOf
        <4>5. CASE x = w /\ x \notin piped
          <5>1. x = u /\ x \notin asked /\ save[x] = "failed"
            BY <1>2, <3>1, <4>2, <4>5 DEF SendChunk, Sends, SoleOf
          <5> QED
            BY <1>2, <3>1, <3>3, <4>5, <5>1 DEF SendChunk, Accept, SoleOf
        <4>6. CASE x # w
          <5>1. input'[x] = input[x] /\ save'[x] = save[x]
            BY AcceptEffect, <4>1, <4>6
          <5>2. x = u => x \notin piped /\ save[x] = "failed"
            BY <1>2, <3>1, <3>3, <4>6 DEF SendChunk, Sends, SoleOf
          <5>3. x # u => Own(x)' = Own(x)
            BY <1>2 DEF SendChunk, Own, TypeOK
          <5> QED
            BY <1>2, <3>1, <3>3, <5>1, <5>2, <5>3 DEF SendChunk, SoleOf
        <4> QED
          BY <4>4, <4>5, <4>6
      <3> QED
        BY <1>2, <3>2, <3>3 DEF SendChunk
    <2> QED
      BY <2>1 DEF Sole
  <1>3. ASSUME NEW u \in Upload, SendComplete(u) PROVE Sole'
    <2>1. ASSUME NEW x \in Upload, Alone(x)', id'[x] # Null, x \notin collected'
          PROVE  SoleOf(x)'
      <3>1. Alone(x) /\ id[x] # Null /\ x \notin collected /\ SoleOf(x)
        BY <1>3, <2>1 DEF SendComplete, Alone, Sole
      <3>2. CASE Unknown(u)
        <4>1. x = u => answers[x] = TimedOut
          BY <1>3, <3>1, <3>2 DEF SendComplete, Sends, Unknown, SoleOf, TypeOK
        <4>2. x = u => x \notin piped
          BY <1>3, <3>1, <3>2 DEF SendComplete, Sends, Unknown, SoleOf, TypeOK
        <4> QED
          BY <1>3, <3>1, <3>2, <4>1, <4>2 DEF SendComplete, Unknown, SoleOf, Own
      <3>3. ASSUME NEW w \in Upload, uploadStreams[id[u]] = w, CompleteSubjects({w}),
                   UNCHANGED <<input, acked, unknown>>
            PROVE  SoleOf(x)'
        <4>1. x = w => x = u
          BY <1>3, <3>1, <3>3 DEF SendComplete, Sends, OwnEntries, Alone, TypeOK
        <4>2. answers[x] = TimedOut => answers'[x] = TimedOut
          BY <3>3, CodesDiffer DEF CompleteSubjects, SettledAnswers, Settled, TypeOK
        <4>3. CASE x = w
          BY <1>3, <3>1, <3>3, <4>1, <4>2, <4>3
             DEF SendComplete, CompleteSubjects, PipedAfter, SoleOf, Own, TypeOK
        <4>4. CASE x # w
          BY <1>3, <3>1, <3>3, <4>2, <4>4
             DEF SendComplete, CompleteSubjects, PipedAfter, SoleOf, Own, TypeOK
        <4> QED
          BY <4>3, <4>4
      <3> QED
        BY <1>3, <3>2, <3>3 DEF SendComplete
    <2> QED
      BY <2>1 DEF Sole
  <1>4. ASSUME NEW u \in Upload, HalfClose(u) PROVE Sole'
    <2>1. ASSUME NEW x \in Upload, Alone(x)', id'[x] # Null, x \notin collected'
          PROVE  SoleOf(x)'
      <3>1. Alone(x) /\ id[x] # Null /\ x \notin collected /\ SoleOf(x)
        BY <1>4, <2>1 DEF HalfClose, Alone, Sole, clientVars, vars
      <3> QED
        BY <1>4, <3>1 DEF HalfClose, SoleOf, Own
    <2> QED
      BY <2>1 DEF Sole
  <1>5. ASSUME NEW u \in Upload, Timeout(u) PROVE Sole'
    <2>1. ASSUME NEW x \in Upload, Alone(x)', id'[x] # Null, x \notin collected'
          PROVE  SoleOf(x)'
      <3>1. Alone(x) /\ id[x] # Null /\ x \notin collected /\ SoleOf(x)
        BY <1>5, <2>1 DEF Timeout, Alone, Sole, clientVars, vars
      <3>2. CASE x = u
        <4>1. answers[u] = <<>>
          BY <1>5 DEF Timeout, Alive, SettledAnswers, Settled
        <4>2. TimedOut \in Codes
          BY DEF Codes
        <4>3. answers'[u] = Answered(u, TimedOut)
          BY <1>5 DEF Timeout, Answer, TimedOut, TypeOK
        <4>4. u \notin closed => answers'[u] = TimedOut
          BY <4>1, <4>2, <4>3, FirstAnswer
        <4>5. u \notin unknown
          BY <3>1, <3>2, <4>1, CodesDiffer DEF SoleOf
        <4>6. save'[u] = "failed" /\ u \notin piped'
          BY <1>5 DEF Timeout, TypeOK
        <4> QED
          BY <1>5, <3>2, <4>4, <4>5, <4>6 DEF Timeout, SoleOf, clientVars
      <3>3. CASE x # u
        BY <1>5, <3>1, <3>3 DEF Timeout, Forgotten, Answer, SoleOf, Own, Alone, clientVars, TypeOK
      <3> QED
        BY <3>2, <3>3
    <2> QED
      BY <2>1 DEF Sole
  <1>6. ASSUME NEW u \in Upload, Ages(u) PROVE Sole'
    <2>1. ASSUME NEW x \in Upload, Alone(x)', id'[x] # Null, x \notin collected'
          PROVE  SoleOf(x)'
      <3>1. Alone(x) /\ id[x] # Null /\ x \notin collected /\ SoleOf(x)
        BY <1>6, <2>1 DEF Ages, Alone, Sole, clientVars, vars
      <3> QED
        BY <1>6, <3>1 DEF Ages, SoleOf, Own, clientVars
    <2> QED
      BY <2>1 DEF Sole
  <1>7. CASE GarbageCollection
    <2>1. ASSUME NEW x \in Upload, Alone(x)', id'[x] # Null, x \notin collected'
          PROVE  SoleOf(x)'
      <3>1. x \notin Young
        BY <1>7, <2>1 DEF GarbageCollection
      <3>2. Alone(x) /\ id[x] # Null /\ x \notin collected /\ SoleOf(x)
        BY <1>7, <2>1 DEF GarbageCollection, Alone, Sole, clientVars
      <3>3. /\ UNCHANGED <<id, sent, asked, closed, input, unknown>>
            /\ x \in piped' <=> x \in piped
            /\ save'[x] = save[x] /\ answers'[x] = answers[x]
        BY <1>7, <3>1 DEF GarbageCollection, CompleteSubjects, PipedAfter, clientVars, TypeOK
      <3>4. uploadStreams[id[x]] = x => uploadStreams'[id[x]] = x
        BY <1>7, <3>1, <3>2 DEF GarbageCollection, CompleteSubjects, TypeOK
      <3> QED
        BY <3>2, <3>3, <3>4 DEF SoleOf, Own
    <2> QED
      BY <2>1 DEF Sole
  <1>8. ASSUME NEW u \in Upload, InitStream(u) PROVE Sole'
    <2>1. ASSUME NEW x \in Upload, Alone(x)', id'[x] # Null, x \notin collected'
          PROVE  SoleOf(x)'
      <3>1. Alone(x) /\ id[x] # Null /\ x \notin collected /\ SoleOf(x)
        BY <1>8, <2>1 DEF InitStream, Alone, Sole, clientVars, vars
      <3>2. save'[x] = save[x] \/ (save'[x] # "failed" /\ save[x] = "init")
        BY <1>8 DEF InitStream, AfterInit, TypeOK
      <3> QED
        BY <1>8, <3>1, <3>2 DEF InitStream, SoleOf, Own, clientVars
    <2> QED
      BY <2>1 DEF Sole
  <1>9. ASSUME NEW u \in Upload, InitFails(u) PROVE Sole'
    <2>1. ASSUME NEW x \in Upload, Alone(x)', id'[x] # Null, x \notin collected'
          PROVE  SoleOf(x)'
      <3>1. Alone(x) /\ id[x] # Null /\ x \notin collected /\ SoleOf(x)
        BY <1>9, <2>1 DEF InitFails, Alone, Sole, clientVars, vars
      <3>2. answers[x] = TimedOut => answers'[x] = TimedOut
        BY <1>9, CodesDiffer DEF InitFails, Answer, SettledAnswers, Settled, TypeOK
      <3>3. save'[x] # "failed" => save[x] # "failed" /\ (x \in piped' <=> x \in piped)
        BY <1>9 DEF InitFails, TypeOK
      <3> QED
        BY <1>9, <3>1, <3>2, <3>3 DEF InitFails, SoleOf, Own, clientVars
    <2> QED
      BY <2>1 DEF Sole
  <1>10. ASSUME NEW u \in Upload, Commits(u) PROVE Sole'
    <2>1. ASSUME NEW x \in Upload, Alone(x)', id'[x] # Null, x \notin collected'
          PROVE  SoleOf(x)'
      <3>1. Alone(x) /\ id[x] # Null /\ x \notin collected /\ SoleOf(x)
        BY <1>10, <2>1 DEF Commits, Alone, Sole, clientVars, vars
      <3>2. answers[x] = TimedOut => answers'[x] = TimedOut
        BY <1>10, CodesDiffer DEF Commits, Answer, SettledAnswers, Settled, TypeOK
      <3>3. save'[x] # "failed" => save[x] # "failed" /\ (x \in piped' <=> x \in piped)
        BY <1>10 DEF Commits, TypeOK
      <3> QED
        BY <1>10, <3>1, <3>2, <3>3 DEF Commits, SoleOf, Own, clientVars
    <2> QED
      BY <2>1 DEF Sole
  <1>11. ASSUME NEW u \in Upload, CommitFails(u) PROVE Sole'
    <2>1. ASSUME NEW x \in Upload, Alone(x)', id'[x] # Null, x \notin collected'
          PROVE  SoleOf(x)'
      <3>1. Alone(x) /\ id[x] # Null /\ x \notin collected /\ SoleOf(x)
        BY <1>11, <2>1 DEF CommitFails, Alone, Sole, clientVars, vars
      <3>2. answers[x] = TimedOut => answers'[x] = TimedOut
        BY <1>11, CodesDiffer DEF CommitFails, Answer, SettledAnswers, Settled, TypeOK
      <3>3. save'[x] # "failed" => save[x] # "failed" /\ (x \in piped' <=> x \in piped)
        BY <1>11 DEF CommitFails, TypeOK
      <3> QED
        BY <1>11, <3>1, <3>2, <3>3 DEF CommitFails, SoleOf, Own, clientVars
    <2> QED
      BY <2>1 DEF Sole
  <1>12. CASE UNCHANGED vars
    <2>1. ASSUME NEW x \in Upload, Alone(x)', id'[x] # Null, x \notin collected'
          PROVE  SoleOf(x)'
      <3>1. Alone(x) /\ id[x] # Null /\ x \notin collected /\ SoleOf(x)
        BY <1>12, <2>1 DEF Sole, Alone, Sole, clientVars, vars
      <3> QED
        BY <1>12, <3>1 DEF vars, clientVars, SoleOf, Own
    <2> QED
      BY <2>1 DEF Sole
  <1> QED
    BY <1>1, <1>2, <1>3, <1>4, <1>5, <1>6, <1>7, <1>8, <1>9, <1>10, <1>11, <1>12 DEF Next

-----------------------------------------------------------------------------
\* Every step keeps the invariant, part by part.
LEMMA InvStep == IInv /\ [Next]_vars => IInv'
PROOF
  BY TypeStep, EntriesStep, AliveStep, OutcomesStep, AcknowledgedStep, SoleStep DEF IInv

\* The invariant that the claims below follow from.
THEOREM Invariance == Spec => []IInv
PROOF
  BY InitInv, InvStep, PTL DEF Spec

\* Of the answers, only <<"saved">> contains "saved" and only TimedOut "ABORTED".
LEMMA ContainsCode ==
  ASSUME NEW codes \in {<<>>, <<"saved">>, <<"INTERNAL">>, TimedOut}
  PROVE  /\ Contains(codes, "saved") => codes = <<"saved">>
         /\ codes = TimedOut => Contains(codes, "ABORTED")
PROOF
  <1>1. ~Contains(<<>>, "saved") /\ ~Contains(<<"INTERNAL">>, "saved")
    BY DEF Contains
  <1>2. ~Contains(TimedOut, "saved") /\ Contains(TimedOut, "ABORTED")
    <2>1. Len(TimedOut) = 2 /\ TimedOut[1] = "ABORTED" /\ TimedOut[2] = "INTERNAL"
      BY DEF TimedOut
    <2> QED
      BY <2>1 DEF Contains
  <1> HIDE DEF TimedOut
  <1> QED
    BY <1>1, <1>2

(* Every variable stays in its domain.                                     *)
THEOREM TypeCorrect == Spec => []TypeOK
PROOF
  BY Invariance, PTL DEF IInv

(* No chunk and no completion reaches a subject that is closed, for any    *)
(* number of sessions that share request ids (upload, its timer, the       *)
(* collection).                                                            *)
THEOREM EntriesAreOpen == Spec => []MappedIsOpen
PROOF
  BY Invariance, PTL DEF IInv

(* An upload has one outcome, whatever ends it first.                      *)
THEOREM SingleOutcome == Spec => []OneOutcome
PROOF
  <1>1. IInv => OneOutcome
    <2> SUFFICES ASSUME IInv, NEW u \in Upload
                 PROVE  /\ Contains(answers[u], "saved")
                             => answers[u] = <<"saved">> /\ save[u] = "saved"
                        /\ u \notin closed => (save[u] \in Settled <=> answers[u] # <<>>)
      BY DEF OneOutcome
    <2> QED
      BY ContainsCode DEF IInv, SettledAnswers
  <1> QED
    BY <1>1, Invariance, PTL

(* "saved" is answered after the acknowledgement of every chunk of the file. *)
THEOREM AcksPrecedeSaved == Spec => []SavedAfterAcks
PROOF
  <1>1. IInv => SavedAfterAcks
    BY DEF IInv, Acknowledged, SavedAfterAcks
  <1> QED
    BY <1>1, Invariance, PTL

(* What is saved for a session that shares its id with nobody is all that  *)
(* it sent, in order, unless the collection has completed it.              *)
THEOREM SavedAsSent == Spec => []SavedIsSent
PROOF
  <1>1. IInv => SavedIsSent
    <2> SUFFICES ASSUME IInv, NEW u \in Upload, save[u] = "saved", Alone(u), u \notin collected
                 PROVE  u \in asked /\ input[u] = Own(u)
      BY DEF SavedIsSent, Own
    <2>1. id[u] # Null /\ u \notin piped
      BY DEF IInv, Alive
    <2> QED
      BY <2>1 DEF IInv, Sole, SoleOf
  <1> QED
    BY <1>1, Invariance, PTL

(* A session that shares its id with nobody is asked to register only when *)
(* its upload has timed out or was collected.                              *)
THEOREM RegisteredStaysKnown == Spec => []RegisteredIsKnown
PROOF
  <1>1. IInv => RegisteredIsKnown
    <2> SUFFICES ASSUME IInv, NEW u \in unknown, Alone(u), u \notin collected
                 PROVE  Contains(answers[u], "ABORTED")
      BY DEF RegisteredIsKnown
    <2>1. u \in Upload /\ id[u] # Null
      BY DEF IInv, Alive, TypeOK
    <2>2. answers[u] = TimedOut
      BY <2>1 DEF IInv, Sole, SoleOf
    <2> QED
      BY <2>2, ContainsCode
  <1> QED
    BY <1>1, Invariance, PTL

-----------------------------------------------------------------------------
(* The uploadFile helper.  A step of its calls is one of the service or    *)
(* leaves the service alone, so the invariant above holds of the service   *)
(* it talks to.  What the claim needs besides is what a helper has heard,  *)
(* or will hear, of an upload that is alone with its id (Heard): an error  *)
(* only when its save has failed, and "saved" only when it is saved.       *)

\* An outcome that u has received, or that is on its way to it.
Hears(u, m) == m \in told[u] \/ Contains(messages[u], m)

Ending == {"saved", "error"}

\* How the save that an outcome tells of has ended.
Final(m) == IF m = "saved" THEN "saved" ELSE "failed"

ClientTypes ==
  /\ called \subseteq Helper
  /\ plan \in [Helper -> Nat]
  /\ messages \in [Helper -> Seq(Ending)]
  /\ told \in [Helper -> SUBSET Ending]

\* A helper registers after its call, asks for completion after all its chunks,
\* and hears nothing before it has registered.
Follows ==
  \A u \in Helper :
    /\ id[u] # Null => u \in called
    /\ u \in asked => sent[u] = plan[u]
    /\ id[u] = Null => told[u] = {} /\ messages[u] = <<>>

Heard ==
  \A u \in Helper :
    Alone(u) /\ u \notin collected
      => /\ Hears(u, "error") => save[u] = "failed"
         /\ Hears(u, "saved") => save[u] = "saved"

HelperInv == IInv /\ ClientTypes /\ Follows /\ Heard

\* What a step answers an upload is the outcome of its save, and the outcome of
\* a save is final.
Truthful(u) ==
  /\ save[u] \in Settled => save'[u] = save[u]
  /\ answers'[u] # answers[u]
       => /\ answers[u] = <<>>
          /\ save'[u] = IF answers'[u] = <<"saved">> THEN "saved" ELSE "failed"

\* An upload that settles is answered truthfully.
LEMMA SettlingIsTruthful ==
  ASSUME SettledAnswers, NEW u \in Upload, NEW codes \in Codes, save[u] \notin Settled,
         answers'[u] = Answered(u, codes),
         save'[u] = IF codes = <<"saved">> THEN "saved" ELSE "failed"
  PROVE  Truthful(u)
PROOF
  <1>1. answers[u] = <<>>
    BY DEF SettledAnswers
  <1>2. answers'[u] = <<>> \/ answers'[u] = codes
    BY <1>1, FirstAnswer
  <1> QED
    BY <1>1, <1>2 DEF Truthful

\* Completing subjects answers truthfully.
LEMMA CompletingIsTruthful ==
  ASSUME IInv, NEW ws \in SUBSET Upload, CompleteSubjects(ws), NEW u \in Upload
  PROVE  Truthful(u)
PROOF
  <1>1. CASE u \in ws \cap piped /\ save[u] = "empty"
    <2>1. /\ save[u] \notin Settled /\ <<"INTERNAL">> \in Codes
          /\ answers'[u] = Answered(u, <<"INTERNAL">>)
          /\ save'[u] = IF <<"INTERNAL">> = <<"saved">> THEN "saved" ELSE "failed"
      BY <1>1, CodesDiffer DEF CompleteSubjects, Codes, Settled
    <2> QED
      BY <2>1, SettlingIsTruthful DEF IInv
  <1>2. CASE ~(u \in ws \cap piped /\ save[u] = "empty")
    <2>1. answers'[u] = answers[u]
      BY <1>2 DEF CompleteSubjects
    <2>2. save'[u] = save[u] \/ save[u] = "open"
      BY <1>2 DEF CompleteSubjects
    <2> QED
      BY <2>1, <2>2 DEF Truthful, Settled
  <1> QED
    BY <1>1, <1>2

\* Every step of the service answers truthfully.
LEMMA AnswersAreTruthful ==
  ASSUME IInv, [Next]_vars, NEW u \in Upload
  PROVE  Truthful(u)
PROOF
  <1>0. TypeOK /\ Alive /\ SettledAnswers
    BY DEF IInv
  <1>1. CASE UNCHANGED <<save, answers>>
    BY <1>1 DEF Truthful
  <1>2. ASSUME NEW v \in Upload, NEW i \in Id, Register(v, i) PROVE Truthful(u)
    BY <1>1, <1>2 DEF Register
  <1>3. ASSUME NEW v \in Upload, SendChunk(v) PROVE Truthful(u)
    <2>1. CASE Unknown(v)
      BY <1>1, <2>1 DEF Unknown
    <2>2. ASSUME NEW w \in Upload, Accept(w, <<v, sent[v] + 1>>), UNCHANGED answers
          PROVE  Truthful(u)
      <3>1. <<v, sent[v] + 1>> \in Upload \X (1..MaxChunk)
        BY <1>0, <1>3, UploadAssumption DEF SendChunk, TypeOK
      <3>2. save'[u] # save[u] => save[u] = "empty"
        BY <1>0, <2>2, <3>1, AcceptEffect
      <3> QED
        BY <2>2, <3>2 DEF Truthful, Settled
    <2> QED
      BY <1>3, <2>1, <2>2 DEF SendChunk
  <1>4. ASSUME NEW v \in Upload, SendComplete(v) PROVE Truthful(u)
    <2>1. CASE Unknown(v)
      BY <1>1, <2>1 DEF Unknown
    <2>2. ASSUME NEW w \in Upload, CompleteSubjects({w}) PROVE Truthful(u)
      BY <2>2, CompletingIsTruthful
    <2> QED
      BY <1>4, <2>1, <2>2 DEF SendComplete
  <1>5. CASE GarbageCollection
    <2>1. Young \subseteq Upload
      BY <1>0 DEF Young, TypeOK
    <2> QED
      BY <1>5, <2>1, CompletingIsTruthful DEF GarbageCollection
  <1>6. ASSUME NEW v \in Upload, HalfClose(v) \/ Ages(v) PROVE Truthful(u)
    BY <1>1, <1>6 DEF HalfClose, Ages
  <1>7. ASSUME NEW v \in Upload, InitStream(v) PROVE Truthful(u)
    BY <1>0, <1>7 DEF InitStream, Truthful, Settled, TypeOK
  <1>8. ASSUME NEW v \in Upload, NEW codes \in Codes, save[v] \notin Settled,
               Answer(v, codes),
               save' = [save EXCEPT ![v] = IF codes = <<"saved">> THEN "saved" ELSE "failed"]
        PROVE  Truthful(u)
    <2>1. CASE u = v
      <3>1. answers'[u] = Answered(u, codes)
        BY <1>0, <1>8, <2>1 DEF Answer, TypeOK
      <3>2. save'[u] = IF codes = <<"saved">> THEN "saved" ELSE "failed"
        BY <1>0, <1>8, <2>1 DEF TypeOK
      <3> QED
        BY <1>0, <1>8, <2>1, <3>1, <3>2, SettlingIsTruthful
    <2>2. CASE u # v
      BY <1>0, <1>8, <2>2 DEF Answer, Truthful, TypeOK
    <2> QED
      BY <2>1, <2>2
  <1>9. /\ <<"saved">> \in Codes /\ <<"INTERNAL">> \in Codes /\ TimedOut \in Codes
        /\ <<"INTERNAL">> # <<"saved">> /\ TimedOut # <<"saved">>
    BY CodesDiffer DEF Codes
  <1>10. ASSUME NEW v \in Upload, Timeout(v) PROVE Truthful(u)
    <2>1. save[v] \notin Settled
      BY <1>0, <1>10 DEF Timeout, Alive, Settled
    <2>2. Answer(v, TimedOut) /\ save' = [save EXCEPT ![v] = "failed"]
      BY <1>10 DEF Timeout, TimedOut
    <2> QED
      BY <1>8, <1>9, <2>1, <2>2
  <1>11. ASSUME NEW v \in Upload, InitFails(v) \/ Commits(v) \/ CommitFails(v)
         PROVE  Truthful(u)
    <2>1. save[v] \notin Settled
      BY <1>11 DEF InitFails, Commits, CommitFails, Settled
    <2>2. \/ Answer(v, <<"INTERNAL">>) /\ save' = [save EXCEPT ![v] = "failed"]
          \/ Answer(v, <<"saved">>) /\ save' = [save EXCEPT ![v] = "saved"]
      BY <1>11 DEF InitFails, Commits, CommitFails
    <2> QED
      BY <1>8, <1>9, <2>1, <2>2
  <1>12. CASE UNCHANGED vars
    BY <1>1, <1>12 DEF vars
  <1> QED
    BY <1>2, <1>3, <1>4, <1>5, <1>6, <1>7, <1>10, <1>11, <1>12 DEF Next

\* Ids and collections are never taken back: who is alone with its id, and has
\* registered, was so before.
LEMMA AloneBefore ==
  ASSUME IInv, [Next]_vars, NEW u \in Upload
  PROVE  /\ id[u] # Null => id'[u] = id[u]
         /\ id[u] # Null /\ Alone(u)' => Alone(u)
         /\ collected \subseteq collected'
PROOF
  <1>0. id \in [Upload -> Id \cup {Null}]
    BY DEF IInv, TypeOK
  <1>1. ASSUME NEW v \in Upload, NEW i \in Id, Register(v, i)
        PROVE  \A x \in Upload : id[x] # Null => id'[x] = id[x]
    BY <1>0, <1>1 DEF Register
  <1>2. \A x \in Upload : id[x] # Null => id'[x] = id[x]
    BY <1>1 DEF Next, SendChunk, SendComplete, HalfClose, Timeout, Ages, InitStream, InitFails,
                Commits, CommitFails, GarbageCollection, clientVars, vars
  <1>3. collected \subseteq collected'
    BY DEF Next, Register, SendChunk, SendComplete, HalfClose, Timeout, Ages, InitStream,
           InitFails, Commits, CommitFails, GarbageCollection, clientVars, vars
  <1>4. ASSUME id[u] # Null, Alone(u)', NEW x \in Upload \ {u}
        PROVE  id[x] # id[u]
    BY <1>2, <1>4 DEF Alone
  <1> QED
    BY <1>2, <1>3, <1>4 DEF Alone

\* The answers of one step are none, or all there are.
LEMMA LastAnswers ==
  ASSUME NEW S, NEW before \in Seq(S), NEW after \in Seq(S)
  PROVE  /\ after = before => SubSeq(after, Len(before) + 1, Len(after)) = <<>>
         /\ before = <<>> => SubSeq(after, Len(before) + 1, Len(after)) = after
PROOF
  OBVIOUS

\* A member of a concatenation is a member of one of its parts.
LEMMA MembersOfParts ==
  ASSUME NEW S, NEW r \in Seq(S), NEW s \in Seq(S), NEW t \in Seq(S)
  PROVE  /\ r \o (s \o t) \in Seq(S)
         /\ \A x : Contains(r \o (s \o t), x)
                     => Contains(r, x) \/ Contains(s, x) \/ Contains(t, x)
         /\ s = <<>> /\ t = <<>> => r \o (s \o t) = r
PROOF
  <1>1. ASSUME NEW p \in Seq(S), NEW q \in Seq(S), NEW x, Contains(p \o q, x)
        PROVE  Contains(p, x) \/ Contains(q, x)
    <2>1. PICK j \in 1..Len(p) + Len(q) : (p \o q)[j] = x
      BY <1>1 DEF Contains
    <2>2. CASE j \in 1..Len(p)
      BY <2>1, <2>2 DEF Contains
    <2>3. CASE j \notin 1..Len(p)
      <3>1. j - Len(p) \in 1..Len(q) /\ q[j - Len(p)] = x
        BY <2>1, <2>3
      <3> QED
        BY <3>1 DEF Contains
    <2> QED
      BY <2>2, <2>3
  <1>2. s \o t \in Seq(S) /\ r \o (s \o t) \in Seq(S)
    OBVIOUS
  <1>3. s = <<>> /\ t = <<>> => r \o (s \o t) = r
    OBVIOUS
  <1> QED
    BY <1>1, <1>2, <1>3

\* The outcomes that a step of the service has for an upload are those of its
\* save, and the error of a session that was refused.
LEMMA OutcomesOfStep ==
  ASSUME IInv, [Next]_vars, NEW u \in Upload, NEW refused
  PROVE  \E codes, last \in Seq(Ending) :
           /\ Outcomes(u, refused) = codes \o last
           /\ \A x : Contains(codes, x) => x \in Ending /\ save'[u] = Final(x)
           /\ \A x : Contains(last, x) => x = "error" /\ u \in refused
           /\ answers'[u] = answers[u] => codes = <<>>
           /\ u \notin refused => last = <<>>
PROOF
  <1> DEFINE new == SubSeq(answers'[u], Len(answers[u]) + 1, Len(answers'[u]))
             codes == [i \in DOMAIN new |-> Outcome(new[i])]
             last == IF u \in refused THEN <<"error">> ELSE <<>>
  <1>1. /\ answers[u] \in Seq({"saved", "ABORTED", "INTERNAL"})
        /\ answers'[u] \in Seq({"saved", "ABORTED", "INTERNAL"})
        /\ answers'[u] \in {<<>>, <<"saved">>, <<"INTERNAL">>, TimedOut}
    <2>1. TypeOK /\ TypeOK' /\ SettledAnswers'
      BY TypeStep, OutcomesStep DEF IInv
    <2> QED
      BY <2>1 DEF TypeOK, SettledAnswers
  <1>2. \/ answers'[u] = answers[u] /\ new = <<>>
        \/ /\ new = answers'[u] /\ answers'[u] # answers[u]
           /\ save'[u] = IF answers'[u] = <<"saved">> THEN "saved" ELSE "failed"
    BY <1>1, LastAnswers, AnswersAreTruthful DEF Truthful
  <1>3. new \in Seq({"saved", "ABORTED", "INTERNAL"})
    BY <1>1, <1>2
  <1> HIDE DEF new
  <1>4. \A j \in DOMAIN new : \/ new[j] = "saved" /\ save'[u] = "saved"
                              \/ new[j] # "saved" /\ save'[u] = "failed"
    <2>1. CASE new = <<>>
      BY <2>1
    <2>2. CASE new = <<"saved">> /\ save'[u] = "saved"
      BY <2>2
    <2>3. CASE new \in {<<"INTERNAL">>, TimedOut} /\ save'[u] = "failed"
      BY <2>3 DEF TimedOut
    <2> QED
      BY <1>1, <1>2, <2>1, <2>2, <2>3, CodesDiffer
  <1>5. codes \in Seq(Ending) /\ (new = <<>> => codes = <<>>)
    <2>1. DOMAIN new = 1..Len(new) /\ Len(new) \in Nat
      BY <1>3
    <2>2. codes \in [1..Len(new) -> Ending]
      BY <2>1 DEF Outcome, Ending
    <2>3. codes \in Seq(Ending) /\ Len(codes) = Len(new)
      <3> HIDE DEF codes, new
      <3> QED
        BY <2>1, <2>2
    <2> QED
      BY <2>3
  <1>6. \A x : Contains(codes, x) => x \in Ending /\ save'[u] = Final(x)
    <2>1. \A j \in DOMAIN codes : \/ codes[j] = "saved" /\ save'[u] = "saved"
                                  \/ codes[j] = "error" /\ save'[u] = "failed"
      BY <1>4 DEF Outcome
    <2> HIDE DEF codes
    <2> QED
      BY <1>5, <2>1 DEF Contains, Ending, Final
  <1>7. /\ last \in Seq(Ending)
        /\ \A x : Contains(last, x) => x = "error" /\ u \in refused
        /\ u \notin refused => last = <<>>
    <2> HIDE DEF codes
    <2>1. CASE u \in refused
      <3>1. last = <<"error">>
        BY <2>1
      <3> HIDE DEF last
      <3> QED
        BY <2>1, <3>1 DEF Ending, Contains
    <2>2. CASE u \notin refused
      <3>1. last = <<>>
        BY <2>2
      <3> HIDE DEF last
      <3> QED
        BY <2>2, <3>1 DEF Contains
    <2> QED
      BY <2>1, <2>2
  <1>8. Outcomes(u, refused) = codes \o last
    BY DEF Outcomes, new
  <1>9. answers'[u] = answers[u] => codes = <<>>
    BY <1>2, <1>5
  <1> HIDE DEF codes, last
  <1> QED
    BY <1>5, <1>6, <1>7, <1>8, <1>9

\* What Relay adds to the messages of a helper are those outcomes.
LEMMA RelayHears ==
  ASSUME HelperInv, [Next]_vars, NEW refused, Relay(refused)
  PROVE  /\ messages' \in [Helper -> Seq(Ending)]
         /\ UNCHANGED <<called, plan, told>>
         /\ \A u \in Helper :
              /\ Hears(u, "saved")' => Hears(u, "saved") \/ save'[u] = "saved"
              /\ Hears(u, "error")' => Hears(u, "error") \/ save'[u] = "failed" \/ u \in refused
              /\ answers'[u] = answers[u] /\ u \notin refused => messages'[u] = messages[u]
PROOF
  <1>1. messages' = [u \in Helper |-> messages[u] \o Outcomes(u, refused)]
    BY DEF Relay
  <1>2. ASSUME NEW u \in Helper
        PROVE  /\ messages'[u] \in Seq(Ending)
               /\ Hears(u, "saved")' => Hears(u, "saved") \/ save'[u] = "saved"
               /\ Hears(u, "error")' => Hears(u, "error") \/ save'[u] = "failed" \/ u \in refused
               /\ answers'[u] = answers[u] /\ u \notin refused => messages'[u] = messages[u]
    <2>1. u \in Upload /\ IInv
      BY HelperAssumption DEF HelperInv
    <2>2. PICK codes, last \in Seq(Ending) :
            /\ Outcomes(u, refused) = codes \o last
            /\ \A x : Contains(codes, x) => x \in Ending /\ save'[u] = Final(x)
            /\ \A x : Contains(last, x) => x = "error" /\ u \in refused
            /\ answers'[u] = answers[u] => codes = <<>>
            /\ u \notin refused => last = <<>>
      BY <2>1, OutcomesOfStep, Zenon
    <2>3. messages'[u] = messages[u] \o (codes \o last)
      BY <1>1, <2>2
    <2>4. messages[u] \in Seq(Ending)
      BY DEF HelperInv, ClientTypes
    <2>5. /\ messages'[u] \in Seq(Ending)
          /\ \A x : Contains(messages'[u], x)
                      => Contains(messages[u], x) \/ Contains(codes, x) \/ Contains(last, x)
          /\ codes = <<>> /\ last = <<>> => messages'[u] = messages[u]
      <3>1. codes \in Seq(Ending) /\ last \in Seq(Ending)
        BY <2>2
      <3>2. ASSUME NEW r \in Seq(Ending), NEW whole, whole = r \o (codes \o last)
            PROVE  /\ whole \in Seq(Ending)
                   /\ \A x : Contains(whole, x)
                               => Contains(r, x) \/ Contains(codes, x) \/ Contains(last, x)
                   /\ codes = <<>> /\ last = <<>> => whole = r
        BY <3>1, <3>2, MembersOfParts
      <3> QED
        BY <2>3, <2>4, <3>2 DEF Contains
    <2>6. told'[u] = told[u]
      BY DEF Relay
    <2>7. Hears(u, "saved")' => Hears(u, "saved") \/ save'[u] = "saved"
      BY <2>2, <2>5, <2>6 DEF Hears, Final
    <2>8. Hears(u, "error")' => Hears(u, "error") \/ save'[u] = "failed" \/ u \in refused
      BY <2>2, <2>5, <2>6 DEF Hears, Final
    <2> QED
      BY <2>2, <2>5, <2>7, <2>8
  <1>3. UNCHANGED <<called, plan, told>>
    BY DEF Relay
  <1> QED
    BY <1>1, <1>2, <1>3

\* A session that is refused, alone with its id and not collected, has timed out.
LEMMA RefusedHasFailed ==
  ASSUME IInv, NEW u \in Upload, Sends(u), uploadStreams[id[u]] = Null,
         Alone(u), u \notin collected
  PROVE  save[u] = "failed"
PROOF
  <1>1. id[u] # Null /\ u \notin asked
    BY DEF Sends
  <1>2. SoleOf(u)
    BY <1>1 DEF IInv, Sole
  <1> QED
    BY <1>1, <1>2, UploadAssumption DEF SoleOf

\* A step of the service whose outcomes are relayed keeps the invariant, when
\* helpers register after they are called, ask after all their chunks, and are
\* refused only when they have failed.
LEMMA RelayKeeps ==
  ASSUME HelperInv, [Next]_vars, NEW refused, Relay(refused),
         \A u \in Helper :
           /\ u \in refused => /\ id[u] # Null
                               /\ Alone(u) /\ u \notin collected => save[u] = "failed"
           /\ id'[u] # Null => u \in called
           /\ u \in asked' => sent'[u] = plan[u]
  PROVE  HelperInv'
PROOF
  <1>1. IInv /\ IInv' /\ ClientTypes /\ Follows /\ Heard
    BY InvStep DEF HelperInv
  <1>2. UNCHANGED <<called, plan, told>>
    BY DEF Relay
  <1>3. ClientTypes'
    BY <1>1, <1>2, RelayHears DEF ClientTypes
  <1>4. ASSUME NEW u \in Helper, id'[u] = Null
        PROVE  told'[u] = {} /\ messages'[u] = <<>>
    <2>1. u \in Upload /\ id[u] = Null
      BY <1>1, <1>4, AloneBefore, HelperAssumption
    <2>2. answers[u] = <<>> /\ answers'[u] = <<>>
      BY <1>1, <1>4, <2>1 DEF IInv, Alive, SettledAnswers, Settled
    <2>3. u \notin refused
      BY <2>1
    <2>4. messages'[u] = messages[u]
      BY <2>2, <2>3, RelayHears
    <2> QED
      BY <1>1, <1>2, <2>1, <2>4 DEF Follows
  <1>5. Follows'
    BY <1>2, <1>4 DEF Follows
  <1>6. ASSUME NEW u \in Helper, Alone(u)', u \notin collected'
        PROVE  /\ Hears(u, "error")' => save'[u] = "failed"
               /\ Hears(u, "saved")' => save'[u] = "saved"
    <2>1. u \in Upload
      BY HelperAssumption
    <2>2. /\ Hears(u, "saved")' => Hears(u, "saved") \/ save'[u] = "saved"
          /\ Hears(u, "error")' => Hears(u, "error") \/ save'[u] = "failed" \/ u \in refused
      BY RelayHears
    <2>3. CASE id[u] = Null
      <3>1. ~Hears(u, "saved") /\ ~Hears(u, "error")
        BY <1>1, <2>3 DEF Follows, Hears, Contains
      <3> QED
        BY <2>2, <2>3, <3>1
    <2>4. CASE id[u] # Null
      <3>1. Alone(u) /\ u \notin collected
        BY <1>1, <1>6, <2>1, <2>4, AloneBefore
      <3>2. save[u] \in Settled => save'[u] = save[u]
        BY <1>1, <2>1, AnswersAreTruthful DEF Truthful
      <3>3. /\ Hears(u, "error") => save[u] = "failed"
            /\ Hears(u, "saved") => save[u] = "saved"
            /\ u \in refused => save[u] = "failed"
        BY <1>1, <3>1 DEF Heard
      <3> QED
        BY <2>2, <3>2, <3>3 DEF Settled
    <2> QED
      BY <2>3, <2>4
  <1>7. Heard'
    BY <1>6 DEF Heard
  <1> QED
    BY <1>1, <1>3, <1>5, <1>7 DEF HelperInv

\* A session changes what is its own, and the server nothing of the sessions.
LEMMA SessionsApart ==
  ASSUME IInv
  PROVE  /\ \A v \in Upload :
              OtherSession(v)
                => \A u \in Upload \ {v} : /\ id'[u] = id[u] /\ sent'[u] = sent[u]
                                           /\ u \in asked' => u \in asked
         /\ ServerStep => UNCHANGED clientVars
PROOF
  <1>1. TypeOK
    BY DEF IInv
  <1>2. ASSUME NEW v \in Upload, OtherSession(v), NEW u \in Upload \ {v}
        PROVE  id'[u] = id[u] /\ sent'[u] = sent[u] /\ (u \in asked' => u \in asked)
    BY <1>1, <1>2 DEF OtherSession, Register, SendChunk, SendComplete, HalfClose, TypeOK
  <1>3. ServerStep => UNCHANGED clientVars
    BY DEF ServerStep, Timeout, Ages, InitStream, InitFails, Commits, CommitFails,
           GarbageCollection
  <1> QED
    BY <1>2, <1>3

\* What a helper does on its own, and what the server handles of it.
LEMMA HandleStep == ASSUME HelperInv, NEW u \in Helper, Handle(u) PROVE HelperInv'
PROOF
  <1>1. u \in Upload /\ IInv /\ TypeOK /\ Follows
    BY HelperAssumption DEF HelperInv, IInv
  <1>2. OtherSession(u)
    BY DEF Handle, HelperRegisters, HelperChunk, HelperComplete, HelperHalfCloses, OtherSession
  <1>3. [Next]_vars
    BY <1>1, <1>2 DEF OtherSession, Next
  <1>4. \A x \in Helper \ {u} : /\ id'[x] # Null => x \in called
                                /\ x \in asked' => sent'[x] = plan[x]
    BY <1>1, <1>2, SessionsApart, HelperAssumption DEF Follows
  <1>5. u \in called
    BY <1>1 DEF Handle, HelperRegisters, HelperChunk, HelperComplete, HelperHalfCloses,
                SendChunk, SendComplete, HalfClose, Sends, Follows
  <1>6. u \in asked' => sent'[u] = plan[u]
    <2>1. ASSUME NEW i \in Id, HelperRegisters(u, i) PROVE u \in asked' => sent'[u] = plan[u]
      BY <1>1, <2>1 DEF HelperRegisters, Register, Follows
    <2>2. CASE HelperChunk(u)
      BY <2>2 DEF HelperChunk, SendChunk, Sends
    <2>3. CASE HelperComplete(u)
      BY <2>3 DEF HelperComplete, SendComplete
    <2>4. CASE HelperHalfCloses(u)
      BY <1>1, <2>4 DEF HelperHalfCloses, HalfClose, Follows
    <2> QED
      BY <2>1, <2>2, <2>3, <2>4 DEF Handle
  <1>7. CASE Relay({})
    BY <1>3, <1>4, <1>5, <1>6, <1>7, RelayKeeps
  <1>8. CASE /\ HelperChunk(u) \/ HelperComplete(u)
             /\ uploadStreams[id[u]] = Null /\ Relay({u})
    <2>1. Sends(u)
      BY <1>8 DEF HelperChunk, HelperComplete, SendChunk, SendComplete
    <2>2. id[u] # Null /\ (Alone(u) /\ u \notin collected => save[u] = "failed")
      BY <1>1, <1>8, <2>1, RefusedHasFailed DEF Sends
    <2> QED
      BY <1>3, <1>4, <1>5, <1>6, <1>8, <2>2, RelayKeeps
  <1> QED
    BY <1>7, <1>8 DEF Handle

\* Nobody has been called; every step of the calls keeps the invariant.
LEMMA HelperInvariance == ClientSpec => []HelperInv
PROOF
  <1>1. ClientInit => HelperInv
    <2> SUFFICES ASSUME ClientInit PROVE HelperInv
      OBVIOUS
    <2>1. IInv
      BY InitInv DEF ClientInit
    <2>2. /\ ClientTypes
          /\ \A u \in Helper : told[u] = {} /\ messages[u] = <<>>
      BY DEF ClientInit, ClientTypes
    <2>3. \A u \in Helper : ~Hears(u, "error") /\ ~Hears(u, "saved")
      BY <2>2 DEF Hears, Contains
    <2>4. Follows
      BY <2>2, HelperAssumption DEF ClientInit, Init, Follows
    <2> QED
      BY <2>1, <2>2, <2>3, <2>4 DEF HelperInv, Heard
  <1>2. HelperInv /\ [ClientNext]_allVars => HelperInv'
    <2> SUFFICES ASSUME HelperInv, [ClientNext]_allVars PROVE HelperInv'
      OBVIOUS
    <2>1. IInv /\ ClientTypes /\ Follows /\ Heard
      BY DEF HelperInv
    <2>2. ASSUME UNCHANGED vars, ClientTypes', Follows',
                 \A x \in Helper : \A m : Hears(x, m)' => Hears(x, m)
          PROVE  HelperInv'
      <3>1. IInv'
        BY <2>1, <2>2, InvStep
      <3>2. Heard'
        BY <2>1, <2>2 DEF Heard, Alone, vars, clientVars
      <3> QED
        BY <2>2, <3>1, <3>2 DEF HelperInv
    <2>3. ASSUME NEW u \in Helper, NEW n \in 0..MaxChunk, Call(u, n) PROVE HelperInv'
      <3>1. ClientTypes'
        BY <2>1, <2>3, UploadAssumption DEF Call, ClientTypes
      <3>2. u \notin asked
        BY <2>1, <2>3, HelperAssumption DEF Call, Follows, IInv, Alive
      <3>3. Follows'
        BY <2>1, <2>3, <3>2 DEF Call, ClientTypes, Follows, vars, clientVars
      <3>4. \A x \in Helper : \A m : Hears(x, m)' => Hears(x, m)
        BY <2>3 DEF Call, Hears, Contains
      <3> QED
        BY <2>2, <2>3, <3>1, <3>3, <3>4 DEF Call
    <2>4. ASSUME NEW u \in Helper, Deliver(u) PROVE HelperInv'
      <3>1. /\ messages[u] \in Seq(Ending) /\ messages[u] # <<>>
            /\ messages'[u] = Tail(messages[u])
            /\ told'[u] = told[u] \cup {Head(messages[u])}
            /\ \A x \in Helper \ {u} : messages'[x] = messages[x] /\ told'[x] = told[x]
            /\ UNCHANGED <<vars, called, plan>>
        BY <2>1, <2>4 DEF Deliver, ClientTypes
      <3>2. Head(messages[u]) \in Ending /\ Tail(messages[u]) \in Seq(Ending)
        BY <3>1
      <3>3. ClientTypes'
        BY <2>1, <2>4, <3>2 DEF Deliver, ClientTypes
      <3>4. Follows'
        BY <2>1, <3>1 DEF Follows, vars, clientVars
      <3>5. \A m : Contains(Tail(messages[u]), m) \/ m = Head(messages[u])
                     => Contains(messages[u], m)
        BY <3>1 DEF Contains
      <3>6. \A x \in Helper : \A m : Hears(x, m)' => Hears(x, m)
        BY <3>1, <3>5 DEF Hears, Contains
      <3> QED
        BY <2>2, <3>1, <3>3, <3>4, <3>6
    <2>5. ASSUME NEW u \in Upload \ Helper, OtherSession(u), Relay({}) PROVE HelperInv'
      <3>1. [Next]_vars
        BY <2>5 DEF OtherSession, Next
      <3>2. \A x \in Helper : /\ id'[x] # Null => x \in called
                              /\ x \in asked' => sent'[x] = plan[x]
        BY <2>1, <2>5, SessionsApart, HelperAssumption DEF Follows
      <3> QED
        BY <2>5, <3>1, <3>2, RelayKeeps
    <2>6. CASE ServerStep /\ Relay({})
      <3>1. [Next]_vars
        BY <2>6 DEF ServerStep, Next
      <3>2. \A x \in Helper : /\ id'[x] # Null => x \in called
                              /\ x \in asked' => sent'[x] = plan[x]
        BY <2>1, <2>6, SessionsApart DEF Follows, clientVars
      <3> QED
        BY <2>6, <3>1, <3>2, RelayKeeps
    <2>7. CASE UNCHANGED allVars
      <3>1. UNCHANGED <<vars, called, plan, messages, told>>
        BY <2>7 DEF allVars, helperVars
      <3>2. ClientTypes' /\ Follows'
        BY <2>1, <3>1 DEF ClientTypes, Follows, vars, clientVars
      <3>3. \A x \in Helper : \A m : Hears(x, m)' => Hears(x, m)
        BY <3>1 DEF Hears, Contains
      <3> QED
        BY <2>2, <3>1, <3>2, <3>3
    <2> QED
      BY <2>3, <2>4, <2>5, <2>6, <2>7, HandleStep DEF ClientNext
  <1> QED
    BY <1>1, <1>2, PTL DEF ClientSpec

(* A helper that is alone with its id is told the truth of its upload: no  *)
(* file after an error, and after "saved" all the chunks it was called     *)
(* with (uploadFile, upload, the timer).                                   *)
THEOREM HelpersToldTruth == ClientSpec => []ClientToldTruth
PROOF
  <1>1. HelperInv => ClientToldTruth
    <2> SUFFICES ASSUME HelperInv, NEW u \in Helper, Alone(u), u \notin collected
                 PROVE  /\ "error" \in told[u] => save[u] = "failed"
                        /\ "saved" \in told[u] => save[u] = "saved" /\ Len(input[u]) = plan[u]
      BY DEF ClientToldTruth
    <2>1. u \in Upload /\ IInv /\ TypeOK /\ Follows
      BY HelperAssumption DEF HelperInv, IInv
    <2>2. /\ "error" \in told[u] => save[u] = "failed"
          /\ "saved" \in told[u] => save[u] = "saved"
      BY DEF HelperInv, Heard, Hears
    <2>3. ASSUME save[u] = "saved" PROVE Len(input[u]) = plan[u]
      <3>1. id[u] # Null /\ u \notin piped
        BY <2>1, <2>3 DEF IInv, Alive
      <3>2. input[u] = Own(u) /\ u \in asked
        BY <2>1, <2>3, <3>1 DEF IInv, Sole, SoleOf
      <3>3. sent[u] \in Nat /\ sent[u] = plan[u]
        BY <2>1, <3>2 DEF Follows, TypeOK
      <3>4. Len(Own(u)) = sent[u]
        BY <3>3 DEF Own
      <3> QED
        BY <3>2, <3>3, <3>4
    <2> QED
      BY <2>2, <2>3
  <1> QED
    BY <1>1, HelperInvariance, PTL

(* The calls of uploadFile are sessions of the service: whatever holds of  *)
(* every step of the service holds of the steps it takes with helpers.     *)
THEOREM HelpersAreClients == ClientSpec => Spec
PROOF
  <1>1. ClientInit => Init
    BY DEF ClientInit
  <1>2. ASSUME ClientNext PROVE [Next]_vars
    <2>1. ASSUME NEW u \in Helper, Handle(u) PROVE Next
      <3>1. u \in Upload
        BY HelperAssumption
      <3> QED
        BY <2>1, <3>1 DEF Handle, HelperRegisters, HelperChunk, HelperComplete,
                          HelperHalfCloses, Next
    <2>2. ASSUME NEW u \in Helper, Deliver(u) \/ \E n \in 0..MaxChunk : Call(u, n)
          PROVE  UNCHANGED vars
      BY <2>2 DEF Deliver, Call
    <2>3. ASSUME NEW u \in Upload \ Helper, OtherSession(u) PROVE Next
      BY <2>3 DEF OtherSession, Next
    <2>4. ASSUME ServerStep PROVE Next
      BY <2>4 DEF ServerStep, Next
    <2> QED
      BY <1>2, <2>1, <2>2, <2>3, <2>4 DEF ClientNext
  <1>3. [ClientNext]_allVars => [Next]_vars
    BY <1>2 DEF allVars
  <1> QED
    BY <1>1, <1>3, PTL DEF ClientSpec, Spec
=============================================================================
