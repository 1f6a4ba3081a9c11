----------------------------- MODULE FileStore -----------------------------
(***************************************************************************)
(* What the storage of files on disk promises, without paths, inodes,      *)
(* index or timers: a name shows nothing or one whole upload of that name. *)
(* An upload becomes visible at most once, in one step, after all of it    *)
(* has been received; what has been replaced or removed never comes back.  *)
(* A process that dies may lose the uploads it was about to make visible,  *)
(* and nothing else.  An upload can be cut short by a disk that takes no   *)
(* more, and may become visible so, but never after it has been visible    *)
(* whole.                                                                  *)
(***************************************************************************)
CONSTANTS Key, Save, Null

VARIABLES name,      \* the name an upload is for, Null before it starts
          received,  \* uploads whose chunks are all there
          cut,       \* uploads of which the disk has taken a part only
          spent,     \* received uploads that can not become visible any more
          visible    \* what a reader of a name finds

vars == <<name, received, cut, spent, visible>>

Init ==
  /\ name = [s \in Save |-> Null]
  /\ received = {} /\ cut = {} /\ spent = {}
  /\ visible = [k \in Key |-> Null]

Start(s, k) ==
  /\ name[s] = Null
  /\ name' = [name EXCEPT ![s] = k]
  /\ UNCHANGED <<received, cut, spent, visible>>

Receive(s) ==
  /\ name[s] # Null
  /\ s \notin received
  /\ received' = received \cup {s}
  /\ UNCHANGED <<name, cut, spent, visible>>

CutShort(s) ==
  /\ name[s] # Null
  /\ s \notin received
  /\ cut' = cut \cup {s}
  /\ UNCHANGED <<name, received, spent, visible>>

Commit(s) ==
  /\ s \in received \ spent
  /\ spent' = spent \cup {s}
  /\ visible' = [visible EXCEPT ![name[s]] = s]
  /\ UNCHANGED <<name, received, cut>>

Lose(lost) ==
  /\ spent' = spent \cup lost
  /\ UNCHANGED <<name, received, cut, visible>>

Remove(k) ==
  /\ visible' = [visible EXCEPT ![k] = Null]
  /\ UNCHANGED <<name, received, cut, spent>>

Next ==
  \/ \E s \in Save : (\E k \in Key : Start(s, k)) \/ CutShort(s) \/ Receive(s)
                     \/ Commit(s)
  \/ \E lost \in SUBSET received : Lose(lost)
  \/ \E k \in Key : Remove(k)

Spec == Init /\ [][Next]_vars
=============================================================================
