----------------------------- MODULE AtomicStore -----------------------------
(***************************************************************************)
(* What job-store.ts and session.ts promise of the file they keep: updates *)
(* take effect one at a time and stay, and the caller is told of its       *)
(* update only when it is there.                                           *)
(***************************************************************************)
CONSTANT Update

VARIABLES content,        \* the updates the file shows
          acknowledged    \* those whose caller was told so

vars == <<content, acknowledged>>

Init == content = {} /\ acknowledged = {}

Put(u) == /\ u \notin content
          /\ content' = content \cup {u}
          /\ UNCHANGED acknowledged

Acknowledge(u) == /\ u \in content
                  /\ acknowledged' = acknowledged \cup {u}
                  /\ UNCHANGED content

Next == \E u \in Update : Put(u) \/ Acknowledge(u)

Spec == Init /\ [][Next]_vars
=============================================================================
