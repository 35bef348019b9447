---------------------------- MODULE ScanRequests -----------------------------
(***************************************************************************)
(* What the library scan promises to whoever asks for one: one walk of the *)
(* library at a time, and a request is answered only by a walk that began  *)
(* after it was made, so that a file placed before the request is found.   *)
(***************************************************************************)
CONSTANT Requesters

VARIABLES asked,     \* requests not yet answered
          walking,   \* a walk is under way
          covers,    \* the requests it will answer
          answered

vars == <<asked, walking, covers, answered>>

Init == asked = {} /\ walking = FALSE /\ covers = {} /\ answered = {}

Ask(r) ==
  /\ r \notin asked \cup answered
  /\ asked' = asked \cup {r}
  /\ UNCHANGED <<walking, covers, answered>>

Begin ==
  /\ ~walking
  /\ walking' = TRUE /\ covers' = asked
  /\ UNCHANGED <<asked, answered>>

End ==
  /\ walking
  /\ walking' = FALSE /\ covers' = {}
  /\ asked' = asked \ covers /\ answered' = answered \cup covers

\* A walk that panics, or that the process does not survive, answers nobody.
Abort ==
  /\ walking
  /\ walking' = FALSE /\ covers' = {}
  /\ UNCHANGED <<asked, answered>>

\* A request may be turned away before a walk takes it up.
Refuse(r) ==
  /\ r \in asked \ covers
  /\ asked' = asked \ {r}
  /\ UNCHANGED <<walking, covers, answered>>

Next == Begin \/ End \/ Abort \/ \E r \in Requesters : Ask(r) \/ Refuse(r)

Spec == Init /\ [][Next]_vars

=============================================================================
