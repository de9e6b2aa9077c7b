--------------------------- MODULE RequestContract ---------------------------
(***************************************************************************)
(* What a caller of the HTTP transport may rely on for one request,        *)
(* whatever the network does: a bounded number of copies is sent, a second *)
(* one only for an idempotent method and never once the server accepted    *)
(* one, and "ok" is reported only for an accepted request.                 *)
(***************************************************************************)
EXTENDS Naturals

CONSTANT MaxCopies     \* copies of an idempotent request, at most

VARIABLES
  repeatable,   \* may the request be sent again
  copies,       \* copies sent so far
  accepted,     \* has the server answered one of them with a 2xx
  outcome       \* "none", "ok" or "error"

vars == <<repeatable, copies, accepted, outcome>>

Init ==
  /\ repeatable \in BOOLEAN
  /\ copies = 0
  /\ accepted = FALSE
  /\ outcome = "none"

SendCopy ==
  /\ outcome = "none"
  /\ ~accepted
  /\ copies = 0 \/ (repeatable /\ copies < MaxCopies)
  /\ copies' = copies + 1
  /\ UNCHANGED <<repeatable, accepted, outcome>>

Accept ==
  /\ outcome = "none"
  /\ copies > 0
  /\ accepted' = TRUE
  /\ outcome' \in {"none", "ok"}
  /\ UNCHANGED <<repeatable, copies>>

Finish ==
  /\ outcome = "none"
  /\ \/ accepted /\ outcome' = "ok"
     \/ outcome' = "error"
  /\ UNCHANGED <<repeatable, copies, accepted>>

Next == SendCopy \/ Accept \/ Finish

Spec == Init /\ [][Next]_vars
=============================================================================
