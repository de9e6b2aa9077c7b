---------------------------- MODULE AppendContract ----------------------------
(***************************************************************************)
(* What a caller of a batched create may rely on, whatever the network     *)
(* does: the server's log of the call is always a beginning of the input,  *)
(* and only grows; what a call that reports its progress does not report   *)
(* as created is at most one batch, which may still be on its way; after   *)
(* "ok" there is nothing more to come.                                     *)
(***************************************************************************)
EXTENDS Naturals, Sequences

CONSTANT Batch     \* items stored at once, at most

VARIABLES
  size,      \* the length of the input
  reports,   \* does an error say what was created before it
  log,       \* the items stored, an item being its position in the input
  told,      \* the items reported as created
  result,    \* "none", "ok", "error" or, of a call given up, "dropped"
  pending    \* may one more batch be stored after the call has ended

vars == <<size, reports, log, told, result, pending>>

Beginning(n) == [i \in 1..n |-> i]

Init ==
  /\ size \in Nat /\ reports \in BOOLEAN
  /\ log = <<>> /\ told = <<>>
  /\ result = "none" /\ pending = FALSE

Store ==
  /\ result = "none" \/ pending
  /\ \E n \in Len(log)..(Len(log) + Batch) : n <= size /\ log' = Beginning(n)
  /\ pending' = FALSE
  /\ UNCHANGED <<size, reports, told, result>>

Succeed ==
  /\ result = "none" /\ Len(log) = size
  /\ result' = "ok" /\ told' = log
  /\ UNCHANGED <<size, reports, log, pending>>

Fail ==
  /\ result = "none"
  /\ result' = "error" /\ pending' \in BOOLEAN
  /\ IF reports
       THEN \E n \in 0..Len(log) : /\ told' = Beginning(n)
                                   /\ Len(log) <= n + Batch
                                   /\ pending' => n = Len(log)
       ELSE told' = <<>>
  /\ UNCHANGED <<size, reports, log>>

Drop ==
  /\ result = "none"
  /\ result' = "dropped" /\ pending' \in BOOLEAN
  /\ UNCHANGED <<size, reports, log, told>>

Next == Store \/ Succeed \/ Fail \/ Drop

Spec == Init /\ [][Next]_vars
=============================================================================
