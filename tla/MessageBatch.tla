---------------------------- MODULE MessageBatch -----------------------------
(***************************************************************************)
(* One call of Session::add_messages (src/src/session.rs) or of            *)
(* ConclusionScope::create (src/src/conclusion.rs): the input is cut into  *)
(* batches of at most Batch items, POSTed one after the other; the first   *)
(* failure ends the call.  An item is its position in the input, and log   *)
(* lists the items of this call in the order the server stored them.       *)
(* A POST is never sent twice, but a copy whose answer was lost may take   *)
(* effect long after the call gave up or was dropped.                      *)
(***************************************************************************)
EXTENDS Naturals, Sequences

CONSTANTS
  Batch,    \* items per request, 100 in the code
  Sizes     \* the lengths of the input

ASSUME ConstantsAssumption ==
  /\ Batch \in Nat \ {0}
  /\ Sizes \subseteq Nat

VARIABLES
  op,      \* "messages" or "conclusions"
  size,    \* the length of the input
  pc,      \* "start", "posting", or how the call ended
  net,     \* the request in flight, or what became of it
  got,     \* `all`: the items acknowledged so far
  told,    \* the items the caller learns were created
  log,     \* the items the server stored
  late     \* batches that may still be stored, by the items before them

vars == <<op, size, pc, net, got, told, log, late>>

Final == {"ok", "err", "partial", "dropped"}

Init ==
  /\ op \in {"messages", "conclusions"}
  /\ size \in Sizes
  /\ pc = "start"
  /\ net = "none"
  /\ got = <<>>
  /\ told = <<>>
  /\ log = <<>>
  /\ late = {}

-----------------------------------------------------------------------------
(* The next batch, after the first p items. *)
Least(a, b) == IF a <= b THEN a ELSE b
Chunk(p) == [i \in 1..Least(Batch, size - p) |-> p + i]

End(how, items) ==
  /\ pc' = how
  /\ told' = items
  /\ net' = "none"

Begin ==
  /\ pc = "start"
  /\ IF size = 0 THEN End("ok", <<>>)
     ELSE pc' = "posting" /\ net' = "sent" /\ UNCHANGED told
  /\ UNCHANGED <<op, size, got, log, late>>

(* The answer holds the batch: go on with the next one, if there is one. *)
BatchOk ==
  /\ pc = "posting"
  /\ net = "ok"
  /\ got' = got \o Chunk(Len(got))
  /\ IF Len(got') = size THEN End("ok", got')
     ELSE net' = "sent" /\ UNCHANGED <<pc, told>>
  /\ UNCHANGED <<op, size, log, late>>

(* Mutant: a batch whose answer was lost is sent again. *)
BatchErrResends ==
  /\ pc = "posting"
  /\ \/ net = "refused" /\ got # <<>> /\ End("partial", got)
     \/ net = "refused" /\ got = <<>> /\ End("err", <<>>)
     \/ net = "lost" /\ net' = "sent" /\ UNCHANGED <<pc, told>>
  /\ UNCHANGED <<op, size, got, log, late>>

(* Mutant: the batches that were acknowledged are not reported. *)
BatchErrForgets ==
  /\ pc = "posting"
  /\ net \in {"refused", "lost"}
  /\ End("err", <<>>)
  /\ UNCHANGED <<op, size, got, log, late>>

(* A batch fails: add_messages reports the earlier ones, create does not. *)
BatchErr ==
  /\ pc = "posting"
  /\ net \in {"refused", "lost"}
  /\ IF op = "messages" /\ got # <<>> THEN End("partial", got)
     ELSE End("err", <<>>)
  /\ UNCHANGED <<op, size, got, log, late>>

(* The caller drops the future; the request may still reach the server. *)
Cancel ==
  /\ pc = "posting"
  /\ End("dropped", <<>>)
  /\ \/ UNCHANGED late
     \/ net = "sent" /\ late' = late \union {Len(got)}
  /\ UNCHANGED <<op, size, got, log>>

-----------------------------------------------------------------------------
(* The server stores a batch as a whole, and the network. *)

Serve ==
  /\ net = "sent"
  /\ net' = "ok"
  /\ log' = log \o Chunk(Len(got))
  /\ UNCHANGED <<op, size, pc, got, told, late>>

Refuse ==
  /\ net = "sent"
  /\ net' = "refused"
  /\ UNCHANGED <<op, size, pc, got, told, log, late>>

(* No answer, or one that does not decode; before or after the effect. *)
Lose ==
  /\ net \in {"sent", "ok"}
  /\ net' = "lost"
  /\ \/ UNCHANGED late
     \/ net = "sent" /\ late' = late \union {Len(got)}
  /\ UNCHANGED <<op, size, pc, got, told, log>>

LateEffect ==
  /\ \E p \in late : log' = log \o Chunk(p) /\ late' = late \ {p}
  /\ UNCHANGED <<op, size, pc, net, got, told>>

Next ==
  \/ Begin \/ BatchOk \/ BatchErr \/ Cancel
  \/ Serve \/ Refuse \/ Lose \/ LateEffect

Spec == Init /\ [][Next]_vars

(* The task is polled, and the timeout of the request bounds the wait. *)
FairSpec ==
  Spec /\ WF_vars(Begin \/ BatchOk \/ BatchErr) /\ WF_vars(Serve \/ Refuse \/ Lose)

-----------------------------------------------------------------------------
(* Every variable has its type, and what was acknowledged is stored. *)
TypeOK ==
  /\ op \in {"messages", "conclusions"}
  /\ size \in Sizes
  /\ pc \in {"start", "posting"} \union Final
  /\ net \in {"none", "sent", "ok", "refused", "lost"}
  /\ got \in Seq(Nat) /\ Len(got) <= size
  /\ told \in Seq(Nat)
  /\ log \in Seq(Nat) /\ Len(got) <= Len(log)
  /\ late \subseteq 0..size
  /\ pc \in {"start"} \union Final <=> net = "none"

(* At every time the server holds a prefix of the input: no item twice,    *)
(* none out of order and none left out, however requests fail or are late. *)
PrefixStored == \A i \in 1..Len(log) : log[i] = i

(* A call that returns Ok has stored all of its input. *)
OkStoresAll == pc = "ok" => Len(told) = size /\ Len(log) = size

(* What add_messages reports is stored, and what it does not report is not *)
(* and never will be, but for the one batch that failed (session.rs:921-   *)
(* 927); all of it when it returns Ok.                                     *)
ReportAccurate ==
  /\ OkStoresAll
  /\ pc \in {"ok", "err", "partial"} /\ op = "messages" =>
       /\ \A i \in 1..Len(told) : told[i] = i
       /\ Len(told) <= Len(log)
       /\ \A i \in 1..Len(log) : log[i] <= Len(told) + Batch
       /\ \A p \in late : p <= Len(told)

(* The contract of a batched create, with the requests hidden. *)
Contract == INSTANCE AppendContract WITH
  reports <- op = "messages",
  result  <- CASE pc \in {"start", "posting"} -> "none"
               [] pc \in {"err", "partial"}   -> "error"
               [] OTHER                       -> pc,
  pending <- pc \in Final /\ late # {}

(* The loop over the batches implements the contract: the log only grows,  *)
(* in order and without a gap, what was not reported is at most one batch, *)
(* and nothing comes after an Ok (session.rs:921-927).                     *)
ImplementsContract == Contract!Spec

(* A call ends, with an answer or an error. *)
Ends == <>(pc \in Final)
=============================================================================
