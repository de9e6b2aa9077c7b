-------------------------- MODULE MessageBatchProofs --------------------------
(***************************************************************************)
(* What holds of a batched create for any batch size and any input.        *)
(***************************************************************************)
EXTENDS MessageBatch, TLAPS

(* The sequence <<1, ..., n>>, as a property of a sequence. *)
Counts(s) == s \in Seq(Nat) /\ \A i \in 1..Len(s) : s[i] = i

(* The positions of a concatenation. *)
LEMMA Concat ==
  ASSUME NEW s \in Seq(Nat), NEW c \in Seq(Nat)
  PROVE  /\ s \o c \in Seq(Nat)
         /\ Len(s \o c) = Len(s) + Len(c)
         /\ \A i \in 1..Len(s) : (s \o c)[i] = s[i]
         /\ \A i \in 1..Len(s \o c) : i > Len(s) => (s \o c)[i] = c[i - Len(s)]
OBVIOUS

(* Appending the batch that follows its last item to a prefix of the input *)
(* gives a longer prefix, at most Batch items longer.                      *)
LEMMA ChunkExtends ==
  ASSUME NEW s, Counts(s), size \in Nat, Len(s) <= size
  PROVE  /\ Counts(s \o Chunk(Len(s)))
         /\ Len(s \o Chunk(Len(s))) <= size
         /\ Len(s \o Chunk(Len(s))) <= Len(s) + Batch
         /\ Len(s) <= Len(s \o Chunk(Len(s)))
<1>. PICK n : n = Least(Batch, size - Len(s))
  OBVIOUS
<1>. PICK c : c = Chunk(Len(s))
  OBVIOUS
<1>1. n \in Nat /\ n <= Batch /\ Len(s) + n <= size
  BY ConstantsAssumption DEF Least, Counts
<1>2. c = [i \in 1..n |-> Len(s) + i]
  BY DEF Chunk
<1>3. s \in Seq(Nat) /\ Len(s) \in Nat
  BY DEF Counts
<1>4. c \in Seq(Nat) /\ Len(c) = n
  BY <1>1, <1>2, <1>3
<1>5. s \o c \in Seq(Nat) /\ Len(s \o c) = Len(s) + n
  BY <1>3, <1>4, Concat
<1>6. ASSUME NEW i \in 1..Len(s \o c) PROVE (s \o c)[i] = i
  <2>1. CASE i <= Len(s)
    BY <1>3, <1>4, <1>5, <2>1, Concat DEF Counts
  <2>2. CASE i > Len(s)
    <3>1. (s \o c)[i] = c[i - Len(s)] /\ i - Len(s) \in 1..n
      BY <1>1, <1>3, <1>4, <1>5, <2>2, Concat
    <3>. QED BY <1>1, <1>2, <1>3, <3>1
  <2>. QED BY <1>3, <1>5, <2>1, <2>2
<1>7. Counts(s \o c)
  BY <1>5, <1>6 DEF Counts
<1>. QED BY <1>1, <1>3, <1>5, <1>7, ConstantsAssumption

(* What is stored is what was acknowledged, plus the batch under way once  *)
(* the server has it; and when the call has ended, at most the batch that  *)
(* failed is stored without being acknowledged.                            *)
Stored ==
  /\ Counts(got) /\ Counts(log)
  /\ Len(got) <= Len(log) /\ Len(log) <= size /\ Len(log) <= Len(got) + Batch
  /\ net \in {"sent", "refused"} => log = got /\ late = {}
  /\ net = "ok" => log = got \o Chunk(Len(got)) /\ late = {}
  /\ \A p \in late : p = Len(got) /\ log = got

Told ==
  /\ pc = "start" => got = <<>> /\ log = <<>> /\ late = {}
  /\ pc = "posting" => Len(got) < size
  /\ pc \in {"ok", "partial"} => told = got
  /\ pc = "ok" => log = got /\ late = {} /\ Len(got) = size
  /\ pc \in {"start", "posting", "err", "dropped"} => told = <<>>
  /\ pc = "err" /\ op = "messages" => got = <<>>

Flow ==
  /\ op \in {"messages", "conclusions"}
  /\ size \in Sizes
  /\ pc \in {"start", "posting"} \union Final
  /\ net \in {"none", "sent", "ok", "refused", "lost"}
  /\ pc \in {"start"} \union Final <=> net = "none"

Inv == Flow /\ Told /\ Stored

LEMMA InvHolds == Spec => []Inv
<1>1. Init => Inv
  <2> SUFFICES ASSUME Init PROVE Inv
    OBVIOUS
  <2>1. Flow
    BY DEF Init, Flow, Final
  <2>2. Counts(<<>>) /\ Len(<<>>) = 0
    BY DEF Counts
  <2>3. size \in Nat
    BY ConstantsAssumption DEF Init
  <2>4. Told
    BY DEF Init, Told
  <2>5. Stored
    BY <2>2, <2>3, ConstantsAssumption DEF Init, Stored
  <2>. QED BY <2>1, <2>4, <2>5 DEF Inv
<1>2. Inv /\ [Next]_vars => Inv'
  <2> SUFFICES ASSUME Inv, [Next]_vars PROVE Inv'
    OBVIOUS
  <2>1. /\ size \in Nat /\ Flow /\ Told /\ Stored
        /\ got \in Seq(Nat) /\ log \in Seq(Nat) /\ Len(got) \in Nat /\ Len(log) \in Nat
    BY ConstantsAssumption DEF Inv, Flow, Stored, Counts
  <2>2. CASE Begin
    <3>1. Flow'
      BY <2>1, <2>2 DEF Begin, End, Flow, Final
    <3>2. Told'
      BY <2>1, <2>2 DEF Begin, End, Told
    <3>3. /\ net' \in {"none", "sent"} /\ got = <<>> /\ log = <<>> /\ late = {}
          /\ UNCHANGED <<op, size, got, log, late>>
      BY <2>1, <2>2 DEF Begin, End, Told
    <3>4. Stored'
      BY <2>1, <3>3 DEF Stored, Counts
    <3>. QED BY <3>1, <3>2, <3>4 DEF Inv
  <2>3. CASE BatchOk
    <3>. PICK g : g = got \o Chunk(Len(got))
      OBVIOUS
    <3>1. Counts(g) /\ Len(g) \in Nat /\ Len(g) <= size
      BY <2>1, ChunkExtends DEF Stored, Counts
    <3>2. /\ got' = g /\ log = g /\ late = {} /\ pc = "posting"
          /\ UNCHANGED <<op, size, log, late>>
      BY <2>1, <2>3 DEF BatchOk, Stored
    <3>3. CASE Len(g) = size /\ End("ok", g)
      <4>1. Flow'
        BY <2>1, <3>2, <3>3 DEF End, Flow, Final
      <4>2. Told'
        BY <3>2, <3>3 DEF End, Told
      <4>3. Stored'
        BY <2>1, <3>1, <3>2, <3>3, ConstantsAssumption DEF End, Stored
      <4>. QED BY <4>1, <4>2, <4>3 DEF Inv
    <3>4. CASE Len(g) # size /\ net' = "sent" /\ UNCHANGED <<pc, told>>
      <4>1. Flow'
        BY <2>1, <3>2, <3>4 DEF Flow, Final
      <4>2. Told'
        <5>1. Len(g) < size
          BY <2>1, <3>1, <3>4
        <5>2. /\ pc' = "posting" /\ got' = g /\ size' = size
              /\ told' = told /\ told = <<>>
          BY <2>1, <3>2, <3>4 DEF Told
        <5>. QED BY <5>1, <5>2 DEF Told
      <4>3. Stored'
        <5>1. got' = g /\ log' = g /\ late' = {} /\ net' = "sent" /\ size' = size
          BY <3>2, <3>4
        <5>. QED BY <2>1, <3>1, <5>1, ConstantsAssumption DEF Stored
      <4>. QED BY <4>1, <4>2, <4>3 DEF Inv
    <3>. QED BY <2>3, <3>2, <3>3, <3>4 DEF BatchOk
  <2>4. CASE BatchErr
    <3>1. /\ pc = "posting" /\ net' = "none" /\ UNCHANGED <<op, size, got, log, late>>
          /\ \/ pc' = "partial" /\ told' = got
             \/ pc' = "err" /\ told' = <<>> /\ (op = "messages" => got = <<>>)
      BY <2>4 DEF BatchErr, End
    <3>2. Flow' /\ Told'
      BY <2>1, <3>1 DEF Flow, Final, Told
    <3>3. Stored'
      BY <2>1, <3>1 DEF Stored, Counts, Chunk
    <3>. QED BY <3>2, <3>3 DEF Inv
  <2>5. CASE Cancel
    <3>1. /\ pc = "posting" /\ pc' = "dropped" /\ told' = <<>> /\ net' = "none"
          /\ UNCHANGED <<op, size, got, log>>
          /\ late' = late \/ (net = "sent" /\ late' = late \union {Len(got)})
      BY <2>5 DEF Cancel, End
    <3>2. Flow' /\ Told'
      BY <2>1, <3>1 DEF Flow, Final, Told
    <3>3. Stored'
      BY <2>1, <3>1 DEF Stored, Counts, Chunk
    <3>. QED BY <3>2, <3>3 DEF Inv
  <2>6. CASE Serve
    <3>. PICK g : g = got \o Chunk(Len(got))
      OBVIOUS
    <3>1. /\ Counts(g) /\ Len(g) \in Nat /\ Len(g) <= size
          /\ Len(g) <= Len(got) + Batch /\ Len(got) <= Len(g)
      BY <2>1, ChunkExtends DEF Stored, Counts
    <3>2. /\ net = "sent" /\ net' = "ok" /\ log' = g /\ late = {}
          /\ UNCHANGED <<op, size, pc, got, told, late>>
      BY <2>1, <2>6 DEF Serve, Stored
    <3>3. pc = "posting"
      BY <2>1, <3>2 DEF Flow, Final
    <3>4. Flow' /\ Told'
      BY <2>1, <3>2, <3>3 DEF Flow, Final, Told
    <3>5. Chunk(Len(got))' = Chunk(Len(got))
      BY <3>2 DEF Chunk
    <3>6. Stored'
      BY <2>1, <3>1, <3>2, <3>5 DEF Stored
    <3>. QED BY <3>4, <3>6 DEF Inv
  <2>7. CASE Refuse \/ Lose
    <3>1. /\ net \in {"sent", "ok"} /\ net' \in {"refused", "lost"}
          /\ net' = "refused" => net = "sent" /\ late' = late
          /\ UNCHANGED <<op, size, pc, got, told, log>>
          /\ late' = late \/ (net = "sent" /\ late' = late \union {Len(got)})
      BY <2>7 DEF Refuse, Lose
    <3>2. pc = "posting"
      BY <2>1, <3>1 DEF Flow, Final
    <3>3. Flow' /\ Told'
      BY <2>1, <3>1, <3>2 DEF Flow, Final, Told
    <3>4. Stored'
      BY <2>1, <3>1 DEF Stored, Counts, Chunk
    <3>. QED BY <3>3, <3>4 DEF Inv
  <2>8. CASE LateEffect
    <3>. PICK g : g = got \o Chunk(Len(got))
      OBVIOUS
    <3>1. /\ Counts(g) /\ Len(g) \in Nat /\ Len(g) <= size
          /\ Len(g) <= Len(got) + Batch /\ Len(got) <= Len(g)
      BY <2>1, ChunkExtends DEF Stored, Counts
    <3>2. /\ log' = g /\ late # {} /\ late' = {}
          /\ UNCHANGED <<op, size, pc, net, got, told>>
      BY <2>1, <2>8 DEF LateEffect, Stored
    <3>3. net \in {"none", "lost"} /\ pc # "start" /\ pc # "ok"
      BY <2>1, <3>2 DEF Flow, Stored, Told
    <3>4. Flow' /\ Told'
      BY <2>1, <3>2, <3>3 DEF Flow, Told
    <3>5. Stored'
      BY <2>1, <3>1, <3>2, <3>3 DEF Stored
    <3>. QED BY <3>4, <3>5 DEF Inv
  <2>9. CASE UNCHANGED vars
    <3>1. Flow' /\ Told'
      BY <2>1, <2>9 DEF vars, Flow, Told
    <3>2. Stored'
      BY <2>1, <2>9 DEF vars, Stored, Counts, Chunk
    <3>. QED BY <3>1, <3>2 DEF Inv
  <2>. QED
    BY <2>2, <2>3, <2>4, <2>5, <2>6, <2>7, <2>8, <2>9 DEF Next
<1>. QED BY <1>1, <1>2, PTL DEF Spec

-----------------------------------------------------------------------------
(* Every variable keeps its type. *)
THEOREM TypeCorrect == Spec => []TypeOK
<1>1. Inv => TypeOK
  <2> SUFFICES ASSUME Inv PROVE TypeOK
    OBVIOUS
  <2>1. /\ size \in Nat /\ Flow /\ Told /\ Stored
        /\ got \in Seq(Nat) /\ log \in Seq(Nat) /\ Len(got) \in Nat /\ Len(log) \in Nat
    BY ConstantsAssumption DEF Inv, Flow, Stored, Counts
  <2>2. told \in Seq(Nat)
    <3>1. told = got \/ told = <<>>
      BY <2>1 DEF Flow, Told, Final
    <3>2. <<>> \in Seq(Nat)
      OBVIOUS
    <3>3. got \in Seq(Nat)
      BY <2>1
    <3>. QED BY <3>1, <3>2, <3>3, Zenon
  <2>3. late \subseteq 0..size
    BY <2>1 DEF Stored
  <2>4. Len(got) <= Len(log) /\ Len(got) <= size
    BY <2>1 DEF Stored
  <2>. QED BY <2>1, <2>2, <2>3, <2>4 DEF TypeOK, Flow
<1>. QED BY <1>1, InvHolds, PTL

(* The server holds a prefix of the input at all times. *)
THEOREM PrefixStoredHolds == Spec => []PrefixStored
<1>1. Inv => PrefixStored
  BY DEF Inv, Stored, Counts, PrefixStored
<1>. QED BY <1>1, InvHolds, PTL

(* A call that returns Ok has stored its whole input. *)
LEMMA AllStored == Inv => OkStoresAll
  BY DEF Inv, Told, OkStoresAll

(* What add_messages reports is stored, and at most one batch besides; and *)
(* everything, if it returns Ok.                                           *)
THEOREM ReportAccurateHolds == Spec => []ReportAccurate
<1>1. Inv => ReportAccurate
  <2> SUFFICES ASSUME Inv, pc \in {"ok", "err", "partial"}, op = "messages"
               PROVE  /\ \A i \in 1..Len(told) : told[i] = i
                      /\ Len(told) <= Len(log)
                      /\ \A i \in 1..Len(log) : log[i] <= Len(told) + Batch
                      /\ \A p \in late : p <= Len(told)
    BY AllStored DEF ReportAccurate
  <2>1. told = got
    BY DEF Inv, Told
  <2>2. /\ Counts(got) /\ Counts(log) /\ Len(got) \in Nat /\ Len(log) \in Nat
        /\ Len(got) <= Len(log) /\ Len(log) <= Len(got) + Batch
        /\ \A p \in late : p = Len(got)
    BY DEF Inv, Stored, Counts
  <2>3. \A i \in 1..Len(log) : log[i] <= Len(got) + Batch
    BY <2>2, ConstantsAssumption DEF Counts
  <2>. QED BY <2>1, <2>2, <2>3 DEF Counts
<1>. QED BY <1>1, InvHolds, PTL

-----------------------------------------------------------------------------
(* A sequence that counts is a beginning of the input. *)
LEMMA CountsIsBeginning ==
  ASSUME NEW s, Counts(s)
  PROVE  s = Contract!Beginning(Len(s)) /\ Len(s) \in Nat
<1>1. s \in Seq(Nat) /\ Len(s) \in Nat /\ \A i \in 1..Len(s) : s[i] = i
  BY DEF Counts
<1>2. s = [i \in 1..Len(s) |-> s[i]]
  BY <1>1
<1>3. s = [i \in 1..Len(s) |-> i]
  BY <1>1, <1>2
<1>. QED BY <1>1, <1>3 DEF Contract!Beginning

(* Storing the next batch is a step of the contract. *)
LEMMA StoreStep ==
  ASSUME Inv, log = got,
         log' = got \o Chunk(Len(got)), pc \in {"start", "posting"} \/ late # {},
         pc' = pc, late' = {}, UNCHANGED <<op, size, told>>
  PROVE  Contract!Store
<1>. PICK g : g = got \o Chunk(Len(got))
  OBVIOUS
<1>1. /\ size \in Nat /\ Counts(got) /\ Len(got) \in Nat /\ Len(got) <= size
      /\ pc \in {"start", "posting"} \union Final
  BY ConstantsAssumption DEF Inv, Flow, Stored, Counts
<1>2. /\ Counts(g) /\ Len(g) \in Nat /\ Len(g) <= size
      /\ Len(g) <= Len(got) + Batch /\ Len(got) <= Len(g)
  BY <1>1, ChunkExtends DEF Counts
<1>3. log' = Contract!Beginning(Len(g))
  BY <1>2, CountsIsBeginning
<1>4. \E n \in Len(log)..(Len(log) + Batch) : n <= size /\ log' = Contract!Beginning(n)
  BY <1>1, <1>2, <1>3, ConstantsAssumption
<1>. QED BY <1>1, <1>4 DEF Contract!Store, Final

(* The loop over the batches implements the contract of a batched create,  *)
(* for any batch size and any input.                                       *)
THEOREM ImplementsContractHolds == Spec => ImplementsContract
<1>1. Init => Contract!Init
  BY ConstantsAssumption DEF Init, Contract!Init, Final
<1>2. Inv /\ [Next]_vars => Contract!Next \/ UNCHANGED Contract!vars
  <2> SUFFICES ASSUME Inv, [Next]_vars
               PROVE  Contract!Next \/ UNCHANGED Contract!vars
    OBVIOUS
  <2>1. /\ size \in Nat /\ Flow /\ Told /\ Stored /\ Counts(got) /\ Counts(log)
        /\ Len(got) \in Nat /\ Len(log) \in Nat
    BY ConstantsAssumption DEF Inv, Flow, Stored, Counts
  <2>2. CASE Begin
    <3>1. CASE size = 0
      <4>1. log = <<>> /\ told' = <<>> /\ pc' = "ok" /\ late = {} /\ pc = "start"
            /\ UNCHANGED <<op, size, log, late>>
        BY <2>1, <2>2, <3>1 DEF Begin, End, Told
      <4>2. Len(log) = size
        BY <3>1, <4>1
      <4>. QED BY <4>1, <4>2 DEF Contract!Succeed, Contract!Next, Final
    <3>2. CASE size # 0
      BY <2>2, <3>2 DEF Begin, Contract!vars, Final
    <3>. QED BY <3>1, <3>2
  <2>3. CASE BatchOk
    <3>1. got' = log /\ late = {} /\ pc = "posting" /\ UNCHANGED <<op, size, log, late>>
      BY <2>1, <2>3 DEF BatchOk, Stored
    <3>2. CASE Len(log) = size /\ End("ok", log)
      BY <3>1, <3>2 DEF End, Contract!Succeed, Contract!Next, Final
    <3>3. CASE UNCHANGED <<pc, told>>
      BY <3>1, <3>3 DEF Contract!vars
    <3>. QED BY <2>3, <3>1, <3>2, <3>3 DEF BatchOk
  <2>4. CASE BatchErr
    <3>1. pc = "posting" /\ pc' \in {"err", "partial"} /\ UNCHANGED <<op, size, log, late>>
      BY <2>4 DEF BatchErr, End
    <3>2. op # "messages" => told' = <<>>
      BY <2>4 DEF BatchErr, End
    <3>3. op = "messages" => told' = got
      BY <2>4 DEF BatchErr, End
    <3>4. /\ Len(got) \in 0..Len(log) /\ got = Contract!Beginning(Len(got))
          /\ Len(log) <= Len(got) + Batch /\ (late # {} => Len(got) = Len(log))
      BY <2>1, CountsIsBeginning DEF Stored
    <3>5. Contract!Fail
      BY <3>1, <3>2, <3>3, <3>4 DEF Contract!Fail, Final
    <3>. QED BY <3>5 DEF Contract!Next
  <2>5. CASE Cancel
    <3>1. /\ pc = "posting" /\ pc' = "dropped" /\ told' = <<>> /\ told = <<>>
          /\ UNCHANGED <<op, size, log>>
      BY <2>1, <2>5 DEF Cancel, End, Told
    <3>. QED BY <3>1 DEF Contract!Drop, Contract!Next, Final
  <2>6. CASE Serve
    <3>1. net = "sent" /\ log' = log \o Chunk(Len(got)) /\ UNCHANGED <<op, size, pc, told, late>>
      BY <2>6 DEF Serve
    <3>2. log = got /\ late' = {} /\ pc \in {"start", "posting"}
      BY <2>1, <3>1 DEF Stored, Flow, Final
    <3>. QED BY <3>1, <3>2, StoreStep DEF Contract!Next
  <2>7. CASE Refuse \/ Lose
    <3>1. net \in {"sent", "ok"} /\ UNCHANGED <<op, size, pc, told, log>>
      BY <2>7 DEF Refuse, Lose
    <3>2. pc = "posting"
      BY <2>1, <3>1 DEF Flow, Final
    <3>. QED BY <3>1, <3>2 DEF Contract!vars, Final
  <2>8. CASE LateEffect
    <3>1. PICK p \in late : log' = log \o Chunk(p) /\ late' = late \ {p}
      BY <2>8 DEF LateEffect
    <3>2. p = Len(got) /\ log = got /\ late' = {}
      BY <2>1, <3>1 DEF Stored
    <3>3. UNCHANGED <<op, size, pc, told>>
      BY <2>8 DEF LateEffect
    <3>. QED BY <3>1, <3>2, <3>3, StoreStep DEF Contract!Next
  <2>9. CASE UNCHANGED vars
    BY <2>9 DEF vars, Contract!vars
  <2>. QED
    BY <2>2, <2>3, <2>4, <2>5, <2>6, <2>7, <2>8, <2>9 DEF Next
<1>. QED BY <1>1, <1>2, InvHolds, PTL DEF Spec, ImplementsContract, Contract!Spec
=============================================================================
