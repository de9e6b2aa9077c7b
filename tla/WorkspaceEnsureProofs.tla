------------------------ MODULE WorkspaceEnsureProofs ------------------------
(***************************************************************************)
(* What holds of WorkspaceEnsure for any set of calls, any number of       *)
(* retries and any number of resets.                                       *)
(***************************************************************************)
EXTENDS WorkspaceEnsure, TLAPS

(* What a reset and a write of one cell do to the sequence of cells. *)
LEMMA ResetCells ==
  ASSUME TypeOK, ResetEnsure
  PROVE  /\ cells' \in Seq({"empty", "busy", "set"}) /\ cells' # <<>>
         /\ Len(cells') = Len(cells) + 1
         /\ cells'[Len(cells) + 1] = "empty"
         /\ \A c \in 1..Len(cells) : cells'[c] = cells[c]
BY DEF TypeOK, ResetEnsure

LEMMA WriteCell ==
  ASSUME TypeOK, NEW v \in {"empty", "busy", "set"}, NEW c \in 1..Len(cells),
         cells' = [cells EXCEPT ![c] = v]
  PROVE  /\ cells' \in Seq({"empty", "busy", "set"}) /\ cells' # <<>>
         /\ Len(cells') = Len(cells)
         /\ cells'[c] = v
         /\ \A d \in 1..Len(cells) : d # c => cells'[d] = cells[d]
<1>1. DOMAIN cells' = 1..Len(cells) /\ cells' \in Seq({"empty", "busy", "set"})
  BY DEF TypeOK
<1>2. Len(cells') = Len(cells) /\ Len(cells) # 0
  BY <1>1 DEF TypeOK
<1>. QED BY <1>1, <1>2 DEF TypeOK

(* Every state is well typed, and no call holds a cell that was never made. *)
THEOREM TypeCorrect == Spec => []TypeOK
<1> USE ConstantsAssumption
<1>1. Init => TypeOK
  BY DEF Init, TypeOK, Active, Final, Waiting, Answers
<1>2. TypeOK /\ [Next]_vars => TypeOK'
  <2> SUFFICES ASSUME TypeOK, [Next]_vars PROVE TypeOK'
    OBVIOUS
  <2> USE DEF TypeOK, Active, Final, Waiting, Answers, Served, Current, Goto,
              history, net_vars
  <2>1. ASSUME NEW t \in Calls, Start(t) PROVE TypeOK'
    <3>1. CASE StartUse(t)
      BY <3>1 DEF StartUse, Begin
    <3>2. CASE StartForce(t)
      <4>1. /\ cells' \in Seq({"empty", "busy", "set"}) /\ cells' # <<>>
            /\ Len(cells') = Len(cells) + 1
        BY <3>2, ResetCells DEF StartForce
      <4>. QED BY <3>2, <4>1 DEF StartForce, Begin
    <3>3. CASE StartGet(t)
      BY <3>3 DEF StartGet, Begin
    <3>4. CASE StartDelete(t)
      BY <3>4 DEF StartDelete, Begin
    <3>. QED BY <2>1, <3>1, <3>2, <3>3, <3>4 DEF Start
  <2>2. ASSUME NEW t \in Calls, Step(t) PROVE TypeOK'
    <3>1. CASE Snapshot(t)
      BY <3>1 DEF Snapshot
    <3>2. CASE AcquireSet(t)
      BY <3>2 DEF AcquireSet, Ensured
    <3>3. CASE AcquirePermit(t)
      <4>1. /\ cells' \in Seq({"empty", "busy", "set"}) /\ cells' # <<>>
            /\ Len(cells') = Len(cells)
        BY <3>3, WriteCell DEF AcquirePermit
      <4>. QED BY <3>3, <4>1 DEF AcquirePermit
    <3>4. CASE EnsureOk(t)
      <4>1. /\ cells' \in Seq({"empty", "busy", "set"}) /\ cells' # <<>>
            /\ Len(cells') = Len(cells)
        BY <3>4, WriteCell DEF EnsureOk
      <4>. QED BY <3>4, <4>1 DEF EnsureOk, Ensured
    <3>5. CASE EnsureErr(t)
      <4>1. /\ cells' \in Seq({"empty", "busy", "set"}) /\ cells' # <<>>
            /\ Len(cells') = Len(cells)
        BY <3>5, WriteCell DEF EnsureErr
      <4>. QED BY <3>5, <4>1 DEF EnsureErr
    <3>6. CASE UseDone(t)
      BY <3>6 DEF UseDone
    <3>7. CASE GetOk(t)
      <4>1. /\ cells' \in Seq({"empty", "busy", "set"}) /\ cells' # <<>>
            /\ Len(cells') = Len(cells)
        <5>1. CASE cells[Current] = "empty"
          BY <3>7, <5>1, WriteCell, Len(cells) \in 1..Len(cells) DEF GetOk
        <5>2. CASE cells[Current] # "empty"
          BY <3>7, <5>2 DEF GetOk
        <5>. QED BY <5>1, <5>2
      <4>. QED BY <3>7, <4>1 DEF GetOk
    <3>8. CASE GetErr(t)
      BY <3>8 DEF GetErr
    <3>9. CASE DeleteRetry(t)
      BY <3>9 DEF DeleteRetry
    <3>10. CASE DeleteOk(t)
      <4>1. /\ cells' \in Seq({"empty", "busy", "set"}) /\ cells' # <<>>
            /\ Len(cells') = Len(cells) + 1
        BY <3>10, ResetCells DEF DeleteOk
      <4>. QED BY <3>10, <4>1 DEF DeleteOk
    <3>11. CASE DeleteErr(t)
      BY <3>11 DEF DeleteErr
    <3>. QED
      BY <2>2, <3>1, <3>2, <3>3, <3>4, <3>5, <3>6, <3>7, <3>8, <3>9, <3>10, <3>11
      DEF Step
  <2>3. ASSUME NEW t \in Calls, Cancel(t) PROVE TypeOK'
    <3>1. /\ cells' \in Seq({"empty", "busy", "set"}) /\ cells' # <<>>
          /\ Len(cells') = Len(cells)
      BY <2>3, WriteCell DEF Cancel
    <3>. QED BY <2>3, <3>1 DEF Cancel
  <2>4. ASSUME NEW t \in Calls, Serve(t) PROVE TypeOK'
    <3>1. CASE ServeCreate(t)
      BY <3>1 DEF ServeCreate, Answer, Running
    <3>2. CASE ServeUse(t)
      BY <3>2 DEF ServeUse, Answer
    <3>3. CASE ServeDelete(t)
      BY <3>3 DEF ServeDelete, Answer, Removed, Running
    <3>4. CASE ServeReject(t)
      BY <3>4 DEF ServeReject, Answer
    <3>5. CASE Lose(t)
      BY <3>5 DEF Lose, Answer
    <3>. QED BY <2>4, <3>1, <3>2, <3>3, <3>4, <3>5 DEF Serve
  <2>5. CASE OtherCreate
    BY <2>5 DEF OtherCreate
  <2>6. CASE OtherDelete
    BY <2>6 DEF OtherDelete, Removed, Running
  <2>7. CASE UNCHANGED vars
    BY <2>7 DEF vars
  <2>. QED
    BY <2>1, <2>2, <2>3, <2>4, <2>5, <2>6, <2>7 DEF Next
<1>. QED BY <1>1, <1>2, PTL DEF Spec

-----------------------------------------------------------------------------
(* Single flight: t has the create of cell c under way. *)
Posting(t, c) == pc[t] = "posting" /\ cell[t] = c

(* SingleFlight in terms of single calls: a busy cell has a poster, a cell *)
(* with a poster is busy and has no other.                                 *)
FlightInv ==
  \A c \in 1..Len(cells) :
    /\ cells[c] = "busy" => \E t \in Calls : Posting(t, c)
    /\ \A t \in Calls : Posting(t, c) => cells[c] = "busy"
    /\ \A t, u \in Calls : Posting(t, c) /\ Posting(u, c) => t = u

(* A step that touches neither the cells nor who is posting. *)
LEMMA FlightUnchanged ==
  ASSUME FlightInv, UNCHANGED cells,
         \A t \in Calls, c \in Nat : Posting(t, c)' <=> Posting(t, c)
  PROVE  FlightInv'
BY DEF FlightInv

(* A step that makes a fresh cell. *)
LEMMA FlightReset ==
  ASSUME TypeOK, FlightInv, ResetEnsure,
         \A t \in Calls, c \in Nat : Posting(t, c)' <=> Posting(t, c)
  PROVE  FlightInv'
<1> SUFFICES ASSUME NEW c \in 1..Len(cells')
             PROVE  /\ cells'[c] = "busy" => \E t \in Calls : Posting(t, c)
                    /\ \A t \in Calls : Posting(t, c) => cells'[c] = "busy"
                    /\ \A t, u \in Calls : Posting(t, c) /\ Posting(u, c) => t = u
  BY ResetCells DEF FlightInv, TypeOK
<1>1. CASE c \in 1..Len(cells)
  BY <1>1, ResetCells DEF FlightInv
<1>2. CASE c = Len(cells) + 1
  <2>1. \A t \in Calls : ~Posting(t, c)
    BY <1>2 DEF TypeOK, Posting
  <2>. QED BY <1>2, <2>1, ResetCells
<1>. QED BY <1>1, <1>2, ResetCells DEF TypeOK

(* A step that writes the cell c, and after which exactly the calls of P   *)
(* are posting for it.                                                     *)
LEMMA FlightWrite ==
  ASSUME TypeOK, FlightInv,
         NEW v \in {"empty", "busy", "set"}, NEW c \in 1..Len(cells),
         cells' = [cells EXCEPT ![c] = v],
         \A t \in Calls, d \in Nat : d # c => (Posting(t, d)' <=> Posting(t, d)),
         v = "busy" => \E t \in Calls : Posting(t, c)',
         \A t \in Calls : Posting(t, c)' => v = "busy",
         \A t, u \in Calls : Posting(t, c)' /\ Posting(u, c)' => t = u
  PROVE  FlightInv'
<1>1. Len(cells') = Len(cells) /\ cells'[c] = v
      /\ \A d \in 1..Len(cells) : d # c => cells'[d] = cells[d]
  BY WriteCell
<1> SUFFICES ASSUME NEW d \in 1..Len(cells)
             PROVE  /\ cells'[d] = "busy" => \E t \in Calls : Posting(t, d)'
                    /\ \A t \in Calls : Posting(t, d)' => cells'[d] = "busy"
                    /\ \A t, u \in Calls : Posting(t, d)' /\ Posting(u, d)' => t = u
  BY <1>1 DEF FlightInv
<1>2. CASE d = c
  BY <1>1, <1>2
<1>3. CASE d # c
  BY <1>1, <1>3 DEF FlightInv, TypeOK
<1>. QED BY <1>2, <1>3

(* A step that gives the permit of cell c back. *)
LEMMA FlightRelease ==
  ASSUME TypeOK, FlightInv,
         NEW v \in {"empty", "set"}, NEW c \in 1..Len(cells),
         cells' = [cells EXCEPT ![c] = v],
         NEW t \in Calls, Posting(t, c),
         \A u \in Calls, d \in Nat : Posting(u, d)' <=> Posting(u, d) /\ u # t
  PROVE  FlightInv'
<1>1. \A u \in Calls : ~Posting(u, c)'
  BY DEF FlightInv, TypeOK
<1>2. \A u \in Calls, d \in Nat : d # c => (Posting(u, d)' <=> Posting(u, d))
  BY DEF Posting
<1>3. v \in {"empty", "busy", "set"} /\ v # "busy"
  OBVIOUS
<1>. QED BY <1>1, <1>2, <1>3, FlightWrite

(* Single flight holds whatever the calls are and however they end. *)
THEOREM SingleFlightHolds == Spec => []SingleFlight
<1> USE ConstantsAssumption
<1>1. Init => FlightInv
  BY DEF Init, FlightInv, Posting
<1>2. TypeOK /\ FlightInv /\ [Next]_vars => FlightInv'
  <2> SUFFICES ASSUME TypeOK, FlightInv, [Next]_vars PROVE FlightInv'
    OBVIOUS
  <2>1. ASSUME NEW t \in Calls, Start(t) PROVE FlightInv'
    <3>1. \A u \in Calls, c \in Nat : Posting(u, c)' <=> Posting(u, c)
      BY <2>1 DEF Start, StartUse, StartForce, StartGet, StartDelete, Begin,
                  Goto, Posting, TypeOK
    <3>2. UNCHANGED cells \/ ResetEnsure
      BY <2>1 DEF Start, StartUse, StartForce, StartGet, StartDelete
    <3>. QED BY <3>1, <3>2, FlightUnchanged, FlightReset
  <2>2. ASSUME NEW t \in Calls, Step(t) PROVE FlightInv'
    <3>1. CASE \/ Snapshot(t) \/ AcquireSet(t) \/ UseDone(t) \/ GetErr(t)
              \/ DeleteRetry(t) \/ DeleteOk(t) \/ DeleteErr(t)
      <4>1. \A u \in Calls, c \in Nat : Posting(u, c)' <=> Posting(u, c)
        BY <3>1 DEF Snapshot, AcquireSet, Ensured, UseDone, GetErr, DeleteRetry,
                    DeleteOk, DeleteErr, Goto, Posting, TypeOK
      <4>2. UNCHANGED cells \/ ResetEnsure
        BY <3>1 DEF Snapshot, AcquireSet, UseDone, GetErr, DeleteRetry,
                    DeleteOk, DeleteErr
      <4>. QED BY <4>1, <4>2, FlightUnchanged, FlightReset
    <3>2. CASE AcquirePermit(t)
      <4>1. PICK c \in 1..Len(cells) : c = cell[t]
        BY <3>2 DEF AcquirePermit, TypeOK
      <4>2. cells' = [cells EXCEPT ![c] = "busy"]
        BY <3>2, <4>1 DEF AcquirePermit
      <4>3. \A u \in Calls : ~Posting(u, c)
        BY <3>2, <4>1 DEF AcquirePermit, FlightInv
      <4>4. \A u \in Calls, d \in Nat :
              Posting(u, d)' <=> Posting(u, d) \/ (u = t /\ d = c)
        BY <3>2, <4>1 DEF AcquirePermit, Goto, Posting, TypeOK
      <4>5. \A u \in Calls : Posting(u, c)' <=> u = t
        BY <4>3, <4>4, c \in Nat
      <4>6. \A u \in Calls, d \in Nat : d # c => (Posting(u, d)' <=> Posting(u, d))
        BY <4>4
      <4>. QED BY <4>2, <4>5, <4>6, FlightWrite
    <3>3. CASE EnsureOk(t) \/ EnsureErr(t)
      <4>1. PICK c \in 1..Len(cells) : c = cell[t] /\ Posting(t, c)
        BY <3>3 DEF EnsureOk, EnsureErr, TypeOK, Posting
      <4>2. PICK v \in {"empty", "set"} : cells' = [cells EXCEPT ![c] = v]
        BY <3>3, <4>1 DEF EnsureOk, EnsureErr
      <4>3. \A u \in Calls, d \in Nat : Posting(u, d)' <=> Posting(u, d) /\ u # t
        BY <3>3 DEF EnsureOk, EnsureErr, Ensured, Goto, Posting, TypeOK
      <4>. QED BY <4>1, <4>2, <4>3, FlightRelease
    <3>4. CASE GetOk(t)
      <4>1. \A u \in Calls, c \in Nat : Posting(u, c)' <=> Posting(u, c)
        BY <3>4 DEF GetOk, Goto, Posting, TypeOK
      <4>2. CASE cells[Current] = "empty"
        <5>1. PICK c \in 1..Len(cells) : c = Current
          BY DEF TypeOK, Current
        <5>2. \A u \in Calls : ~Posting(u, c)
          BY <4>2, <5>1 DEF FlightInv
        <5>3. cells' = [cells EXCEPT ![c] = "set"]
          BY <3>4, <4>2, <5>1 DEF GetOk
        <5>4. \A u \in Calls : ~Posting(u, c)'
          BY <4>1, <5>2, c \in Nat
        <5>5. \A u \in Calls, d \in Nat : d # c => (Posting(u, d)' <=> Posting(u, d))
          BY <4>1
        <5>. QED BY <5>3, <5>4, <5>5, FlightWrite
      <4>3. CASE cells[Current] # "empty"
        BY <3>4, <4>1, <4>3, FlightUnchanged DEF GetOk
      <4>. QED BY <4>2, <4>3
    <3>. QED BY <2>2, <3>1, <3>2, <3>3, <3>4 DEF Step
  <2>3. ASSUME NEW t \in Calls, Cancel(t) PROVE FlightInv'
    <3>1. \A u \in Calls, c \in Nat : Posting(u, c)' <=> Posting(u, c) /\ u # t
      BY <2>3 DEF Cancel, Goto, Posting, TypeOK
    <3>2. CASE pc[t] = "posting"
      <4>1. PICK c \in 1..Len(cells) : c = cell[t] /\ Posting(t, c)
        BY <3>2 DEF TypeOK, Posting
      <4>2. cells' = [cells EXCEPT ![c] = "empty"]
        BY <2>3, <3>2, <4>1 DEF Cancel
      <4>. QED BY <3>1, <4>1, <4>2, FlightRelease
    <3>3. CASE pc[t] # "posting"
      BY <2>3, <3>1, <3>3, FlightUnchanged DEF Cancel, Posting
    <3>. QED BY <3>2, <3>3
  <2>4. ASSUME NEW t \in Calls, Serve(t) PROVE FlightInv'
    BY <2>4, FlightUnchanged
    DEF Serve, ServeCreate, ServeUse, ServeDelete, ServeReject, Lose, Posting
  <2>5. CASE OtherCreate \/ OtherDelete \/ UNCHANGED vars
    BY <2>5, FlightUnchanged DEF OtherCreate, OtherDelete, vars, Posting
  <2>. QED
    BY <2>1, <2>2, <2>3, <2>4, <2>5 DEF Next
<1>3. TypeOK /\ FlightInv => SingleFlight
  BY DEF FlightInv, SingleFlight, Posts, Posting
<1>. QED BY <1>1, <1>2, <1>3, TypeCorrect, PTL DEF Spec

-----------------------------------------------------------------------------
(* The cache is not stale as long as no call of get_or_create_workspace    *)
(* filled a cell made after it began; the run EnsureStaleFill shows what    *)
(* such a late fill breaks.                                                 *)

(* The call t has a create under way whose answer may fill the cell c. *)
Filling(t, c) == Posting(t, c) \/ (pc[t] = "getting" /\ base[t] = c)

(* A create that was served may make the cell c claim the workspace. *)
Created(c) ==
  \/ cells[c] = "set"
  \/ \E t \in Calls : Filling(t, c) /\ net[t] \in Served

Ensuring(t) == pc[t] \in {"acquire", "posting"}

(* The strengthening of NoStaleEnsure and MissingExplained: a call that is *)
(* not excused saw no removal, so a cell it holds is right about ws.       *)
CacheInv ==
  late = {} =>
  /\ remover # NoCall => Running \subseteq excused
  /\ Created(Current) => ws \/ remover # NoCall
  /\ \A t \in Running \ excused :
       /\ Ensuring(t) /\ Created(cell[t]) => ws
       /\ pc[t] = "using" => ws
  /\ MissingExplained

(* What a step does to the record of the removal: a removal excuses every  *)
(* running call, and only a create or a reset clears it.                   *)
RemovalStep ==
  /\ late \subseteq late'
  /\ excused \subseteq excused'
  /\ ws /\ ~ws' => Running \subseteq excused' /\ remover' # NoCall
  /\ remover # NoCall /\ remover' = NoCall => ws' \/ ResetEnsure
  /\ remover = NoCall /\ remover' # NoCall => Running \subseteq excused'

LEMMA RemovalStepHolds ==
  ASSUME TypeOK, [Next]_vars
  PROVE  RemovalStep
<1> USE ConstantsAssumption DEF RemovalStep, history
<1>1. ASSUME NEW t \in Calls, Start(t) PROVE RemovalStep
  BY <1>1 DEF Start, StartUse, StartForce, StartGet, StartDelete, Begin
<1>2. ASSUME NEW t \in Calls, Step(t) PROVE RemovalStep
  BY <1>2 DEF Step, Snapshot, AcquireSet, AcquirePermit, EnsureOk, EnsureErr,
    UseDone, GetOk, GetErr, DeleteRetry, DeleteOk, DeleteErr
<1>3. ASSUME NEW t \in Calls, Cancel(t) PROVE RemovalStep
  BY <1>3 DEF Cancel
<1>4. ASSUME NEW t \in Calls, Serve(t) PROVE RemovalStep
  BY <1>4 DEF Serve, ServeCreate, ServeUse, ServeDelete, ServeReject, Lose, Removed
<1>5. CASE OtherCreate \/ OtherDelete \/ UNCHANGED vars
  BY <1>5 DEF OtherCreate, OtherDelete, Removed, vars
<1>. QED BY <1>1, <1>2, <1>3, <1>4, <1>5 DEF Next

(* What a step does to one call u: how it comes to run, to hold a cell, to *)
(* send the request that needs the workspace, and to have that refused.    *)
CallStep(u) ==
  /\ pc'[u] \in Active => pc[u] \in Active \/ pc'[u] \in {"snapshot", "deleting", "getting"}
  /\ pc'[u] \in Active /\ pc[u] \notin Active =>
       /\ remover' = remover
       /\ remover # NoCall => u \in excused'
  /\ pc'[u] = "getting" =>
       (pc[u] = "getting" /\ base'[u] = base[u]) \/ base'[u] = Current
  /\ Ensuring(u)' =>
       \/ Ensuring(u) /\ cell'[u] = cell[u]
       \/ pc[u] = "snapshot" /\ cell'[u] = Current
  /\ pc'[u] = "using" => pc[u] = "using" \/ (Ensuring(u) /\ Created(cell[u]))
  /\ pc'[u] = "using" /\ net'[u] = "missing" =>
       pc[u] = "using" /\ (net[u] = "missing" \/ ~ws)

LEMMA CallStepHolds ==
  ASSUME TypeOK, [Next]_vars, NEW u \in Calls
  PROVE  CallStep(u)
<1> USE DEF CallStep, Ensuring, Active, Waiting, Goto, history, net_vars, TypeOK
<1>1. ASSUME NEW t \in Calls, Start(t) PROVE CallStep(u)
  BY <1>1 DEF Start, StartUse, StartForce, StartGet, StartDelete, Begin
<1>2. ASSUME NEW t \in Calls, Step(t) PROVE CallStep(u)
  <2>1. CASE Snapshot(t)
    BY <2>1 DEF Snapshot
  <2>2. CASE AcquireSet(t)
    BY <2>2 DEF AcquireSet, Ensured, Created
  <2>3. CASE AcquirePermit(t)
    BY <2>3 DEF AcquirePermit
  <2>4. CASE EnsureOk(t)
    BY <2>4 DEF EnsureOk, Ensured, Created, Filling, Posting
  <2>5. CASE EnsureErr(t)
    BY <2>5 DEF EnsureErr
  <2>6. CASE UseDone(t) \/ GetOk(t) \/ GetErr(t) \/ DeleteOk(t) \/ DeleteErr(t)
    BY <2>6 DEF UseDone, GetOk, GetErr, DeleteOk, DeleteErr
  <2>7. CASE DeleteRetry(t)
    BY <2>7 DEF DeleteRetry
  <2>. QED BY <1>2, <2>1, <2>2, <2>3, <2>4, <2>5, <2>6, <2>7 DEF Step
<1>3. ASSUME NEW t \in Calls, Cancel(t) PROVE CallStep(u)
  BY <1>3 DEF Cancel
<1>4. ASSUME NEW t \in Calls, Serve(t) PROVE CallStep(u)
  BY <1>4 DEF Serve, ServeCreate, ServeUse, ServeDelete, ServeReject, Lose, Answer
<1>5. CASE OtherCreate \/ OtherDelete \/ UNCHANGED vars
  BY <1>5 DEF OtherCreate, OtherDelete, vars
<1>. QED BY <1>1, <1>2, <1>3, <1>4, <1>5 DEF Next

(* A served create of cell c was under way before, or is served now. *)
LEMMA ServedStep ==
  ASSUME TypeOK, [Next]_vars, NEW c \in Nat, NEW u \in Calls,
         Filling(u, c)', net'[u] \in Served
  PROVE  \/ Filling(u, c) /\ net[u] \in Served
         \/ ws' /\ Running \subseteq fresh'
<1> DEFINE P == \/ Filling(u, c) /\ net[u] \in Served
                \/ ws' /\ Running \subseteq fresh'
<1> USE DEF Filling, Posting, Goto, history, net_vars, Served, TypeOK
<1>1. ASSUME NEW t \in Calls, Start(t) PROVE P
  BY <1>1 DEF Start, StartUse, StartForce, StartGet, StartDelete, Begin
<1>2. ASSUME NEW t \in Calls, Step(t) PROVE P
  BY <1>2 DEF Step, Snapshot, AcquireSet, AcquirePermit, EnsureOk, EnsureErr, Ensured,
    UseDone, GetOk, GetErr, DeleteRetry, DeleteOk, DeleteErr
<1>3. ASSUME NEW t \in Calls, Cancel(t) PROVE P
  BY <1>3 DEF Cancel
<1>4. ASSUME NEW t \in Calls, Serve(t) PROVE P
  BY <1>4 DEF Serve, ServeCreate, ServeUse, ServeDelete, ServeReject, Lose, Answer
<1>5. CASE OtherCreate \/ OtherDelete \/ UNCHANGED vars
  BY <1>5 DEF OtherCreate, OtherDelete, vars
<1>. QED BY <1>1, <1>2, <1>3, <1>4, <1>5 DEF Next

(* A cell is set only if it was, or by the call whose create was served. *)
LEMMA SetStep ==
  ASSUME TypeOK, [Next]_vars, late' = {}
  PROVE  /\ Len(cells') = Len(cells) \/ Len(cells') = Len(cells) + 1
         /\ \A c \in 1..Len(cells') :
              cells'[c] = "set" => c <= Len(cells) /\ Created(c)
<1> DEFINE P == /\ Len(cells') = Len(cells) \/ Len(cells') = Len(cells) + 1
                /\ \A c \in 1..Len(cells') :
                     cells'[c] = "set" => c <= Len(cells) /\ Created(c)
<1>1. ASSUME UNCHANGED cells PROVE P
  BY <1>1 DEF TypeOK, Created
<1>2. ASSUME ResetEnsure PROVE P
  BY <1>2, ResetCells DEF TypeOK, Created
<1>3. ASSUME NEW c \in 1..Len(cells), NEW v \in {"empty", "busy"},
             cells' = [cells EXCEPT ![c] = v]
      PROVE  P
  <2>1. v \in {"empty", "busy", "set"} /\ v # "set"
    OBVIOUS
  <2>. QED BY <1>3, <2>1, WriteCell DEF TypeOK, Created
<1>4. ASSUME NEW t \in Calls, Start(t) PROVE P
  BY <1>1, <1>2, <1>4 DEF Start, StartUse, StartForce, StartGet, StartDelete
<1>5. ASSUME NEW t \in Calls, Step(t) PROVE P
  <2>1. CASE AcquirePermit(t) \/ EnsureErr(t)
    <3>1. cell[t] \in 1..Len(cells)
      BY <2>1 DEF AcquirePermit, EnsureErr, TypeOK
    <3>. QED BY <2>1, <3>1, <1>3 DEF AcquirePermit, EnsureErr
  <2>2. CASE EnsureOk(t)
    <3>1. /\ cell[t] \in 1..Len(cells) /\ Created(cell[t])
          /\ cells' = [cells EXCEPT ![cell[t]] = "set"]
      BY <2>2 DEF EnsureOk, TypeOK, Created, Filling, Posting
    <3>. QED BY <3>1, WriteCell DEF Created, TypeOK
  <2>3. CASE \/ Snapshot(t) \/ AcquireSet(t) \/ UseDone(t) \/ GetErr(t)
             \/ DeleteRetry(t) \/ DeleteOk(t) \/ DeleteErr(t)
    BY <2>3, <1>1, <1>2
    DEF Snapshot, AcquireSet, UseDone, GetErr, DeleteRetry, DeleteOk, DeleteErr
  <2>4. CASE GetOk(t)
    <3>1. CASE cells[Current] = "empty"
      <4>1. Current \in 1..Len(cells) /\ base[t] = Current
        BY <2>4, <3>1 DEF GetOk, TypeOK, Current
      <4>2. Created(Current) /\ cells' = [cells EXCEPT ![Current] = "set"]
        BY <2>4, <3>1, <4>1 DEF GetOk, Created, Filling, Served
      <4>. QED BY <4>1, <4>2, WriteCell DEF Created, TypeOK
    <3>2. CASE UNCHANGED cells
      BY <1>1, <3>2
    <3>. QED BY <2>4, <3>1, <3>2 DEF GetOk
  <2>. QED BY <1>5, <2>1, <2>2, <2>3, <2>4 DEF Step
<1>6. ASSUME NEW t \in Calls, Cancel(t) PROVE P
  <2>1. pc[t] = "posting" => cell[t] \in 1..Len(cells)
    BY DEF TypeOK
  <2>. QED BY <1>1, <1>3, <1>6, <2>1 DEF Cancel
<1>7. ASSUME NEW t \in Calls, Serve(t) PROVE P
  BY <1>1, <1>7 DEF Serve, ServeCreate, ServeUse, ServeDelete, ServeReject, Lose
<1>8. CASE OtherCreate \/ OtherDelete \/ UNCHANGED vars
  BY <1>1, <1>8 DEF OtherCreate, OtherDelete, vars
<1>. QED BY <1>4, <1>5, <1>6, <1>7, <1>8 DEF Next

(* Both together: a cell is Created only if it was, or by a create that is *)
(* served now and makes every running call fresh.                          *)
LEMMA CreatedStep ==
  ASSUME TypeOK, TypeOK', [Next]_vars, late' = {},
         NEW c \in 1..Len(cells'), Created(c)'
  PROVE  \/ c <= Len(cells) /\ Created(c)
         \/ ws' /\ Running \subseteq fresh'
<1>1. CASE cells'[c] = "set"
  BY <1>1, SetStep
<1>2. CASE \E u \in Calls : Filling(u, c)' /\ net'[u] \in Served
  <2>1. PICK u \in Calls : \/ Filling(u, c) /\ net[u] \in Served
                           \/ ws' /\ Running \subseteq fresh'
    BY <1>2, ServedStep, c \in Nat
  <2>. QED BY <2>1 DEF Created, Filling, Posting, TypeOK
<1>. QED BY <1>1, <1>2 DEF Created

LEMMA CacheInvStep ==
  ASSUME TypeOK, TypeOK', CacheInv, [Next]_vars
  PROVE  CacheInv'
<1> SUFFICES ASSUME late' = {} PROVE CacheInv'
  BY DEF CacheInv
<1>1. \A u \in Calls : CallStep(u)
  BY CallStepHolds
<1>2. RemovalStep
  BY RemovalStepHolds
<1>3. late = {}
  BY <1>2 DEF RemovalStep
<1>4. remover' # NoCall => Running' \subseteq excused'
  BY <1>1, <1>2, <1>3 DEF CacheInv, RemovalStep, CallStep, Running
<1>5. ASSUME Created(Current)', ~ws', remover' = NoCall PROVE FALSE
  <2>1. PICK c \in 1..Len(cells') : c = Len(cells') /\ Created(c)'
    BY <1>5 DEF Current, TypeOK
  <2>2. c <= Len(cells) /\ Created(c) /\ Len(cells') >= Len(cells)
    <3>1. c \in 1..Len(cells') /\ Created(c)' /\ ~ws'
      BY <1>5, <2>1
    <3>2. c <= Len(cells) /\ Created(c)
      BY <3>1, CreatedStep
    <3>3. Len(cells') = Len(cells) \/ Len(cells') = Len(cells) + 1
      BY SetStep
    <3>. QED BY <3>2, <3>3 DEF TypeOK
  <2>3. c = Current /\ ~ResetEnsure
    BY <2>1, <2>2, ResetCells DEF Current, TypeOK
  <2>4. ws \/ remover # NoCall
    BY <1>3, <2>2, <2>3 DEF CacheInv
  <2>. QED BY <1>2, <1>5, <2>3, <2>4 DEF RemovalStep, TypeOK
<1>6. ASSUME NEW t \in Running' \ excused', ~ws',
             \/ Ensuring(t)' /\ Created(cell[t])'
             \/ pc'[t] = "using"
      PROVE  FALSE
  <2>1. t \in Calls /\ t \notin excused /\ (t \in Running => ~ws)
    BY <1>2, <1>6 DEF Running, RemovalStep, TypeOK
  <2>2. CASE Ensuring(t)' /\ Created(cell[t])'
    <3>1. PICK c \in 1..Len(cells') : c = cell'[t] /\ Created(c)'
      BY <2>1, <2>2 DEF TypeOK, Ensuring
    <3>2. Created(c)
      BY <1>1, <1>6, <3>1, CreatedStep
    <3>3. t \in Running /\ ((Ensuring(t) /\ c = cell[t]) \/ c = Current)
      BY <1>1, <2>1, <2>2, <3>1
      DEF CallStep, Running, Ensuring, Active
    <3>. QED BY <1>3, <2>1, <3>2, <3>3 DEF CacheInv
  <2>3. CASE pc'[t] = "using"
    <3>1. pc[t] = "using" \/ (Ensuring(t) /\ Created(cell[t]))
      BY <1>1, <2>1, <2>3 DEF CallStep
    <3>2. t \in Running
      BY <2>1, <3>1 DEF Running, Ensuring, Active, Waiting
    <3>. QED BY <1>3, <2>1, <3>1, <3>2 DEF CacheInv
  <2>. QED BY <1>6, <2>2, <2>3
<1>7. MissingExplained'
  <2> SUFFICES ASSUME NEW t \in Calls, pc'[t] = "using", net'[t] = "missing"
               PROVE  t \in excused'
    BY DEF MissingExplained
  <2>1. pc[t] = "using" /\ (net[t] = "missing" \/ ~ws)
    BY <1>1 DEF CallStep
  <2>2. t \in Running
    BY <2>1 DEF Running, Active, Waiting
  <2>. QED BY <1>2, <1>3, <2>1, <2>2 DEF CacheInv, MissingExplained, RemovalStep
<1>. QED BY <1>3, <1>4, <1>5, <1>6, <1>7 DEF CacheInv

LEMMA CacheInvHolds == Spec => []CacheInv
<1>1. Init => CacheInv
  <2> SUFFICES ASSUME Init PROVE CacheInv
    OBVIOUS
  <2>1. Current = 1 /\ cells[1] = "empty" /\ remover = NoCall
    BY DEF Init, Current
  <2>2. \A t \in Calls : pc[t] = "idle"
    BY DEF Init
  <2>3. Running = {}
    BY <2>2 DEF Running, Active, Waiting
  <2>. QED
    BY <2>1, <2>2, <2>3 DEF CacheInv, Created, Filling, Posting, MissingExplained
<1>2. TypeOK /\ TypeOK' /\ CacheInv /\ [Next]_vars => CacheInv'
  BY CacheInvStep
<1>. QED BY <1>1, <1>2, TypeCorrect, PTL DEF Spec

(* A set cell and a missing workspace mean a removal nobody has reset, as  *)
(* long as no get_or_create_workspace has filled a cell late.              *)
THEOREM StaleOnlyByLateFillHolds == Spec => []StaleOnlyByLateFill
<1>1. CacheInv => StaleOnlyByLateFill
  BY DEF CacheInv, StaleOnlyByLateFill, NoStaleEnsure, Created
<1>. QED BY <1>1, CacheInvHolds, PTL

(* A call is refused for a missing workspace only after a removal it could *)
(* not know of, as long as no cell was filled late.                        *)
THEOREM MissingExplainedHolds == Spec => []MissingExplained
<1>1. CacheInv => MissingExplained
  BY DEF CacheInv, MissingExplained
<1>. QED BY <1>1, CacheInvHolds, PTL

-----------------------------------------------------------------------------
(* force_ensure: the cell it made, and every later one, is only ever filled *)
(* by a create that is served after the call began.                         *)
ForcePc == {"snapshot", "acquire", "posting"}

FreshInv ==
  late = {} => \A t \in Calls : op[t] = "force" =>
    /\ pc[t] \in ForcePc \union Final
    /\ pc[t] = "snapshot" => base[t] <= Len(cells)
    /\ Ensuring(t) => base[t] <= cell[t]
    /\ pc[t] \in ForcePc =>
         \A c \in 1..Len(cells) : base[t] <= c /\ Created(c) => t \in fresh
    /\ pc[t] = "ok" => t \in fresh

(* What a step does to a call u that runs force_ensure. *)
ForceStep(u) ==
  /\ fresh \subseteq fresh'
  /\ \/ pc'[u] = "snapshot" /\ base'[u] = Len(cells) + 1 /\ ResetEnsure
     \/ /\ op[u] = "force"
        /\ base'[u] = base[u]
        /\ pc'[u] \in ForcePc \union Final
        /\ pc'[u] = "snapshot" => pc[u] = "snapshot"
        /\ pc'[u] \in ForcePc => pc[u] \in ForcePc
        /\ pc'[u] = "ok" => pc[u] = "ok" \/ (Ensuring(u) /\ Created(cell[u]))

LEMMA ForceStepHolds ==
  ASSUME TypeOK, [Next]_vars, NEW u \in Calls, op'[u] = "force",
         op[u] = "force" => pc[u] \in ForcePc \union Final
  PROVE  ForceStep(u)
<1> USE DEF ForceStep, ForcePc, Final, Ensuring, Goto, history, net_vars, TypeOK
<1>1. ASSUME NEW t \in Calls, Start(t) PROVE ForceStep(u)
  <2>1. CASE StartForce(t)
    BY <2>1 DEF StartForce, Begin, Current
  <2>2. CASE StartUse(t) \/ StartGet(t) \/ StartDelete(t)
    BY <2>2 DEF StartUse, StartGet, StartDelete, Begin
  <2>. QED BY <1>1, <2>1, <2>2 DEF Start
<1>2. ASSUME NEW t \in Calls, Step(t) PROVE ForceStep(u)
  <2>1. CASE Snapshot(t)
    BY <2>1 DEF Snapshot
  <2>2. CASE AcquireSet(t)
    BY <2>2 DEF AcquireSet, Ensured, Created
  <2>3. CASE AcquirePermit(t)
    BY <2>3 DEF AcquirePermit
  <2>4. CASE EnsureOk(t)
    BY <2>4 DEF EnsureOk, Ensured, Created, Filling, Posting
  <2>5. CASE EnsureErr(t)
    BY <2>5 DEF EnsureErr
  <2>6. CASE UseDone(t) \/ GetOk(t) \/ GetErr(t) \/ DeleteOk(t) \/ DeleteErr(t)
    BY <2>6 DEF UseDone, GetOk, GetErr, DeleteOk, DeleteErr
  <2>7. CASE DeleteRetry(t)
    BY <2>7 DEF DeleteRetry
  <2>. QED BY <1>2, <2>1, <2>2, <2>3, <2>4, <2>5, <2>6, <2>7 DEF Step
<1>3. ASSUME NEW t \in Calls, Cancel(t) PROVE ForceStep(u)
  BY <1>3 DEF Cancel, Active, Waiting
<1>4. ASSUME NEW t \in Calls, Serve(t) PROVE ForceStep(u)
  BY <1>4 DEF Serve, ServeCreate, ServeUse, ServeDelete, ServeReject, Lose, Answer
<1>5. CASE OtherCreate \/ OtherDelete \/ UNCHANGED vars
  BY <1>5 DEF OtherCreate, OtherDelete, vars
<1>. QED BY <1>1, <1>2, <1>3, <1>4, <1>5 DEF Next

LEMMA FreshInvStep ==
  ASSUME TypeOK, TypeOK', FreshInv, [Next]_vars
  PROVE  FreshInv'
<1> SUFFICES ASSUME late' = {}, NEW t \in Calls, op'[t] = "force"
             PROVE  /\ pc'[t] \in ForcePc \union Final
                    /\ pc'[t] = "snapshot" => base'[t] <= Len(cells')
                    /\ Ensuring(t)' => base'[t] <= cell'[t]
                    /\ pc'[t] \in ForcePc =>
                         \A c \in 1..Len(cells') :
                           base'[t] <= c /\ Created(c)' => t \in fresh'
                    /\ pc'[t] = "ok" => t \in fresh'
  BY DEF FreshInv
<1>0. late = {}
  BY RemovalStepHolds DEF RemovalStep
<1>1. ForceStep(t) /\ CallStep(t)
  BY <1>0, ForceStepHolds, CallStepHolds DEF FreshInv
<1>2. Len(cells') = Len(cells) \/ Len(cells') = Len(cells) + 1
  BY SetStep
<1>3. ASSUME NEW c \in 1..Len(cells'), Created(c)'
      PROVE  (c <= Len(cells) /\ Created(c)) \/ Running \subseteq fresh'
  BY <1>3, CreatedStep
<1>4. CASE pc'[t] = "snapshot" /\ base'[t] = Len(cells) + 1 /\ ResetEnsure
  <2>1. Len(cells') = Len(cells) + 1 /\ cells'[Len(cells) + 1] = "empty"
    BY <1>4, ResetCells
  <2>2. ASSUME NEW c \in 1..Len(cells'), base'[t] <= c PROVE ~Created(c)'
    <3>1. c = Len(cells) + 1 /\ cells'[c] = "empty"
      BY <1>4, <2>1, <2>2 DEF TypeOK
    <3>2. ASSUME NEW u \in Calls, Filling(u, c)', net'[u] \in Served PROVE FALSE
      <4>1. CallStep(u)
        BY CallStepHolds
      <4>2. Ensuring(u)' => cell'[u] <= Len(cells)
        BY <4>1 DEF CallStep, TypeOK, Ensuring, Current
      <4>3. pc'[u] = "getting" => base'[u] <= Len(cells)
        BY <4>1 DEF CallStep, TypeOK, Current
      <4>. QED BY <3>1, <3>2, <4>2, <4>3 DEF Filling, Posting, Ensuring, TypeOK
    <3>. QED BY <3>1, <3>2 DEF Created
  <2>3. ~Ensuring(t)'
    BY <1>4 DEF Ensuring
  <2>. QED BY <1>4, <2>1, <2>2, <2>3 DEF ForcePc, TypeOK
<1>5. CASE ~(pc'[t] = "snapshot" /\ base'[t] = Len(cells) + 1 /\ ResetEnsure)
  <2>1. /\ op[t] = "force"
        /\ base'[t] = base[t]
        /\ pc'[t] \in ForcePc \union Final
        /\ pc'[t] = "snapshot" => pc[t] = "snapshot"
        /\ pc'[t] \in ForcePc => pc[t] \in ForcePc
        /\ pc'[t] = "ok" => pc[t] = "ok" \/ (Ensuring(t) /\ Created(cell[t]))
        /\ fresh \subseteq fresh'
    BY <1>1, <1>5 DEF ForceStep
  <2>2. pc'[t] = "snapshot" => base'[t] <= Len(cells')
    BY <1>0, <1>2, <2>1 DEF FreshInv, TypeOK
  <2>3. Ensuring(t)' => base'[t] <= cell'[t]
    BY <1>0, <1>1, <2>1 DEF FreshInv, CallStep, TypeOK, Current
  <2>4. ASSUME pc'[t] \in ForcePc, NEW c \in 1..Len(cells'),
               base'[t] <= c, Created(c)'
        PROVE  t \in fresh'
    <3>1. t \in Running
      BY <2>1, <2>4 DEF Running, ForcePc, Active, Waiting
    <3>2. CASE c <= Len(cells) /\ Created(c)
      BY <1>0, <2>1, <2>4, <3>2 DEF FreshInv, TypeOK
    <3>. QED BY <1>3, <2>4, <3>1, <3>2
  <2>5. pc'[t] = "ok" => t \in fresh'
    <3>1. CASE Ensuring(t) /\ Created(cell[t])
      <4>1. pc[t] \in ForcePc /\ cell[t] \in 1..Len(cells) /\ base[t] <= cell[t]
        BY <1>0, <2>1, <3>1 DEF Ensuring, ForcePc, FreshInv, TypeOK
      <4>. QED BY <1>0, <2>1, <3>1, <4>1 DEF FreshInv
    <3>. QED BY <1>0, <2>1, <3>1 DEF FreshInv
  <2>. QED BY <2>1, <2>2, <2>3, <2>4, <2>5
<1>. QED BY <1>4, <1>5

(* After force_ensure returned Ok a create has been served since it began, *)
(* as long as no cell was filled late.                                     *)
THEOREM ForceEnsureFreshHolds == Spec => []ForceEnsureFresh
<1>1. Init => FreshInv
  BY DEF Init, FreshInv
<1>2. TypeOK /\ TypeOK' /\ FreshInv /\ [Next]_vars => FreshInv'
  BY FreshInvStep
<1>3. FreshInv => ForceEnsureFresh
  BY DEF FreshInv, ForceEnsureFresh
<1>. QED BY <1>1, <1>2, <1>3, TypeCorrect, PTL DEF Spec
=============================================================================
