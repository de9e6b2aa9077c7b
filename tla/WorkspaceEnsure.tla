--------------------------- MODULE WorkspaceEnsure ---------------------------
(***************************************************************************)
(* The workspace-ensure cache of the client (src/src/client.rs).           *)
(*                                                                         *)
(* A client remembers that its workspace exists in a OnceCell behind a     *)
(* Mutex.  Many calls of one client run at once; each is a member of Calls *)
(* and runs one operation:                                                 *)
(*   "use"     peer()/session()/search(): ensure_workspace, then a POST    *)
(*             that needs the workspace;                                   *)
(*   "get"     get_metadata()/get_configuration()/refresh(): POST the      *)
(*             workspace, then fill the cell that is current THEN;         *)
(*   "force"   force_ensure: reset the cell, then ensure_workspace;        *)
(*   "delete"  delete_workspace of the client's own workspace: DELETE with *)
(*             retries, then reset the cell.                               *)
(* A reset appends a fresh cell to cells; the last one is current, and a   *)
(* call that took a snapshot of an older cell keeps working on that one.   *)
(* The server keeps whether the workspace exists; other clients, and       *)
(* requests that outlive the call that sent them, may change that as well. *)
(***************************************************************************)
EXTENDS Naturals, Sequences

CONSTANTS
  Calls,        \* the calls made on one client, each one operation
  May,          \* the operations each of these calls may run
  MaxRetries,   \* HttpClient max_retries, used by DELETE only
  NoCall,       \* "the workspace was not removed, or its removal was reset"
  OtherCall     \* removed by another client or by a late request

ASSUME ConstantsAssumption ==
  /\ May \in [Calls -> SUBSET {"use", "get", "force", "delete"}]
  /\ MaxRetries \in Nat
  /\ NoCall \notin Calls
  /\ OtherCall \notin Calls
  /\ NoCall # OtherCall

VARIABLES
  ws,        \* does the workspace exist on the server
  cells,     \* every OnceCell the client ever had, the last one is current
  pc,        \* where each call is
  op,        \* the operation each call runs
  cell,      \* the cell a call took a snapshot of, 0 before
  net,       \* the request a call has in flight, or the answer it got
  attempt,   \* the retry counter of the DELETE loop
  (* History, read by properties only. *)
  remover,   \* who removed the workspace, NoCall once that call reset
  excused,   \* calls that saw a removal that had not been reset
  fresh,     \* calls since whose start a create was served
  base,      \* the current cell when a call began (after its own reset)
  late       \* "get" calls that filled a cell made after they began

net_vars == <<net, attempt>>
history == <<remover, excused, fresh, base, late>>
vars == <<ws, cells, pc, op, cell, net, attempt, history>>

Final   == {"ok", "err", "dropped"}
Waiting == {"posting", "getting", "using", "deleting"}
Active  == {"snapshot", "acquire"} \union Waiting
Served  == {"ok", "conflict"}
Answers == {"ok", "conflict", "missing", "reject", "lost"}

Current == Len(cells)

Init ==
  /\ ws \in BOOLEAN
  /\ cells = <<"empty">>
  /\ pc = [t \in Calls |-> "idle"]
  /\ op = [t \in Calls |-> "none"]
  /\ cell = [t \in Calls |-> 0]
  /\ net = [t \in Calls |-> "none"]
  /\ attempt = [t \in Calls |-> 0]
  /\ remover = NoCall
  /\ excused = {}
  /\ fresh = {}
  /\ base = [t \in Calls |-> 0]
  /\ late = {}

-----------------------------------------------------------------------------
(* Inner::reset_ensure: swap a fresh cell in. *)
ResetEnsure == cells' = Append(cells, "empty")

Begin(t, o) ==
  /\ pc[t] = "idle"
  /\ o \in May[t]
  /\ op' = [op EXCEPT ![t] = o]
  /\ excused' = IF remover = NoCall THEN excused ELSE excused \union {t}
  /\ UNCHANGED <<ws, cell, attempt, remover, fresh, late>>

Goto(t, label) == pc' = [pc EXCEPT ![t] = label]

(* Honcho::peer, ::session, ::search ...: ensure_workspace comes first. *)
StartUse(t) ==
  /\ Begin(t, "use")
  /\ Goto(t, "snapshot")
  /\ base' = [base EXCEPT ![t] = Current]
  /\ UNCHANGED <<cells, net>>

(* Mutant: force_ensure forgets to invalidate the cell first. *)
StartForceNoReset(t) ==
  /\ Begin(t, "force")
  /\ Goto(t, "snapshot")
  /\ base' = [base EXCEPT ![t] = Current]
  /\ UNCHANGED <<cells, net>>

(* force_ensure: reset, and then ensure like any other call. *)
StartForce(t) ==
  /\ Begin(t, "force")
  /\ Goto(t, "snapshot")
  /\ ResetEnsure
  /\ base' = [base EXCEPT ![t] = Current + 1]
  /\ UNCHANGED net

(* get_or_create_workspace: POST without looking at the cell. *)
StartGet(t) ==
  /\ Begin(t, "get")
  /\ Goto(t, "getting")
  /\ net' = [net EXCEPT ![t] = "sent"]
  /\ base' = [base EXCEPT ![t] = Current]
  /\ UNCHANGED cells

(* delete_workspace: the first attempt of the DELETE. *)
StartDelete(t) ==
  /\ Begin(t, "delete")
  /\ Goto(t, "deleting")
  /\ net' = [net EXCEPT ![t] = "sent"]
  /\ base' = [base EXCEPT ![t] = Current]
  /\ UNCHANGED cells

-----------------------------------------------------------------------------
(* ensure_workspace: the cell is read once, before any await. *)
Snapshot(t) ==
  /\ pc[t] = "snapshot"
  /\ Goto(t, "acquire")
  /\ cell' = [cell EXCEPT ![t] = Current]
  /\ UNCHANGED <<ws, cells, op, net_vars, history>>

(* What the caller does once its workspace is ensured: force_ensure is     *)
(* done, the other operations send the request they were made for.         *)
Ensured(t) ==
  \/ /\ op[t] = "force"
     /\ Goto(t, "ok")
     /\ net' = [net EXCEPT ![t] = "none"]
  \/ /\ op[t] = "use"
     /\ Goto(t, "using")
     /\ net' = [net EXCEPT ![t] = "sent"]

(* get_or_try_init on an initialised cell, also for woken waiters. *)
AcquireSet(t) ==
  /\ pc[t] = "acquire"
  /\ cells[cell[t]] = "set"
  /\ Ensured(t)
  /\ UNCHANGED <<ws, cells, op, cell, attempt, history>>

(* Mutant: look at the cell, then POST, with no permit in between. *)
AcquireUnguarded(t) ==
  /\ pc[t] = "acquire"
  /\ cells[cell[t]] # "set"
  /\ cells' = [cells EXCEPT ![cell[t]] = "busy"]
  /\ Goto(t, "posting")
  /\ net' = [net EXCEPT ![t] = "sent"]
  /\ UNCHANGED <<ws, op, cell, attempt, remover, excused, fresh, base, late>>

(* get_or_try_init on an empty cell: take the permit and POST.  While the  *)
(* cell is "busy" a caller waits here.                                     *)
AcquirePermit(t) ==
  /\ pc[t] = "acquire"
  /\ cells[cell[t]] = "empty"
  /\ cells' = [cells EXCEPT ![cell[t]] = "busy"]
  /\ Goto(t, "posting")
  /\ net' = [net EXCEPT ![t] = "sent"]
  /\ UNCHANGED <<ws, op, cell, attempt, remover, excused, fresh, base, late>>

(* The ensure POST succeeded; 409 counts as success. *)
EnsureOk(t) ==
  /\ pc[t] = "posting"
  /\ net[t] \in Served
  /\ cells' = [cells EXCEPT ![cell[t]] = "set"]
  /\ Ensured(t)
  /\ UNCHANGED <<ws, op, cell, attempt, history>>

(* Mutant: the arm for 409 accepts every error. *)
EnsureErrIsOk(t) ==
  /\ pc[t] = "posting"
  /\ net[t] \in Answers \ Served
  /\ cells' = [cells EXCEPT ![cell[t]] = "set"]
  /\ Ensured(t)
  /\ UNCHANGED <<ws, op, cell, attempt, history>>

(* Mutant: a failed initialisation keeps the permit. *)
EnsureErrKeepsPermit(t) ==
  /\ pc[t] = "posting"
  /\ net[t] \in Answers \ Served
  /\ Goto(t, "err")
  /\ net' = [net EXCEPT ![t] = "none"]
  /\ UNCHANGED <<ws, cells, op, cell, attempt, history>>

(* The ensure POST failed: the permit goes back, the error to the caller. *)
EnsureErr(t) ==
  /\ pc[t] = "posting"
  /\ net[t] \in Answers \ Served
  /\ cells' = [cells EXCEPT ![cell[t]] = "empty"]
  /\ Goto(t, "err")
  /\ net' = [net EXCEPT ![t] = "none"]
  /\ UNCHANGED <<ws, op, cell, attempt, history>>

(* The request that needed the workspace came back. *)
UseDone(t) ==
  /\ pc[t] = "using"
  /\ net[t] \in Answers
  /\ Goto(t, IF net[t] = "ok" THEN "ok" ELSE "err")
  /\ UNCHANGED <<ws, cells, op, cell, net_vars, history>>

(* get_or_create_workspace: the answer arrived; OnceCell::set fails if the *)
(* cell that is current now is set or being initialised, and is ignored.   *)
GetOk(t) ==
  /\ pc[t] = "getting"
  /\ net[t] = "ok"
  /\ \/ /\ cells[Current] = "empty"
        /\ cells' = [cells EXCEPT ![Current] = "set"]
        /\ late' = IF base[t] = Current THEN late ELSE late \union {t}
     \/ cells[Current] # "empty" /\ UNCHANGED <<cells, late>>
  /\ Goto(t, "ok")
  /\ UNCHANGED <<ws, op, cell, net_vars, remover, excused, fresh, base>>

(* get_or_create_workspace hands any error on, a 409 too. *)
GetErr(t) ==
  /\ pc[t] = "getting"
  /\ net[t] \in Answers \ {"ok"}
  /\ Goto(t, "err")
  /\ UNCHANGED <<ws, cells, op, cell, net_vars, history>>

-----------------------------------------------------------------------------
(* Mutant: one retry too many. *)
DeleteRetryOffByOne(t) ==
  /\ pc[t] = "deleting"
  /\ net[t] = "lost"
  /\ attempt[t] <= MaxRetries
  /\ attempt' = [attempt EXCEPT ![t] = @ + 1]
  /\ net' = [net EXCEPT ![t] = "sent"]
  /\ UNCHANGED <<ws, cells, pc, op, cell, history>>

(* HttpClient::request for DELETE: a lost answer is retried. *)
DeleteRetry(t) ==
  /\ pc[t] = "deleting"
  /\ net[t] = "lost"
  /\ attempt[t] < MaxRetries
  /\ attempt' = [attempt EXCEPT ![t] = @ + 1]
  /\ net' = [net EXCEPT ![t] = "sent"]
  /\ UNCHANGED <<ws, cells, pc, op, cell, history>>

(* Mutant: the cache survives the deletion. *)
DeleteOkNoReset(t) ==
  /\ pc[t] = "deleting"
  /\ net[t] = "ok"
  /\ Goto(t, "ok")
  /\ remover' = IF remover = t THEN NoCall ELSE remover
  /\ UNCHANGED <<ws, cells, op, cell, net_vars, excused, fresh, base, late>>

(* delete_workspace of the client's own workspace, after Ok only. *)
DeleteOk(t) ==
  /\ pc[t] = "deleting"
  /\ net[t] = "ok"
  /\ ResetEnsure
  /\ Goto(t, "ok")
  /\ remover' = IF remover = t THEN NoCall ELSE remover
  /\ UNCHANGED <<ws, op, cell, net_vars, excused, fresh, base, late>>

(* The `?` in delete_workspace: an error skips the reset. *)
DeleteErr(t) ==
  /\ pc[t] = "deleting"
  /\ \/ net[t] \in {"missing", "reject"}
     \/ net[t] = "lost" /\ attempt[t] = MaxRetries
  /\ Goto(t, "err")
  /\ UNCHANGED <<ws, cells, op, cell, net_vars, history>>

(* The caller drops the future: tokio gives the permit of the cell back. *)
Cancel(t) ==
  /\ pc[t] \in Active
  /\ cells' = IF pc[t] = "posting"
                THEN [cells EXCEPT ![cell[t]] = "empty"] ELSE cells
  /\ Goto(t, "dropped")
  /\ net' = [net EXCEPT ![t] = "none"]
  /\ UNCHANGED <<ws, op, cell, attempt, history>>

-----------------------------------------------------------------------------
(* The server, as the code in src/src/client.rs uses it. *)

Running == {t \in Calls : pc[t] \in Active}

Removed(by) ==
  /\ ws' = FALSE
  /\ remover' = by
  /\ excused' = excused \union Running

Answer(t, a) == net' = [net EXCEPT ![t] = a]

ServeCreate(t) ==
  /\ pc[t] \in {"posting", "getting"}
  /\ net[t] = "sent"
  /\ \/ Answer(t, "ok")
     \/ ws /\ Answer(t, "conflict")
  /\ ws' = TRUE
  /\ remover' = NoCall
  /\ fresh' = fresh \union Running
  /\ UNCHANGED <<cells, pc, op, cell, attempt, excused, base, late>>

ServeUse(t) ==
  /\ pc[t] = "using"
  /\ net[t] = "sent"
  /\ Answer(t, IF ws THEN "ok" ELSE "missing")
  /\ UNCHANGED <<ws, cells, pc, op, cell, attempt, history>>

ServeDelete(t) ==
  /\ pc[t] = "deleting"
  /\ net[t] = "sent"
  /\ \/ ws /\ Removed(t) /\ Answer(t, "ok")
     \/ ~ws /\ Answer(t, "missing") /\ UNCHANGED <<ws, remover, excused>>
  /\ UNCHANGED <<cells, pc, op, cell, attempt, fresh, base, late>>

(* An error answer that is not retried (401, 422, ...): no effect. *)
ServeReject(t) ==
  /\ net[t] = "sent"
  /\ Answer(t, "reject")
  /\ UNCHANGED <<ws, cells, pc, op, cell, attempt, history>>

(* A timeout, a broken connection or a 5xx, before or after the effect. *)
Lose(t) ==
  /\ pc[t] \in Waiting
  /\ net[t] \in {"sent", "ok", "conflict", "missing"}
  /\ Answer(t, "lost")
  /\ UNCHANGED <<ws, cells, pc, op, cell, attempt, history>>

(* Another client, or a request whose call timed out or was dropped. *)
OtherCreate ==
  /\ ~ws
  /\ ws' = TRUE
  /\ remover' = NoCall
  /\ UNCHANGED <<cells, pc, op, cell, net_vars, excused, fresh, base, late>>

OtherDelete ==
  /\ ws
  /\ Removed(OtherCall)
  /\ UNCHANGED <<cells, pc, op, cell, net_vars, fresh, base, late>>

-----------------------------------------------------------------------------
Step(t) ==
  \/ Snapshot(t) \/ AcquireSet(t) \/ AcquirePermit(t)
  \/ EnsureOk(t) \/ EnsureErr(t) \/ UseDone(t)
  \/ GetOk(t) \/ GetErr(t)
  \/ DeleteRetry(t) \/ DeleteOk(t) \/ DeleteErr(t)

Serve(t) ==
  \/ ServeCreate(t) \/ ServeUse(t) \/ ServeDelete(t)
  \/ ServeReject(t) \/ Lose(t)

Start(t) == StartUse(t) \/ StartForce(t) \/ StartGet(t) \/ StartDelete(t)

Next ==
  \/ \E t \in Calls : Start(t) \/ Step(t) \/ Cancel(t) \/ Serve(t)
  \/ OtherCreate
  \/ OtherDelete

Spec == Init /\ [][Next]_vars

(* The executor polls a woken task, and a request is answered or times out *)
(* (HttpClient sets a timeout on every request).  Starting and cancelling  *)
(* are the caller's choice.                                                *)
Fairness == \A t \in Calls : WF_vars(Step(t)) /\ WF_vars(net[t] = "sent" /\ Serve(t))

FairSpec == Spec /\ Fairness

-----------------------------------------------------------------------------
(* Every variable has its type, a call between snapshot and answer holds a *)
(* cell the client really had, and only a waiting call has a request out.  *)
TypeOK ==
  /\ ws \in BOOLEAN
  /\ cells \in Seq({"empty", "busy", "set"}) /\ cells # <<>>
  /\ pc \in [Calls -> {"idle"} \union Active \union Final]
  /\ op \in [Calls -> {"none", "use", "get", "force", "delete"}]
  /\ cell \in [Calls -> Nat]
  /\ net \in [Calls -> {"none", "sent"} \union Answers]
  /\ attempt \in [Calls -> 0..MaxRetries]
  /\ remover \in Calls \union {NoCall, OtherCall}
  /\ excused \subseteq Calls
  /\ fresh \subseteq Calls
  /\ base \in [Calls -> Nat]
  /\ late \subseteq Calls
  /\ \A t \in Calls : pc[t] \in {"acquire", "posting"} => cell[t] \in 1..Len(cells)
  /\ \A t \in Calls : pc[t] = "getting" => base[t] \in 1..Len(cells)

(* Single flight (client.rs:54-57): for each cell at most one create POST  *)
(* is under way, and a cell is busy exactly while one is, however calls    *)
(* are interleaved, fail or are dropped.                                   *)
Posts(c) == {t \in Calls : pc[t] = "posting" /\ cell[t] = c}

SingleFlight ==
  \A c \in 1..Len(cells) :
    /\ cells[c] = "busy" <=> Posts(c) # {}
    /\ \A t, u \in Posts(c) : t = u

(* The cache claims a missing workspace only while the removal that made   *)
(* it go is not answered by a reset yet: once delete_workspace has reset   *)
(* the cell, no call may trust the cell (client.rs:701-703).               *)
NoStaleEnsure ==
  cells[Current] = "set" /\ ~ws => remover # NoCall

(* That holds as long as no get_or_create_workspace fills, with an answer  *)
(* from before a reset, the cell that the reset made (client.rs:328).      *)
StaleOnlyByLateFill == late = {} => NoStaleEnsure

(* A peer()/session() call is refused for a missing workspace only if the  *)
(* workspace was removed during the call, or before it by someone who did  *)
(* not reset the cell: never after a delete_workspace that returned Ok,    *)
(* again unless a late fill undid that reset.                              *)
MissingExplained ==
  late = {} =>
    \A t \in Calls : pc[t] = "using" /\ net[t] = "missing" => t \in excused

(* force_ensure recovers (client.rs:255): when it returns Ok, a create was *)
(* served after it began, by its own POST or by one it waited for; only a  *)
(* late fill of its fresh cell lets it return without one.                 *)
ForceEnsureFresh ==
  late = {} =>
    \A t \in Calls : op[t] = "force" /\ pc[t] = "ok" => t \in fresh

(* No call hangs on the cell: every call that began ends, also when the    *)
(* call it waits for fails or is dropped.                                  *)
CallsComplete ==
  \A t \in Calls : pc[t] # "idle" ~> pc[t] \in Final
=============================================================================
