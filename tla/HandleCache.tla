----------------------------- MODULE HandleCache -----------------------------
(***************************************************************************)
(* The cache of a Session handle (src/src/session.rs) or of a Peer handle  *)
(* (src/src/peer.rs).  Clones of one handle share it, and many calls of    *)
(* them run at once; each is a member of Calls and runs one operation:     *)
(*   "read"      refresh, get_metadata, get_configuration, and for a Peer  *)
(*               get_configuration_raw: POST get-or-create, store, return; *)
(*   "read_raw"  Session::get_configuration_raw: the same, without a store;*)
(*   "put_md"    set_metadata;                                             *)
(*   "put_cfg"   set_configuration;                                        *)
(*   "put_raw"   set_configuration_raw with a map the server takes and the *)
(*               typed configuration does not;                             *)
(*   "delete"    Session::delete, which leaves the cache alone.            *)
(* server lists the states the object ever had on the server, the last one *)
(* is the present; an answer is the index of the state it shows.           *)
(***************************************************************************)
EXTENDS Naturals, Sequences

CONSTANTS
  Kinds,        \* whose cache it may be: "session", "peer"
  Calls,        \* the calls made on clones of the handle
  MaxRetries,   \* HttpClient max_retries, used by PUT and DELETE
  MaxForeign,   \* bound: changes made by other clients
  Initial,      \* what get-or-create gives a new object
  Foreign,      \* what another client writes
  Unreadable    \* a configuration that does not parse

ASSUME ConstantsAssumption ==
  /\ Kinds \subseteq {"session", "peer"}
  /\ MaxRetries \in Nat
  /\ MaxForeign \in Nat
  /\ Unreadable \notin Calls \union {Initial, Foreign}
  /\ Foreign # Initial
  /\ {Foreign, Initial} \intersect Calls = {}

VARIABLES
  kind,      \* "session" or "peer"
  server,    \* the states of the object, oldest first
  cache,     \* the cached fields
  pc,        \* where each call is
  op,        \* the operation each call runs
  net,       \* the request a call has in flight, or what became of it
  answer,    \* the state an "ok" answer shows
  attempt,   \* the retry counter of PUT and DELETE
  late,      \* calls with a copy in the network nobody waits for
  foreign,   \* changes made by other clients so far
  (* History, read by properties only. *)
  start,     \* how many states the server had when a call began
  ret,       \* the state a call returned its value from
  at,        \* the states the cached metadata and configuration come from
  floor      \* at, when the handle last had no call running

server_vars == <<server, late, foreign>>
call_vars == <<kind, op, attempt, start>>
vars == <<server_vars, call_vars, cache, pc, net, answer, ret, at, floor>>

Values == Calls \union {Initial, Foreign, Unreadable}
States == [exists : BOOLEAN, md : Values, cfg : Values, active : BOOLEAN]

Default == [exists |-> TRUE, md |-> Initial, cfg |-> Initial, active |-> TRUE]
Now == server[Len(server)]
Gone == [Now EXCEPT !.exists = FALSE]

Puts == {"put_md", "put_cfg", "put_raw"}
AllOps == {"read", "read_raw", "delete"} \union Puts
Ops == IF kind = "session" THEN AllOps ELSE {"read"} \union Puts
Running == {t \in Calls : pc[t] \in {"waiting", "stored"}}

Init ==
  /\ kind \in Kinds
  /\ server = <<Default>>
  /\ cache = [md |-> Initial, cfg |-> Initial, active |-> TRUE]
  /\ pc = [t \in Calls |-> "idle"]
  /\ op = [t \in Calls |-> "none"]
  /\ net = [t \in Calls |-> "none"]
  /\ answer = [t \in Calls |-> 0]
  /\ attempt = [t \in Calls |-> 0]
  /\ late = {}
  /\ foreign = 0
  /\ start = [t \in Calls |-> 0]
  /\ ret = [t \in Calls |-> 0]
  /\ at = [md |-> 1, cfg |-> 1]
  /\ floor = [md |-> 1, cfg |-> 1]

-----------------------------------------------------------------------------
Goto(t, label) == pc' = [pc EXCEPT ![t] = label]

(* Once no call runs any more, what is cached is the floor. *)
Settle == floor' = IF Running' = {} THEN at' ELSE floor

Start(t, o) ==
  /\ pc[t] = "idle"
  /\ o \in Ops
  /\ Goto(t, "waiting")
  /\ op' = [op EXCEPT ![t] = o]
  /\ net' = [net EXCEPT ![t] = "sent"]
  /\ start' = [start EXCEPT ![t] = Len(server)]
  /\ UNCHANGED <<kind, server_vars, cache, answer, attempt, ret, at, floor>>

(* HttpClient::request: PUT and DELETE are sent again, POST is not. *)
Retries(t) == op[t] \in Puts \union {"delete"} /\ attempt[t] < MaxRetries

Retry(t) ==
  /\ net[t] = "lost"
  /\ pc[t] = "waiting"
  /\ Retries(t)
  /\ attempt' = [attempt EXCEPT ![t] = @ + 1]
  /\ net' = [net EXCEPT ![t] = "sent"]
  /\ UNCHANGED <<kind, server_vars, op, start, cache, pc, answer, ret, at, floor>>

(* Does the answer have to parse?  A SessionResponse holds a typed         *)
(* configuration; a PeerResponse holds a map, parsed where it is stored.   *)
Parses(t) ==
  \/ server[answer[t]].cfg # Unreadable
  \/ op[t] \in {"read_raw", "delete"}
  \/ kind = "peer" /\ op[t] = "put_md"

(* The error paths: nothing is stored, also when the PUT took effect. *)
Fail(t) ==
  /\ pc[t] = "waiting"
  /\ \/ net[t] = "refused"
     \/ net[t] = "lost" /\ ~Retries(t)
     \/ net[t] = "ok" /\ ~Parses(t)
  /\ Goto(t, "err")
  /\ UNCHANGED <<server_vars, call_vars, cache, net, answer, ret, at>>
  /\ Settle

(* Which fields an operation stores: SessionInner::update_cache replaces   *)
(* them all, Peer::store those the operation is about.                     *)
StoresMetadata(o) == o \in {"read", "put_md"} \/ (kind = "session" /\ o \in Puts)
StoresConfiguration(o) ==
  o \in {"read", "put_cfg", "put_raw"} \/ (kind = "session" /\ o \in Puts)

(* Mutant: a PUT on a session stores the field it set only. *)
StorePutField(t) ==
  /\ pc[t] = "waiting"
  /\ net[t] = "ok"
  /\ Parses(t)
  /\ LET state == server[answer[t]]
         md    == op[t] \in {"read", "put_md"}
         cfg   == op[t] \in {"read", "put_cfg", "put_raw"}
     IN  /\ cache' = [md     |-> IF md THEN state.md ELSE cache.md,
                      cfg    |-> IF cfg THEN state.cfg ELSE cache.cfg,
                      active |-> IF md /\ cfg THEN state.active ELSE cache.active]
         /\ at' = [md  |-> IF md THEN answer[t] ELSE at.md,
                   cfg |-> IF cfg THEN answer[t] ELSE at.cfg]
  /\ Goto(t, "stored")
  /\ UNCHANGED <<server_vars, call_vars, net, answer, ret, floor>>

(* Mutant: a dropped call's answer is stored by a task of its own. *)
StoreDetached(t) ==
  /\ pc[t] \in {"waiting", "dropped"}
  /\ net[t] = "ok"
  /\ Parses(t)
  /\ LET state == server[answer[t]]
         md    == StoresMetadata(op[t])
         cfg   == StoresConfiguration(op[t])
     IN  /\ cache' = [md     |-> IF md THEN state.md ELSE cache.md,
                      cfg    |-> IF cfg THEN state.cfg ELSE cache.cfg,
                      active |-> IF md /\ cfg THEN state.active ELSE cache.active]
         /\ at' = [md  |-> IF md THEN answer[t] ELSE at.md,
                   cfg |-> IF cfg THEN answer[t] ELSE at.cfg]
  /\ Goto(t, "stored")
  /\ UNCHANGED <<server_vars, call_vars, net, answer, ret, floor>>

(* The answer is stored under one write lock. *)
Store(t) ==
  /\ pc[t] = "waiting"
  /\ net[t] = "ok"
  /\ Parses(t)
  /\ LET state == server[answer[t]]
         md    == StoresMetadata(op[t])
         cfg   == StoresConfiguration(op[t])
     IN  /\ cache' = [md     |-> IF md THEN state.md ELSE cache.md,
                      cfg    |-> IF cfg THEN state.cfg ELSE cache.cfg,
                      active |-> IF md /\ cfg THEN state.active ELSE cache.active]
         /\ at' = [md  |-> IF md THEN answer[t] ELSE at.md,
                   cfg |-> IF cfg THEN answer[t] ELSE at.cfg]
  /\ Goto(t, "stored")
  /\ UNCHANGED <<server_vars, call_vars, net, answer, ret, floor>>

(* Mutant: a read returns what is cached after its store. *)
ReturnCached(t) ==
  /\ pc[t] = "stored"
  /\ Goto(t, "ok")
  /\ ret' = [ret EXCEPT ![t] = at.cfg]
  /\ UNCHANGED <<server_vars, call_vars, cache, net, answer, at>>
  /\ Settle

(* The value is taken from the response, not from the cache, which another *)
(* thread may have written since.                                          *)
Return(t) ==
  /\ pc[t] = "stored"
  /\ Goto(t, "ok")
  /\ ret' = [ret EXCEPT ![t] = answer[t]]
  /\ UNCHANGED <<server_vars, call_vars, cache, net, answer, at>>
  /\ Settle

(* The caller drops the future; the request may still reach the server. *)
Cancel(t) ==
  /\ pc[t] = "waiting"
  /\ Goto(t, "dropped")
  /\ \/ UNCHANGED late
     \/ net[t] = "sent" /\ late' = late \union {t}
  /\ UNCHANGED <<server, foreign, call_vars, cache, net, answer, ret, at>>
  /\ Settle

-----------------------------------------------------------------------------
(* The server, as the code in src/ uses it: POST is get-or-create, PUT and *)
(* DELETE of an object that is gone are refused.                           *)

Refused(t) == ~Now.exists /\ op[t] \in Puts \union {"delete"}

Write(t) ==
  CASE op[t] = "put_md"  -> [Now EXCEPT !.md = t]
    [] op[t] = "put_cfg" -> [Now EXCEPT !.cfg = t]
    [] op[t] = "put_raw" -> [Now EXCEPT !.cfg = Unreadable]
    [] op[t] = "delete"  -> Gone
    [] OTHER             -> IF Now.exists THEN Now ELSE Default

Apply(t) == server' = IF Refused(t) \/ Write(t) = Now
                        THEN server ELSE Append(server, Write(t))

Serve(t) ==
  /\ pc[t] = "waiting"
  /\ net[t] = "sent"
  /\ Apply(t)
  /\ net' = [net EXCEPT ![t] = IF Refused(t) THEN "refused" ELSE "ok"]
  /\ answer' = [answer EXCEPT ![t] = Len(server')]
  /\ UNCHANGED <<late, foreign, call_vars, cache, pc, ret, at, floor>>

(* An error that is not retried: a 4xx answer, or one before the send. *)
Refuse(t) ==
  /\ pc[t] = "waiting"
  /\ net[t] = "sent"
  /\ net' = [net EXCEPT ![t] = "refused"]
  /\ UNCHANGED <<server_vars, call_vars, cache, pc, answer, ret, at, floor>>

(* A timeout, a broken connection or a 5xx; a copy that did not reach the  *)
(* server yet may do so later.                                             *)
Lose(t) ==
  /\ pc[t] = "waiting"
  /\ net[t] \in {"sent", "ok", "refused"}
  /\ net' = [net EXCEPT ![t] = "lost"]
  /\ \/ UNCHANGED late
     \/ net[t] = "sent" /\ late' = late \union {t}
  /\ UNCHANGED <<server, foreign, call_vars, cache, pc, answer, ret, at, floor>>

LateEffect(t) ==
  /\ t \in late
  /\ Apply(t)
  /\ late' = late \ {t}
  /\ UNCHANGED <<foreign, call_vars, cache, pc, net, answer, ret, at, floor>>

(* Another client, and the server itself. *)
OtherChange ==
  /\ foreign < MaxForeign
  /\ foreign' = foreign + 1
  /\ \E s \in IF ~Now.exists THEN {Default}
              ELSE {Gone, [Now EXCEPT !.md = Foreign, !.cfg = Foreign],
                    [Now EXCEPT !.cfg = Unreadable]}
                   \union (IF kind = "session" THEN {[Now EXCEPT !.active = ~@]} ELSE {}) :
       server' = Append(server, s)
  /\ UNCHANGED <<late, call_vars, cache, pc, net, answer, ret, at, floor>>

-----------------------------------------------------------------------------
Next ==
  \/ \E t \in Calls :
       \/ \E o \in Ops : Start(t, o)
       \/ Retry(t) \/ Fail(t) \/ Store(t) \/ Return(t) \/ Cancel(t)
       \/ Serve(t) \/ Refuse(t) \/ Lose(t) \/ LateEffect(t)
  \/ OtherChange

Spec == Init /\ [][Next]_vars

-----------------------------------------------------------------------------
Indices == 1..Len(server)

(* Every variable has its type, and an answer shows a state of the server  *)
(* that was the present at some time of the call.                          *)
TypeOK ==
  /\ kind \in Kinds
  /\ server \in Seq(States) /\ server # <<>>
  /\ cache \in [md : Values, cfg : Values, active : BOOLEAN]
  /\ pc \in [Calls -> {"idle", "waiting", "stored", "ok", "err", "dropped"}]
  /\ op \in [Calls -> AllOps \union {"none"}]
  /\ net \in [Calls -> {"none", "sent", "ok", "refused", "lost"}]
  /\ answer \in [Calls -> Nat]
  /\ attempt \in [Calls -> 0..MaxRetries]
  /\ late \subseteq Calls
  /\ foreign \in 0..MaxForeign
  /\ start \in [Calls -> Nat]
  /\ ret \in [Calls -> Nat]
  /\ at \in [md : Indices, cfg : Indices]
  /\ floor \in [md : Indices, cfg : Indices]

IsSnapshot ==
  \E i \in Indices :
    /\ server[i].exists
    /\ cache = [md |-> server[i].md, cfg |-> server[i].cfg,
                active |-> server[i].active]

(* The cached fields of a session are those of one state of the session,   *)
(* never "a torn mix of fresh and stale fields" (session.rs:22-26).        *)
CacheCoherent == kind = "session" => IsSnapshot

(* "A reader never observes new metadata paired with a stale configuration *)
(* (or vice versa)" of a peer (peer.rs:37-38).                             *)
PeerCoherent == kind = "peer" => IsSnapshot

(* Answers that are stored out of order take the cache back in time, but   *)
(* only while calls overlap: never behind what was cached when the handle  *)
(* last had no call running, a dropped call included.                      *)
QuietNoRegress == floor.md <= at.md /\ floor.cfg <= at.cfg

(* A read returns a state the object had during the call, whatever other   *)
(* calls store between its store and its return (peer.rs:257-262).         *)
ReadsFresh ==
  \A t \in Calls :
    pc[t] = "ok" /\ op[t] \in {"read", "read_raw"} => ret[t] \in start[t]..Len(server)
=============================================================================
