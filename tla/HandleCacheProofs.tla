--------------------------- MODULE HandleCacheProofs ---------------------------
(***************************************************************************)
(* What holds of the cache of a handle for any number of calls, retries    *)
(* and changes by others.                                                  *)
(***************************************************************************)
EXTENDS HandleCache, TLAPS

(* The server's list of states only grows. *)
Grown ==
  /\ server' \in Seq(States)
  /\ Len(server) <= Len(server')
  /\ \A i \in 1..Len(server) : server'[i] = server[i]

LEMMA AppendGrows ==
  ASSUME NEW s \in States, server \in Seq(States),
         server' = server \/ server' = Append(server, s)
  PROVE  Grown
BY DEF Grown

LEMMA StateTypes ==
  ASSUME server \in Seq(States), server # <<>>
  PROVE  /\ Now \in States /\ Gone \in States /\ Default \in States
         /\ [Now EXCEPT !.md = Foreign, !.cfg = Foreign] \in States
         /\ [Now EXCEPT !.cfg = Unreadable] \in States
         /\ [Now EXCEPT !.active = ~@] \in States
         /\ \A t \in Calls : Write(t) \in States
<1>1. Now \in States
  BY DEF Now
<1>2. Default \in States
  BY DEF Default, States, Values
<1>3. Gone \in States
  BY <1>1 DEF Gone, States
<1>4. /\ [Now EXCEPT !.md = Foreign, !.cfg = Foreign] \in States
      /\ [Now EXCEPT !.cfg = Unreadable] \in States
      /\ [Now EXCEPT !.active = ~@] \in States
  BY <1>1 DEF States, Values
<1>5. ASSUME NEW t \in Calls PROVE Write(t) \in States
  <2>1. [Now EXCEPT !.md = t] \in States /\ [Now EXCEPT !.cfg = t] \in States
    BY <1>1 DEF States, Values
  <2>. QED BY <1>1, <1>2, <1>3, <1>4, <2>1 DEF Write
<1>. QED BY <1>1, <1>2, <1>3, <1>4, <1>5

LEMMA ServerGrows ==
  ASSUME server \in Seq(States), server # <<>>, [Next]_vars
  PROVE  Grown
<1>1. ASSUME NEW t \in Calls, Apply(t) PROVE Grown
  BY <1>1, StateTypes, AppendGrows DEF Apply
<1>2. CASE server' = server
  BY <1>2 DEF Grown
<1>3. ASSUME NEW t \in Calls,
             \/ \E o \in Ops : Start(t, o)
             \/ Retry(t) \/ Fail(t) \/ Store(t) \/ Return(t) \/ Cancel(t)
             \/ Refuse(t) \/ Lose(t)
      PROVE  server' = server
  BY <1>3 DEF Start, Retry, Fail, Store, Return, Cancel, Refuse, Lose, server_vars
<1>4. CASE OtherChange
  <2>1. PICK s : s \in States /\ server' = Append(server, s)
    BY <1>4, StateTypes DEF OtherChange
  <2>. QED BY <2>1, AppendGrows
<1>5. CASE UNCHANGED vars
  BY <1>2, <1>5 DEF vars, server_vars
<1>. QED BY <1>1, <1>2, <1>3, <1>4, <1>5 DEF Next, Serve, LateEffect

(* A call in flight began at a state the server had, and an "ok" answer    *)
(* shows a state of the server since then, of an object that exists.       *)
AnsweredCall(t) ==
  /\ start[t] <= Len(server)
  /\ pc[t] = "waiting" => op[t] \in AllOps
  /\ net[t] = "ok" => /\ answer[t] \in 1..Len(server) /\ start[t] <= answer[t]
                      /\ op[t] # "delete" => server[answer[t]].exists
  /\ pc[t] = "stored" => net[t] = "ok"
  /\ pc[t] = "ok" => ret[t] \in start[t]..Len(server)

Answered == \A t \in Calls : AnsweredCall(t)

(* No call began before the floor was fetched. *)
Floors ==
  /\ floor.md <= at.md /\ floor.cfg <= at.cfg
  /\ \A t \in Running : floor.md <= start[t] /\ floor.cfg <= start[t]

(* A session caches all of one state. *)
Cached ==
  kind = "session" =>
    /\ at.md = at.cfg
    /\ server[at.md].exists
    /\ cache = [md |-> server[at.md].md, cfg |-> server[at.md].cfg,
                active |-> server[at.md].active]

Inv == TypeOK /\ Answered /\ Floors /\ Cached

(* The states an answer shows are states of the object. *)
LEMMA AnswerStates ==
  ASSUME TypeOK, Answered, NEW t \in Calls, net[t] = "ok"
  PROVE  /\ answer[t] \in Indices
         /\ server[answer[t]] \in States
         /\ server[answer[t]].md \in Values /\ server[answer[t]].cfg \in Values
         /\ server[answer[t]].active \in BOOLEAN
<1>1. answer[t] \in Indices
  BY DEF Answered, AnsweredCall, Indices
<1>2. server[answer[t]] \in States
  BY <1>1 DEF TypeOK, Indices
<1>. QED BY <1>1, <1>2 DEF States

(* What Store changes, and only it. *)
LEMMA StoreTypes ==
  ASSUME TypeOK, Answered, NEW t \in Calls, Store(t)
  PROVE  /\ cache' \in [md : Values, cfg : Values, active : BOOLEAN]
         /\ at' \in [md : Indices, cfg : Indices]
<1>1. net[t] = "ok"
  BY DEF Store
<1>2. /\ cache \in [md : Values, cfg : Values, active : BOOLEAN]
      /\ at \in [md : Indices, cfg : Indices]
  BY DEF TypeOK
<1>3. cache' \in [md : Values, cfg : Values, active : BOOLEAN]
  BY <1>1, <1>2, AnswerStates DEF Store
<1>4. at' \in [md : Indices, cfg : Indices]
  BY <1>1, <1>2, AnswerStates DEF Store
<1>. QED BY <1>3, <1>4

LEMMA InitHolds == Init => Inv
<1> SUFFICES ASSUME Init PROVE Inv
  OBVIOUS
<1>1. Default \in States /\ Initial \in Values
  BY DEF Default, States, Values
<1>2. server = <<Default>> /\ Len(server) = 1 /\ server[1] = Default
  BY DEF Init
<1>3. server \in Seq(States) /\ server # <<>>
  BY <1>1, <1>2
<1>4. TypeOK
  <2>1. cache \in [md : Values, cfg : Values, active : BOOLEAN]
    BY <1>1 DEF Init
  <2>2. /\ at \in [md : Indices, cfg : Indices] /\ floor \in [md : Indices, cfg : Indices]
    BY <1>2 DEF Init, Indices
  <2>. QED BY <1>3, <2>1, <2>2, ConstantsAssumption DEF Init, TypeOK
<1>5. Answered
  BY <1>2 DEF Init, Answered, AnsweredCall
<1>6. Floors
  BY DEF Init, Floors, Running
<1>7. Cached
  <2>1. /\ Default.exists /\ Default.md = Initial /\ Default.cfg = Initial
        /\ Default.active
    BY DEF Default
  <2>2. at.md = 1 /\ at.cfg = 1 /\ server[at.md] = Default
    BY <1>2 DEF Init
  <2>3. cache = [md |-> Initial, cfg |-> Initial, active |-> TRUE]
    BY DEF Init
  <2>4. Default.active = TRUE
    BY DEF Default
  <2>. QED BY <2>1, <2>2, <2>3, <2>4 DEF Cached
<1>. QED BY <1>4, <1>5, <1>6, <1>7 DEF Inv

(* Indices of the server's list stay valid. *)
LEMMA GrownIndices ==
  ASSUME TypeOK, Grown
  PROVE  /\ Indices \subseteq Indices'
         /\ server' # <<>>
         /\ at \in [md : Indices', cfg : Indices']
         /\ floor \in [md : Indices', cfg : Indices']
<1>1. Len(server) \in Nat /\ Len(server) > 0 /\ Len(server') \in Nat
  BY DEF TypeOK, Grown
<1>2. Indices \subseteq Indices'
  BY <1>1 DEF Grown, Indices
<1>3. at \in [md : Indices, cfg : Indices] /\ floor \in [md : Indices, cfg : Indices]
  BY DEF TypeOK
<1>. QED BY <1>1, <1>2, <1>3 DEF Grown

(* Calls keep their types; the server's states were dealt with above. *)
LEMMA TypeStep == TypeOK /\ Answered /\ [Next]_vars => TypeOK'
<1> SUFFICES ASSUME TypeOK, Answered, [Next]_vars PROVE TypeOK'
  OBVIOUS
<1>1. /\ Grown /\ Len(server') \in Nat
      /\ server' \in Seq(States) /\ server' # <<>> /\ Indices \subseteq Indices'
      /\ at \in [md : Indices', cfg : Indices']
      /\ floor \in [md : Indices', cfg : Indices']
  BY ServerGrows, GrownIndices DEF TypeOK, Grown
<1>2. /\ kind \in Kinds
      /\ cache \in [md : Values, cfg : Values, active : BOOLEAN]
      /\ pc \in [Calls -> {"idle", "waiting", "stored", "ok", "err", "dropped"}]
      /\ op \in [Calls -> AllOps \union {"none"}]
      /\ net \in [Calls -> {"none", "sent", "ok", "refused", "lost"}]
      /\ answer \in [Calls -> Nat]
      /\ attempt \in [Calls -> 0..MaxRetries]
      /\ late \subseteq Calls
      /\ foreign \in 0..MaxForeign
      /\ start \in [Calls -> Nat]
      /\ ret \in [Calls -> Nat]
      /\ at \in [md : Indices, cfg : Indices]
      /\ Len(server) \in Nat
  BY DEF TypeOK
<1>3. CASE ~(\E t \in Calls : Store(t))
  <2>0. UNCHANGED <<cache, at>> /\ (Settle \/ floor' = floor)
    BY <1>3 DEF Next, Start, Retry, Fail, Return, Cancel, Serve, Refuse, Lose,
                LateEffect, OtherChange, vars
  <2>1. at' \in [md : Indices', cfg : Indices'] /\ floor' \in [md : Indices', cfg : Indices']
    BY <1>1, <2>0 DEF Settle
  <2>2. cache' \in [md : Values, cfg : Values, active : BOOLEAN]
    BY <1>2, <2>0
  <2>3. ASSUME NEW t \in Calls, NEW o \in Ops, Start(t, o) PROVE TypeOK'
    <3>1. o \in AllOps
      BY <2>3 DEF Start, Ops, AllOps
    <3>. QED BY <1>1, <1>2, <2>1, <2>2, <2>3, <3>1 DEF TypeOK, Start, Goto, server_vars
  <2>4. ASSUME NEW t \in Calls, Retry(t) PROVE TypeOK'
    <3>1. attempt' \in [Calls -> 0..MaxRetries]
      BY <1>2, <2>4, ConstantsAssumption DEF Retry, Retries
    <3>. QED BY <1>1, <1>2, <2>1, <2>2, <2>4, <3>1 DEF TypeOK, Retry, server_vars
  <2>5. ASSUME NEW t \in Calls, Fail(t) PROVE TypeOK'
    BY <1>1, <1>2, <2>1, <2>2, <2>5 DEF TypeOK, Fail, Goto, server_vars, call_vars
  <2>6. ASSUME NEW t \in Calls, Return(t) PROVE TypeOK'
    BY <1>1, <1>2, <2>1, <2>2, <2>6 DEF TypeOK, Return, Goto, server_vars, call_vars
  <2>7. ASSUME NEW t \in Calls, Cancel(t) PROVE TypeOK'
    BY <1>1, <1>2, <2>1, <2>2, <2>7 DEF TypeOK, Cancel, Goto, call_vars
  <2>8. ASSUME NEW t \in Calls, Serve(t) PROVE TypeOK'
    BY <1>1, <1>2, <2>1, <2>2, <2>8 DEF TypeOK, Serve, call_vars
  <2>9. ASSUME NEW t \in Calls, Refuse(t) \/ Lose(t) \/ LateEffect(t) PROVE TypeOK'
    <3>1. UNCHANGED <<kind, cache, pc, op, answer, attempt, foreign, start, ret>>
      BY <2>9 DEF Refuse, Lose, LateEffect, server_vars, call_vars
    <3>2. net' \in [Calls -> {"none", "sent", "ok", "refused", "lost"}] /\ late' \subseteq Calls
      BY <1>2, <2>9 DEF Refuse, Lose, LateEffect, server_vars
    <3>. QED BY <1>1, <1>2, <2>1, <3>1, <3>2 DEF TypeOK
  <2>10. CASE OtherChange
    <3>1. foreign' \in 0..MaxForeign
      BY <1>2, <2>10, ConstantsAssumption DEF OtherChange
    <3>. QED BY <1>1, <1>2, <2>1, <2>2, <2>10, <3>1 DEF TypeOK, OtherChange, call_vars
  <2>11. CASE UNCHANGED vars
    BY <1>1, <1>2, <2>1, <2>2, <2>11 DEF TypeOK, vars, server_vars, call_vars
  <2>12. ASSUME NEW t \in Calls, Store(t) PROVE TypeOK'
    BY <1>3, <2>12
  <2>. QED BY <2>3, <2>4, <2>5, <2>6, <2>7, <2>8, <2>9, <2>10, <2>11, <2>12 DEF Next
<1>4. ASSUME NEW t \in Calls, Store(t) PROVE TypeOK'
  <2>1. server' = server /\ Indices' = Indices
    BY <1>4 DEF Store, server_vars, Indices
  <2>2. /\ cache' \in [md : Values, cfg : Values, active : BOOLEAN]
        /\ at' \in [md : Indices', cfg : Indices']
    BY <1>4, <2>1, StoreTypes
  <2>. QED BY <1>1, <1>2, <1>4, <2>2 DEF TypeOK, Store, Goto, server_vars, call_vars
<1>. QED BY <1>3, <1>4

(* Serving a request answers with the present state of an object that      *)
(* exists, unless the request is a DELETE or refused.                      *)
LEMMA ServeAnswers ==
  ASSUME TypeOK, NEW t \in Calls, Serve(t), op[t] \in AllOps, ~Refused(t), op[t] # "delete"
  PROVE  server'[Len(server')].exists
<1>1. Now \in States /\ Write(t) \in States
  BY StateTypes DEF TypeOK
<1>2. Write(t).exists
  <2>1. op[t] \in {"read", "read_raw"} \union Puts
    BY DEF AllOps
  <2>2. CASE op[t] \in Puts
    <3>1. Now.exists
      BY <1>1, <2>2 DEF Refused, States
    <3>. QED BY <1>1, <2>2, <3>1 DEF Write, Puts, States
  <2>3. CASE op[t] \in {"read", "read_raw"}
    BY <1>1, <2>3 DEF Write, Default, States
  <2>. QED BY <2>1, <2>2, <2>3
<1>3. server'[Len(server')] = Write(t)
  <2>1. CASE Write(t) = Now
    BY <2>1 DEF Serve, Apply, Now
  <2>2. CASE Write(t) # Now
    <3>1. server' = Append(server, Write(t))
      BY <2>2 DEF Serve, Apply
    <3>. QED BY <1>1, <3>1 DEF TypeOK
  <2>. QED BY <2>1, <2>2
<1>. QED BY <1>2, <1>3

LEMMA AnsweredStep == TypeOK /\ Answered /\ [Next]_vars => Answered'
<1> SUFFICES ASSUME TypeOK, Answered, [Next]_vars PROVE Answered'
  OBVIOUS
<1>1. /\ Grown /\ Len(server) \in Nat /\ Len(server') \in Nat
      /\ Len(server) <= Len(server') /\ Len(server) > 0
      /\ \A i \in 1..Len(server) : server'[i] = server[i]
  BY ServerGrows DEF TypeOK, Grown
<1>2. /\ pc \in [Calls -> {"idle", "waiting", "stored", "ok", "err", "dropped"}]
      /\ net \in [Calls -> {"none", "sent", "ok", "refused", "lost"}]
      /\ op \in [Calls -> AllOps \union {"none"}]
      /\ answer \in [Calls -> Nat] /\ start \in [Calls -> Nat] /\ ret \in [Calls -> Nat]
  BY DEF TypeOK
<1>3. ASSUME NEW u \in Calls,
             UNCHANGED <<pc[u], start[u], net[u], answer[u], op[u], ret[u]>>
      PROVE  AnsweredCall(u)'
  <2>1. AnsweredCall(u)
    BY DEF Answered
  <2>2. answer[u] \in Nat /\ start[u] \in Nat /\ ret[u] \in Nat
    BY <1>2
  <2>. QED BY <1>1, <1>3, <2>1, <2>2 DEF AnsweredCall
<1>4. ASSUME NEW t \in Calls, AnsweredCall(t)',
             \A u \in Calls \ {t} :
               UNCHANGED <<pc[u], start[u], net[u], answer[u], op[u], ret[u]>>
      PROVE  Answered'
  <2>. SUFFICES ASSUME NEW u \in Calls, u # t PROVE AnsweredCall(u)'
    BY <1>4 DEF Answered
  <2>. QED BY <1>3, <1>4
<1>5. ASSUME NEW t \in Calls, NEW o \in Ops, Start(t, o) PROVE Answered'
  <2>0. o \in AllOps
    BY <1>5 DEF Start, Ops, AllOps
  <2>1. AnsweredCall(t)'
    BY <1>1, <1>2, <1>5, <2>0 DEF AnsweredCall, Start, Goto, server_vars
  <2>. QED BY <1>2, <1>4, <1>5, <2>1 DEF Start, Goto
<1>6. ASSUME NEW t \in Calls, Retry(t) \/ Fail(t) \/ Cancel(t) \/ Refuse(t) \/ Lose(t)
      PROVE  Answered'
  <2>1. AnsweredCall(t)
    BY DEF Answered
  <2>2. UNCHANGED <<server, start, op, answer, ret>>
    BY <1>6 DEF Retry, Fail, Cancel, Refuse, Lose, server_vars, call_vars
  <2>3. /\ pc'[t] \in {pc[t], "err", "dropped"} /\ net'[t] \in {net[t], "sent", "refused", "lost"}
        /\ pc[t] = "waiting"
        /\ \A u \in Calls \ {t} : UNCHANGED <<pc[u], net[u]>>
    BY <1>2, <1>6 DEF Retry, Fail, Cancel, Refuse, Lose, Goto
  <2>4. AnsweredCall(t)'
    BY <2>1, <2>2, <2>3 DEF AnsweredCall
  <2>. QED BY <1>4, <2>2, <2>3, <2>4
<1>7. ASSUME NEW t \in Calls, Store(t) \/ Return(t) PROVE Answered'
  <2>1. AnsweredCall(t)
    BY DEF Answered
  <2>2. AnsweredCall(t)'
    BY <1>1, <1>2, <1>7, <2>1 DEF AnsweredCall, Store, Return, Goto, server_vars, call_vars
  <2>. QED BY <1>2, <1>4, <1>7, <2>2 DEF Store, Return, Goto, call_vars
<1>8. ASSUME NEW t \in Calls, Serve(t) PROVE Answered'
  <2>1. AnsweredCall(t) /\ pc[t] = "waiting" /\ op[t] \in AllOps
    BY <1>8 DEF Answered, AnsweredCall, Serve
  <2>2. /\ UNCHANGED <<pc, op, start, ret>>
        /\ answer'[t] = Len(server')
        /\ net'[t] = "ok" => ~Refused(t)
        /\ \A u \in Calls \ {t} : UNCHANGED <<answer[u], net[u]>>
    BY <1>2, <1>8 DEF Serve, call_vars
  <2>3. net'[t] = "ok" /\ op[t] # "delete" => server'[Len(server')].exists
    BY <1>8, <2>1, <2>2, ServeAnswers
  <2>4. AnsweredCall(t)'
    BY <1>1, <1>2, <2>1, <2>2, <2>3 DEF AnsweredCall
  <2>. QED BY <1>4, <2>2, <2>4
<1>9. CASE UNCHANGED <<pc, start, net, answer, op, ret>>
  BY <1>3, <1>9 DEF Answered
<1>10. CASE OtherChange \/ (\E t \in Calls : LateEffect(t)) \/ UNCHANGED vars
  BY <1>9, <1>10 DEF OtherChange, LateEffect, vars, call_vars
<1>. QED BY <1>5, <1>6, <1>7, <1>8, <1>10 DEF Next

(* The floor is moved when no call runs, and calls begin above it. *)
LEMMA FloorsStep == TypeOK /\ Answered /\ Floors /\ [Next]_vars => Floors'
<1> SUFFICES ASSUME TypeOK, Answered, Floors, [Next]_vars PROVE Floors'
  OBVIOUS
<1>1. /\ at.md \in Nat /\ at.cfg \in Nat /\ floor.md \in Nat /\ floor.cfg \in Nat
      /\ at.md <= Len(server) /\ at.cfg <= Len(server) /\ Len(server) \in Nat
      /\ pc \in [Calls -> {"idle", "waiting", "stored", "ok", "err", "dropped"}]
      /\ answer \in [Calls -> Nat] /\ start \in [Calls -> Nat]
  BY DEF TypeOK, Indices
<1>2. CASE Settle /\ at' = at /\ Running' \subseteq Running /\ start' = start
  <2>1. CASE Running' = {}
    BY <1>1, <1>2, <2>1 DEF Settle, Floors
  <2>2. CASE Running' # {}
    BY <1>2, <2>2 DEF Settle, Floors
  <2>. QED BY <2>1, <2>2
<1>3. CASE UNCHANGED <<floor, at, start>> /\ Running' \subseteq Running
  BY <1>3 DEF Floors
<1>4. ASSUME NEW t \in Calls, NEW o \in Ops, Start(t, o) PROVE Floors'
  <2>1. /\ UNCHANGED <<floor, at>> /\ start'[t] = Len(server)
        /\ \A u \in Running' : u = t \/ (u \in Running /\ start'[u] = start[u])
    BY <1>1, <1>4 DEF Start, Goto, Running
  <2>. QED BY <1>1, <2>1 DEF Floors
<1>5. ASSUME NEW t \in Calls, Store(t) PROVE Floors'
  <2>1. t \in Running /\ start[t] <= answer[t]
    BY <1>5 DEF Store, Running, Answered, AnsweredCall
  <2>2. /\ UNCHANGED <<floor, start>> /\ at'.md \in {at.md, answer[t]}
        /\ at'.cfg \in {at.cfg, answer[t]}
    BY <1>5 DEF Store, call_vars
  <2>3. Running' \subseteq Running
    BY <1>1, <1>5, <2>1 DEF Store, Goto, Running
  <2>. QED BY <1>1, <2>1, <2>2, <2>3 DEF Floors
<1>6. ASSUME NEW t \in Calls, Fail(t) \/ Return(t) \/ Cancel(t) PROVE Floors'
  <2>1. Settle /\ at' = at /\ start' = start
    BY <1>6 DEF Fail, Return, Cancel, call_vars
  <2>2. Running' \subseteq Running
    BY <1>1, <1>6 DEF Fail, Return, Cancel, Goto, Running
  <2>. QED BY <1>2, <2>1, <2>2
<1>7. ASSUME NEW t \in Calls,
             Retry(t) \/ Serve(t) \/ Refuse(t) \/ Lose(t) \/ LateEffect(t)
      PROVE  Floors'
  BY <1>3, <1>7 DEF Retry, Serve, Refuse, Lose, LateEffect, call_vars, Running
<1>8. CASE OtherChange \/ UNCHANGED vars
  BY <1>3, <1>8 DEF OtherChange, vars, call_vars, Running
<1>. QED BY <1>4, <1>5, <1>6, <1>7, <1>8 DEF Next

(* An answer that is stored is stored as a whole in a session. *)
LEMMA CachedStep == TypeOK /\ Answered /\ Cached /\ [Next]_vars => Cached'
<1> SUFFICES ASSUME TypeOK, Answered, Cached, [Next]_vars, kind' = "session" PROVE Cached'
  BY DEF Cached
<1>0. kind = "session"
  BY DEF Next, Start, Retry, Fail, Store, Return, Cancel, Serve, Refuse, Lose,
         LateEffect, OtherChange, vars, call_vars
<1>1. Grown /\ at.md \in 1..Len(server)
  BY ServerGrows DEF TypeOK, Indices
<1>2. CASE UNCHANGED <<cache, at>>
  <2>1. server'[at.md] = server[at.md]
    BY <1>1 DEF Grown
  <2>. QED BY <1>0, <1>2, <2>1 DEF Cached
<1>3. ASSUME NEW t \in Calls, Store(t) PROVE Cached'
  <2>1. /\ net[t] = "ok" /\ server' = server /\ op[t] \in AllOps
        /\ cache \in [md : Values, cfg : Values, active : BOOLEAN]
        /\ at \in [md : Indices, cfg : Indices]
    BY <1>3 DEF Store, server_vars, Answered, AnsweredCall, TypeOK
  <2>2. CASE op[t] \in {"read"} \union Puts
    <3>1. StoresMetadata(op[t]) /\ StoresConfiguration(op[t]) /\ op[t] # "delete"
      BY <1>0, <2>2 DEF StoresMetadata, StoresConfiguration, Puts
    <3>2. server[answer[t]].exists
      BY <2>1, <3>1 DEF Answered, AnsweredCall
    <3>3. /\ cache' = [md |-> server[answer[t]].md, cfg |-> server[answer[t]].cfg,
                       active |-> server[answer[t]].active]
          /\ at'.md = answer[t] /\ at'.cfg = answer[t]
      BY <1>3, <3>1 DEF Store
    <3>. QED BY <2>1, <3>2, <3>3 DEF Cached
  <2>3. CASE op[t] \notin {"read"} \union Puts
    <3>1. ~StoresMetadata(op[t]) /\ ~StoresConfiguration(op[t])
      BY <2>3 DEF StoresMetadata, StoresConfiguration, Puts
    <3>2. cache' = cache /\ at' = at
      BY <1>3, <2>1, <3>1 DEF Store
    <3>. QED BY <1>2, <3>2
  <2>. QED BY <2>2, <2>3
<1>4. ASSUME ~(\E t \in Calls : Store(t)) PROVE Cached'
  BY <1>2, <1>4 DEF Next, Start, Retry, Fail, Return, Cancel, Serve, Refuse, Lose,
                    LateEffect, OtherChange, vars
<1>. QED BY <1>3, <1>4

LEMMA InvHolds == Spec => []Inv
<1>1. Inv /\ [Next]_vars => Inv'
  BY TypeStep, AnsweredStep, FloorsStep, CachedStep DEF Inv
<1>. QED BY <1>1, InitHolds, PTL DEF Spec

-----------------------------------------------------------------------------
(* Every variable keeps its type. *)
THEOREM TypeCorrect == Spec => []TypeOK
BY InvHolds, PTL DEF Inv

(* A session's cached fields are always those of one state of the session. *)
THEOREM CacheCoherentHolds == Spec => []CacheCoherent
<1>1. Inv => CacheCoherent
  BY DEF Inv, Cached, CacheCoherent, IsSnapshot, TypeOK
<1>. QED BY <1>1, InvHolds, PTL

(* Overlapping calls are the only way for the cache to go back in time. *)
THEOREM QuietNoRegressHolds == Spec => []QuietNoRegress
<1>1. Inv => QuietNoRegress
  BY DEF Inv, Floors, QuietNoRegress
<1>. QED BY <1>1, InvHolds, PTL

(* A read returns a state the object had during the call. *)
THEOREM ReadsFreshHolds == Spec => []ReadsFresh
<1>1. Inv => ReadsFresh
  BY DEF Inv, Answered, AnsweredCall, ReadsFresh
<1>. QED BY <1>1, InvHolds, PTL
=============================================================================
