------------------------- MODULE BlockingFacadeProofs -------------------------
(***************************************************************************)
(* The runtime is built once, calls are driven on it from plain threads    *)
(* only, and an iteration of a chat stream tells how it ended: for every   *)
(* number of threads, contents and pages.  And what holds of a streamed    *)
(* upload, for any file and any size of the pipe.                          *)
(***************************************************************************)
EXTENDS BlockingFacade, UploadPipe, SequenceTheorems, TLAPS

(* A call has a kind, and asks only while it is driven. *)
CallInv ==
  \A t \in Threads :
    /\ (pc[t] = "idle") = (kind[t] = "none")
    /\ pc[t] \in {"idle", "runtime", "build"} => asked[t] = 0
    /\ pc[t] = "drive" => asked[t] < MaxPages /\ kind[t] \in Calls \union {"next"}
    /\ pc[t] = "wait" => kind[t] \in Calls
    /\ kind[t] \in Calls \union {"next"} => t \notin nested

(* At most one call opens the stream, and one polls it, until it is over. *)
UseInv ==
  \A t \in Threads :
    /\ kind[t] = "open" => stream = NoStream /\ \A u \in Threads : kind[u] = "open" => u = t
    /\ kind[t] = "next" => /\ stream # NoStream /\ ~IsComplete
                         /\ \A u \in Threads : kind[u] = "next" => u = t

(* The iterator has given the contents and, once it is complete, the first *)
(* thing that is not a content says why.                                   *)
Given == Len(out) >= stream.given /\ \A i \in 1..Len(out) : (out[i] = "item") = (i <= stream.given)
Why(what) ==
  /\ what = "end" => stream.given = stream.size /\ stream.end = "clean"
  /\ what = "failed" => stream.given = stream.size /\ stream.end = "error"
IterInv ==
  /\ IterType
  /\ Given
  /\ stream = NoStream => out = <<>> /\ ~fused
  /\ ~IsComplete => Len(out) = stream.given
  /\ IsComplete => /\ Len(out) > stream.given
                   /\ Why(out[stream.given + 1])
                   /\ \A i \in 1..Len(out) : i > stream.given + 1 => out[i] = "end"

ThreadInv == CallType /\ OneRuntime /\ CallInv
Inv == ThreadInv /\ UseInv /\ IterInv

-----------------------------------------------------------------------------
(* The kinds of calls, spelt out. *)
LEMMA KindFacts ==
  /\ Calls = {"call", "list", "open"}
  /\ Kinds = {"call", "list", "open", "none", "next", "upload"}
  BY DEF Calls, Kinds, ClientCalls, SessionCalls, PeerCalls, ScopeCalls

(* No call, no runtime and no stream to begin with. *)
LEMMA InitInv == Init => Inv
<1> SUFFICES ASSUME Init PROVE Inv
  OBVIOUS
<1>1. ThreadInv
  BY ConstantsAssumption, KindFacts DEF Init, ThreadInv, CallType, OneRuntime, CallInv, Places
<1>2. UseInv
  BY DEF Init, UseInv
<1>3. IterInv
  <2>1. out = <<>> /\ Len(out) = 0 /\ out \in Seq(Gifts)
    BY DEF Init
  <2>2. IterType
    <3>1. 0 \in 0..MaxItems /\ 0 \in 0..MaxItems + 1
      BY ConstantsAssumption
    <3>2. stream = NoStream /\ fused \in BOOLEAN
      BY DEF Init
    <3>. QED BY <2>1, <3>1, <3>2 DEF IterType, NoStream
  <2>. QED BY <2>1, <2>2 DEF Init, IterInv, Given, NoStream, IsComplete
<1>. QED BY <1>1, <1>2, <1>3 DEF Inv

-----------------------------------------------------------------------------
(* Most steps leave the iterator alone. *)
LEMMA IterKept == ASSUME IterInv, UNCHANGED iter_vars PROVE IterInv'
  BY DEF IterInv, IterType, iter_vars, Given, Why, IsComplete

(* Between calls a thread may enter and leave async code. *)
LEMMA InvMove == ASSUME NEW t \in Threads, Inv, Move(t) PROVE Inv'
<1>1. ThreadInv'
  BY KindFacts DEF Inv, Move, ThreadInv, CallType, OneRuntime, CallInv, call_vars
<1>2. UseInv'
  BY DEF Inv, Move, UseInv, call_vars, iter_vars, IsComplete
<1>3. IterInv'
  BY IterKept DEF Inv, Move
<1>. QED BY <1>1, <1>2, <1>3 DEF Inv

(* A call that starts on a thread where it may. *)
LEMMA InvEnter ==
  ASSUME NEW t \in Threads, NEW k \in Calls \union {"next", "upload"}, NEW g \in BOOLEAN,
         Inv, Enter(t, k, g), UNCHANGED <<runtime, nested>>,
         g = (k # "upload")
  PROVE  ThreadInv'
<1>1. CASE UNCHANGED call_vars
  BY <1>1 DEF Inv, ThreadInv, CallType, OneRuntime, CallInv, call_vars
<1>2. CASE ~UNCHANGED call_vars
  <2>1. /\ pc[t] = "idle" /\ pc' = [pc EXCEPT ![t] = "runtime"]
        /\ kind' = [kind EXCEPT ![t] = k] /\ asked' = asked
        /\ k # "upload" => t \notin nested
    BY <1>2 DEF Enter, Goto, call_vars
  <2>. USE DEF Inv, ThreadInv
  <2>2. CallType'
    BY <2>1, KindFacts DEF CallType, Places
  <2>3. OneRuntime'
    BY <2>1 DEF CallType, OneRuntime
  <2>4. CallInv'
    BY <2>1, KindFacts DEF CallType, CallInv
  <2>. QED BY <2>2, <2>3, <2>4
<1>. QED BY <1>1, <1>2

(* A call of a wrapped method (runtime.rs:96-101). *)
LEMMA InvCall == ASSUME NEW t \in Threads, Inv, Call(t) PROVE Inv'
<1>1. PICK k \in Calls : (k = "open" => ~Opening) /\ Enter(t, k, TRUE)
  BY DEF Call
<1>2. ThreadInv'
  BY <1>1, InvEnter, KindFacts DEF Call
<1>3. UseInv'
  BY <1>1, KindFacts DEF Inv, UseInv, Call, Enter, Goto, call_vars, iter_vars, IsComplete, Opening,
     ThreadInv, CallType
<1>. QED BY <1>2, <1>3, IterKept DEF Inv, Call

(* A call that wants only the handle (runtime.rs:70-75). *)
LEMMA InvUpload == ASSUME NEW t \in Threads, Inv, Upload(t) PROVE Inv'
<1>1. ThreadInv'
  BY InvEnter DEF Upload
<1>2. UseInv'
  BY DEF Inv, UseInv, Upload, Enter, Goto, iter_vars, IsComplete, ThreadInv, CallType
<1>. QED BY <1>1, <1>2, IterKept DEF Inv, Upload

-----------------------------------------------------------------------------
(* A call that goes on, or is over, keeps the claim on the stream. *)
LEMMA UseKept ==
  ASSUME UseInv, UNCHANGED iter_vars, \A u \in Threads : kind'[u] \in {kind[u], "none"}
  PROVE  UseInv'
  BY DEF UseInv, iter_vars, IsComplete

(* A call that is over owes nothing and holds nothing. *)
LEMMA ReturnKept ==
  ASSUME NEW t \in Threads, ThreadInv, Return(t), UNCHANGED <<runtime, nested>>
  PROVE  /\ ThreadInv'
         /\ \A u \in Threads : kind'[u] = IF u = t THEN "none" ELSE kind[u]
<1>. USE DEF ThreadInv
<1>1. /\ pc' = [pc EXCEPT ![t] = "idle"] /\ kind' = [kind EXCEPT ![t] = "none"]
      /\ asked' = [asked EXCEPT ![t] = 0]
  BY DEF Return, Goto
<1>2. 0 \in 0..MaxPages
  BY ConstantsAssumption
<1>3. CallType'
  BY <1>1, <1>2, KindFacts DEF CallType, Places
<1>4. OneRuntime'
  BY <1>1 DEF CallType, OneRuntime
<1>5. CallInv'
  BY <1>1, KindFacts DEF CallType, CallInv
<1>. QED BY <1>1, <1>3, <1>4, <1>5 DEF CallType

(* The thread goes on with its call. *)
LEMMA InvStartBuild == ASSUME NEW t \in Threads, Inv, StartBuild(t) PROVE Inv'
<1>. USE DEF Inv, ThreadInv
<1>1. /\ pc[t] = "runtime" /\ runtime = "unset" /\ \A u \in Threads : pc[u] # "build"
      /\ pc' = [pc EXCEPT ![t] = "build"]
      /\ runtime' = runtime /\ nested' = nested /\ kind' = kind /\ asked' = asked
      /\ UNCHANGED iter_vars
  BY DEF StartBuild, Goto, iter_vars
<1>2. CallType'
  BY <1>1 DEF CallType, Places
<1>3. OneRuntime'
  BY <1>1 DEF CallType, OneRuntime
<1>4. CallInv'
  BY <1>1 DEF CallType, CallInv
<1>5. UseInv'
  BY <1>1, UseKept
<1>. QED BY <1>1, <1>2, <1>3, <1>4, <1>5, IterKept

(* The thread that builds is the only one, and nothing was driven before. *)
LEMMA InvBuild == ASSUME NEW t \in Threads, Inv, Build(t) PROVE Inv'
<1>. USE DEF Inv, ThreadInv
<1>1. /\ pc[t] = "build" /\ pc' = [pc EXCEPT ![t] = "runtime"]
      /\ runtime' \in {"built", "failed"} /\ nested' = nested /\ kind' = kind /\ asked' = asked
      /\ UNCHANGED iter_vars
  BY DEF Build, Goto, iter_vars
<1>2. CallType'
  BY <1>1 DEF CallType, Places
<1>3. OneRuntime'
  <2>1. \A u \in Threads : pc[u] \notin {"drive", "wait"}
    BY <1>1 DEF OneRuntime
  <2>2. \A u \in Threads : pc'[u] \notin {"build", "drive", "wait"}
    BY <1>1, <2>1 DEF CallType, OneRuntime
  <2>. QED BY <2>2 DEF OneRuntime
<1>4. CallInv'
  BY <1>1 DEF CallType, CallInv
<1>5. UseInv'
  BY <1>1, UseKept
<1>. QED BY <1>1, <1>2, <1>3, <1>4, <1>5, IterKept

(* A thread drives its call only on a runtime that was built. *)
LEMMA InvHaveRuntime == ASSUME NEW t \in Threads, Inv, HaveRuntime(t) PROVE Inv'
<1>. USE DEF Inv, ThreadInv
<1>1. pc[t] = "runtime" /\ runtime # "unset" /\ UNCHANGED <<runtime, nested>> /\ UNCHANGED iter_vars
  BY DEF HaveRuntime, iter_vars
<1>2. CASE Return(t)
  BY <1>1, <1>2, ReturnKept, UseKept, IterKept
<1>3. CASE ~Return(t)
  <2>1. /\ runtime # "failed" /\ kind[t] # "upload" /\ pc' = [pc EXCEPT ![t] = "drive"]
        /\ kind' = kind /\ asked' = asked
    BY <1>3 DEF HaveRuntime, Goto
  <2>2. runtime = "built" /\ asked[t] < MaxPages
    BY <1>1, <2>1, ConstantsAssumption DEF CallType, CallInv
  <2>3. kind[t] \in Calls \union {"next"} /\ t \notin nested
    BY <1>1, <2>1, KindFacts DEF CallType, CallInv
  <2>4. CallType'
    BY <1>1, <2>1 DEF CallType, Places
  <2>5. OneRuntime'
    BY <1>1, <2>1, <2>2, <2>3 DEF CallType, OneRuntime
  <2>6. CallInv'
    BY <1>1, <2>1, <2>2, <2>3 DEF CallType, CallInv
  <2>7. UseInv'
    BY <1>1, <2>1, UseKept
  <2>. QED BY <1>1, <2>4, <2>5, <2>6, <2>7, IterKept
<1>. QED BY <1>2, <1>3

(* A request more, within the pages of the list. *)
LEMMA InvAsk == ASSUME NEW t \in Threads, Inv, Ask(t) PROVE Inv'
<1>. USE DEF Inv, ThreadInv
<1>1. /\ pc[t] = "drive" /\ kind[t] # "next" /\ asked' = [asked EXCEPT ![t] = @ + 1]
      /\ pc' = [pc EXCEPT ![t] = "wait"]
      /\ runtime' = runtime /\ nested' = nested /\ kind' = kind /\ UNCHANGED iter_vars
  BY DEF Ask, Goto, iter_vars
<1>2. asked[t] + 1 \in 0..MaxPages
  BY <1>1, ConstantsAssumption DEF CallType, CallInv
<1>3. CallType'
  BY <1>1, <1>2 DEF CallType, Places
<1>4. OneRuntime'
  BY <1>1 DEF CallType, OneRuntime
<1>5. kind[t] \in Calls
  BY <1>1 DEF CallInv
<1>6. CallInv'
  BY <1>1, <1>5 DEF CallType, CallInv
<1>7. UseInv'
  BY <1>1, UseKept
<1>. QED BY <1>1, <1>3, <1>4, <1>6, <1>7, IterKept

(* A page that is not the last. *)
LEMMA InvAnswerMore == ASSUME NEW t \in Threads, Inv, AnswerMore(t) PROVE Inv'
<1>. USE DEF Inv, ThreadInv
<1>1. /\ pc[t] = "wait" /\ kind[t] = "list" /\ asked[t] < MaxPages
      /\ pc' = [pc EXCEPT ![t] = "drive"]
      /\ runtime' = runtime /\ nested' = nested /\ kind' = kind /\ asked' = asked
      /\ UNCHANGED iter_vars
  BY DEF AnswerMore, Goto, iter_vars
<1>2. CallType'
  BY <1>1 DEF CallType, Places
<1>3. OneRuntime'
  BY <1>1 DEF CallType, OneRuntime
<1>4. CallInv'
  BY <1>1, KindFacts DEF CallType, CallInv
<1>5. UseInv'
  BY <1>1, UseKept
<1>. QED BY <1>1, <1>2, <1>3, <1>4, <1>5, IterKept

(* A failed call is over. *)
LEMMA InvAnswerFails == ASSUME NEW t \in Threads, Inv, AnswerFails(t) PROVE Inv'
<1>1. Return(t) /\ UNCHANGED <<runtime, nested>> /\ UNCHANGED iter_vars
  BY DEF AnswerFails
<1>2. UseInv'
  BY <1>1, ReturnKept, UseKept DEF Inv
<1>. QED BY <1>1, <1>2, ReturnKept, IterKept DEF Inv

(* The answer to the POST of a chat: now there is a stream, and its iterator. *)
LEMMA InvAnswerLast == ASSUME NEW t \in Threads, Inv, AnswerLast(t) PROVE Inv'
<1>. USE DEF Inv
<1>1. Return(t) /\ UNCHANGED <<runtime, nested, fused, out>>
  BY DEF AnswerLast
<1>2. ThreadInv' /\ \A u \in Threads : kind'[u] = IF u = t THEN "none" ELSE kind[u]
  BY <1>1, ReturnKept
<1>3. CASE kind[t] # "open"
  <2>1. UNCHANGED iter_vars
    BY <1>1, <1>3 DEF AnswerLast, iter_vars
  <2>. QED BY <2>1, <1>2, UseKept, IterKept
<1>4. CASE kind[t] = "open"
  <2>1. PICK n \in 0..MaxItems, e \in {"clean", "error"} :
          stream' = [NoStream EXCEPT !.state = "open", !.size = n, !.end = e]
    BY <1>4 DEF AnswerLast
  <2>2. stream = NoStream /\ \A u \in Threads : kind[u] = "open" => u = t
    BY <1>4 DEF UseInv
  <2>3. UseInv'
    <3>1. \A u \in Threads : kind'[u] # "open" /\ kind'[u] # "next"
      BY <1>2, <2>2 DEF UseInv
    <3>. QED BY <3>1 DEF UseInv
  <2>4. IterInv'
    <3>1. stream' = [state |-> "open", size |-> n, end |-> e, arrived |-> 0, given |-> 0]
      BY <2>1 DEF NoStream
    <3>2. 0 \in 0..MaxItems /\ 0 \in 0..MaxItems + 1
      BY ConstantsAssumption
    <3>3. IterType'
      BY <1>1, <3>1, <3>2 DEF IterInv, IterType
    <3>4. out = <<>> /\ ~fused
      BY <2>2 DEF IterInv
    <3>5. stream' # NoStream /\ ~IsComplete' /\ stream'.given = 0
      BY <1>1, <3>1, <3>4 DEF NoStream, IsComplete
    <3>6. out' = <<>> /\ Len(out') = 0
      BY <1>1, <3>4
    <3>. QED BY <3>3, <3>5, <3>6 DEF IterInv, Given
  <2>. QED BY <1>2, <2>3, <2>4
<1>. QED BY <1>3, <1>4

(* Steps of the stream leave the calls alone. *)
LEMMA ThreadKept ==
  ASSUME ThreadInv, UNCHANGED <<runtime, nested, pc, kind, asked>> PROVE ThreadInv'
  BY DEF ThreadInv, CallType, OneRuntime, CallInv

(* What comes in leaves what was given as it is. *)
LEMMA InvArrive == ASSUME Inv, Arrive PROVE Inv'
<1>. USE DEF Inv
<1>1. ThreadInv'
  BY ThreadKept DEF Arrive, call_vars
<1>2. /\ stream.state = "open" /\ stream.arrived <= stream.size
      /\ stream' = [stream EXCEPT !.arrived = @ + 1]
      /\ kind' = kind /\ fused' = fused /\ out' = out
  BY DEF Arrive, call_vars
<1>3. IterType'
  <2>1. stream.arrived + 1 \in 0..MaxItems + 1
    BY <1>2, ConstantsAssumption DEF IterInv, IterType
  <2>. QED BY <1>2, <2>1 DEF IterInv, IterType
<1>4. /\ stream'.given = stream.given /\ stream'.size = stream.size /\ stream'.end = stream.end
      /\ stream'.state = "open" /\ stream # NoStream /\ stream' # NoStream
      /\ IsComplete' = IsComplete
  BY <1>2 DEF IterInv, IterType, IsComplete, NoStream
<1>5. UseInv'
  BY <1>2, <1>4 DEF UseInv
<1>6. IterInv'
  BY <1>2, <1>3, <1>4 DEF IterInv, Given, Why
<1>. QED BY <1>1, <1>5, <1>6

-----------------------------------------------------------------------------
(* What next() gives is added to what it gave. *)
LEMMA Gave ==
  ASSUME IterInv, NEW what \in Gifts, Give(what)
  PROVE  /\ out' \in Seq(Gifts)
         /\ Len(out') = Len(out) + 1 /\ Len(out) \in Nat
         /\ \A i \in 1..Len(out) : out'[i] = out[i]
         /\ out'[Len(out) + 1] = what
  BY DEF IterInv, IterType, Give

(* next() of a complete iterator gives the end again (peer.rs:349-351). *)
LEMMA InvNextAtEnd == ASSUME NEW t \in Threads, Inv, NextAtEnd(t) PROVE Inv'
<1>. USE DEF Inv
<1>1. ThreadInv'
  BY ThreadKept DEF NextAtEnd, call_vars
<1>2. /\ IsComplete /\ Give("end") /\ stream' = stream /\ fused' = fused /\ kind' = kind
      /\ stream # NoStream
  BY DEF NextAtEnd, Free, call_vars
<1>3. UseInv'
  BY <1>2 DEF UseInv, IsComplete
<1>4. "end" \in Gifts
  BY DEF Gifts
<1>5. IterType'
  BY <1>2, <1>4, Gave DEF IterInv, IterType
<1>6. Given'
  <2>1. Len(out) > stream.given /\ Given /\ stream.given \in Nat /\ stream'.given = stream.given
    BY <1>2 DEF IterInv, IterType
  <2>2. /\ Len(out') = Len(out) + 1 /\ Len(out) \in Nat
        /\ \A i \in 1..Len(out) : out'[i] = out[i]
        /\ out'[Len(out) + 1] = "end"
    BY <1>2, <1>4, Gave
  <2> DEFINE n == Len(out)
             m == Len(out')
             g == stream.given
  <2>3. n \in Nat /\ g \in Nat /\ n > g /\ m = n + 1
    BY <2>1, <2>2
  <2>4. \A i \in 1..n : out'[i] = out[i] /\ (out[i] = "item") = (i <= g)
    BY <2>1, <2>2 DEF Given
  <2>5. out'[n + 1] = "end"
    BY <2>2
  <2>. HIDE DEF n, m, g
  <2>6. m >= g /\ \A i \in 1..m : (out'[i] = "item") = (i <= g)
    <3>1. m >= g
      BY <2>3
    <3>2. ASSUME NEW i \in 1..m PROVE (out'[i] = "item") = (i <= g)
      <4>1. CASE i \in 1..n
        BY <2>4, <4>1
      <4>2. CASE i = n + 1
        <5>1. ~(i <= g)
          BY <2>3, <4>2
        <5>. QED BY <2>5, <4>2, <5>1
      <4>. QED BY <2>3, <4>1, <4>2
    <3>. QED BY <3>1, <3>2
  <2>. QED BY <2>1, <2>6 DEF Given, m, g
<1>7. IsComplete' /\ Len(out') > stream'.given /\ stream.given \in Nat
  BY <1>2, <1>4, Gave DEF IterInv, IterType, IsComplete
<1>8. \A i \in 1..Len(out') : i > stream'.given + 1 => out'[i] = "end"
  BY <1>2, <1>4, Gave DEF IterInv, IterType
<1>9. Why(out[stream.given + 1])'
  <2>1. out'[stream.given + 1] = out[stream.given + 1]
    BY <1>2, <1>4, <1>7, Gave DEF IterInv
  <2>. QED BY <1>2, <2>1 DEF IterInv, Why
<1>. QED BY <1>1, <1>2, <1>3, <1>5, <1>6, <1>7, <1>8, <1>9 DEF IterInv

(* The first thing after the contents: an error, or the end. *)
LEMMA FirstOfTheRest ==
  ASSUME IterInv, ~IsComplete, stream # NoStream, IterType', IsComplete', stream' # NoStream,
         NEW what \in Gifts \ {"item"}, Give(what),
         stream'.given = stream.given, stream'.size = stream.size, stream'.end = stream.end,
         Why(what)
  PROVE  IterInv'
<1>1. /\ stream.given \in Nat /\ Len(out) = stream.given
      /\ Len(out') = stream.given + 1 /\ out'[stream.given + 1] = what
      /\ \A i \in 1..stream.given : out'[i] = "item"
  BY Gave DEF IterInv, IterType, Given
<1>2. Given'
  BY <1>1 DEF Given
<1>3. Why(out[stream.given + 1])'
  BY <1>1 DEF Why
<1>. QED BY <1>1, <1>2, <1>3 DEF IterInv

(* next() in an async context fuses the iterator (peer.rs:355-364). *)
LEMMA InvNextRefused == ASSUME NEW t \in Threads, Inv, NextRefused(t) PROVE Inv'
<1>. USE DEF Inv
<1>1. /\ stream # NoStream /\ \A u \in Threads : kind[u] # "next"
      /\ ~IsComplete /\ fused' = TRUE /\ Give("refused")
      /\ UNCHANGED <<runtime, nested, stream, pc, kind, asked>>
  BY DEF NextRefused, Free, Enter, call_vars
<1>2. ThreadInv'
  BY <1>1, ThreadKept
<1>3. UseInv'
  BY <1>1 DEF UseInv
<1>4. "refused" \in Gifts /\ Why("refused")
  BY DEF Gifts, Why
<1>5. IterType' /\ IsComplete'
  BY <1>1, <1>4, Gave DEF IterInv, IterType, IsComplete
<1>6. IterInv'
  BY <1>1, <1>4, <1>5, FirstOfTheRest
<1>. QED BY <1>2, <1>3, <1>6

(* next() elsewhere polls, and nobody else does (iter.rs:69-74). *)
LEMMA InvNextStart == ASSUME NEW t \in Threads, Inv, NextStart(t) PROVE Inv'
<1>. USE DEF Inv
<1>1. /\ stream # NoStream /\ ~IsComplete /\ \A u \in Threads : kind[u] # "next"
      /\ t \notin nested /\ Enter(t, "next", TRUE) /\ UNCHANGED <<runtime, nested>>
      /\ UNCHANGED iter_vars
  BY DEF NextStart, Free
<1>2. ThreadInv'
  BY <1>1, InvEnter
<1>3. UseInv'
  <2>1. \A u \in Threads : kind'[u] = IF u = t THEN "next" ELSE kind[u]
    BY <1>1 DEF Enter, ThreadInv, CallType
  <2>. QED BY <1>1, <2>1 DEF UseInv, iter_vars, IsComplete
<1>. QED BY <1>1, <1>2, <1>3, IterKept

(* A poll that ends is the only one, and its thread gives the iterator back. *)
LEMMA PollOver ==
  ASSUME NEW t \in Threads, Inv, kind[t] = "next", Return(t), UNCHANGED <<runtime, nested>>,
         stream' # NoStream
  PROVE  /\ ThreadInv' /\ UseInv'
         /\ stream # NoStream /\ ~IsComplete
<1>1. ThreadInv' /\ \A u \in Threads : kind'[u] = IF u = t THEN "none" ELSE kind[u]
  BY ReturnKept DEF Inv
<1>2. stream # NoStream /\ ~IsComplete /\ \A u \in Threads : kind[u] = "next" => u = t
  BY DEF Inv, UseInv
<1>3. \A u \in Threads : kind'[u] # "open" /\ kind'[u] # "next"
  BY <1>1, <1>2 DEF Inv, UseInv
<1>. QED BY <1>1, <1>2, <1>3 DEF UseInv

(* A content is given at its position. *)
LEMMA InvPollItem == ASSUME NEW t \in Threads, Inv, PollItem(t) PROVE Inv'
<1>1. /\ kind[t] = "next" /\ Return(t) /\ UNCHANGED <<runtime, nested, fused>>
      /\ stream.given < stream.size /\ Give("item")
      /\ stream' = [stream EXCEPT !.given = @ + 1]
  BY DEF PollItem
<1>2. IterInv /\ IterType
  BY DEF Inv, IterInv
<1>3. stream.given \in Nat /\ stream.given + 1 \in 0..MaxItems
  BY <1>1, <1>2, ConstantsAssumption DEF IterType
<1>4. stream'.given = stream.given + 1 /\ stream'.state = stream.state
  BY <1>1, <1>2 DEF IterType
<1>5. stream' # NoStream
  BY <1>3, <1>4 DEF NoStream
<1>6. ThreadInv' /\ UseInv' /\ stream # NoStream /\ ~IsComplete
  BY <1>1, <1>5, PollOver
<1>7. "item" \in Gifts
  BY DEF Gifts
<1>8. IterType'
  BY <1>1, <1>2, <1>3, <1>7, Gave DEF IterType
<1>9. /\ Len(out) = stream.given /\ Len(out') = stream.given + 1
      /\ out'[stream.given + 1] = "item" /\ \A i \in 1..stream.given : out'[i] = "item"
  BY <1>1, <1>2, <1>6, <1>7, Gave DEF IterInv, Given
<1>10. Given'
  BY <1>3, <1>4, <1>9 DEF Given
<1>11. ~IsComplete'
  BY <1>1, <1>4, <1>6 DEF IsComplete
<1>12. IterInv'
  BY <1>4, <1>5, <1>8, <1>9, <1>10, <1>11 DEF IterInv
<1>. QED BY <1>6, <1>12 DEF Inv

(* The end, or the error, completes the stream. *)
LEMMA InvPollEnd == ASSUME NEW t \in Threads, Inv, PollEnd(t) PROVE Inv'
<1> DEFINE what == IF stream.end = "error" THEN "failed" ELSE "end"
<1>1. /\ kind[t] = "next" /\ Return(t) /\ UNCHANGED <<runtime, nested, fused>>
      /\ stream.given = stream.size /\ Give(what)
      /\ stream' = [stream EXCEPT !.state = "complete"]
  BY DEF PollEnd
<1>2. IterInv /\ IterType
  BY DEF Inv, IterInv
<1>3. /\ stream'.state = "complete" /\ stream'.given = stream.given
      /\ stream'.size = stream.size /\ stream'.end = stream.end
  BY <1>1, <1>2 DEF IterType
<1>4. stream' # NoStream
  BY <1>3 DEF NoStream
<1>5. ThreadInv' /\ UseInv' /\ stream # NoStream /\ ~IsComplete
  BY <1>1, <1>4, PollOver
<1>6. what \in Gifts \ {"item"} /\ Why(what)
  BY <1>1, <1>2 DEF Gifts, Why, IterType
<1>7. IterType' /\ IsComplete'
  BY <1>1, <1>2, <1>3, <1>6, Gave DEF IterType, IsComplete
<1>. HIDE DEF what
<1>8. IterInv'
  BY <1>1, <1>2, <1>3, <1>4, <1>5, <1>6, <1>7, FirstOfTheRest
<1>. QED BY <1>5, <1>8 DEF Inv

-----------------------------------------------------------------------------
(* Steps outside of the facade change nothing. *)
LEMMA InvStutter == Inv /\ UNCHANGED vars => Inv'
<1> SUFFICES ASSUME Inv, UNCHANGED vars PROVE Inv'
  OBVIOUS
<1>1. UNCHANGED <<runtime, nested, pc, kind, asked>> /\ UNCHANGED iter_vars
  BY DEF vars, call_vars
<1>. QED BY <1>1, ThreadKept, UseKept, IterKept DEF Inv

(* Every step keeps the invariant. *)
LEMMA InvNext == Inv /\ [Next]_vars => Inv'
<1> SUFFICES ASSUME Inv, [Next]_vars PROVE Inv'
  OBVIOUS
<1>1. CASE Arrive
  BY <1>1, InvArrive
<1>2. ASSUME NEW t \in Threads, Progress(t) PROVE Inv'
  BY <1>2, InvStartBuild, InvBuild, InvHaveRuntime, InvAsk, InvAnswerMore, InvAnswerLast,
     InvAnswerFails, InvPollItem, InvPollEnd DEF Progress
<1>3. ASSUME NEW t \in Threads,
             Move(t) \/ Call(t) \/ Upload(t) \/ NextAtEnd(t) \/ NextRefused(t) \/ NextStart(t)
      PROVE  Inv'
  BY <1>3, InvMove, InvCall, InvUpload, InvNextAtEnd, InvNextRefused, InvNextStart
<1>4. CASE UNCHANGED vars
  BY <1>4, InvStutter
<1>. QED BY <1>1, <1>2, <1>3, <1>4 DEF Next

(* The invariant of the facade. *)
LEMMA InvHolds == Spec => []Inv
<1>1. Init => Inv
  BY InitInv
<1>2. Inv /\ [Next]_vars => Inv'
  BY InvNext
<1>. QED BY <1>1, <1>2, PTL DEF Spec

(* The runtime is built by one thread, and every request is driven on it   *)
(* from outside of async contexts (runtime.rs:37-49, 94-106).              *)
THEOREM TypeCorrect == Spec => []TypeOK
<1>1. Inv => TypeOK
  BY DEF Inv, ThreadInv, IterInv, TypeOK
<1>. QED BY <1>1, InvHolds, PTL

(* An iteration gives the contents in order and then says how it ended,    *)
(* once, whichever threads call next() (peer.rs:319-366).                  *)
THEOREM IterationHonestHolds == Spec => []IterationHonest
<1>1. Inv => IterationHonest
  <2> SUFFICES ASSUME IterInv PROVE IterationHonest
    BY DEF Inv
  <2>1. stream.given \in Nat /\ DOMAIN out = 1..Len(out) /\ Len(out) \in Nat
    BY ConstantsAssumption DEF IterInv, IterType
  <2>2. {i \in DOMAIN out : out[i] = "item"} = 1..stream.given
    BY <2>1 DEF IterInv, Given
  <2>3. ASSUME Len(out) > stream.given
        PROVE  /\ Why(out[stream.given + 1])
               /\ \A j \in stream.given + 2..Len(out) : out[j] = "end"
    BY <2>1, <2>3 DEF IterInv
  <2>. QED BY <2>2, <2>3 DEF IterationHonest, Why
<1>. QED BY <1>1, InvHolds, PTL

(* What building the runtime gave, a runtime or an error, is given to every *)
(* later call of the program (runtime.rs:30-53).                            *)
THEOREM RuntimeKept == Spec => [][runtime # "unset" => runtime' = runtime]_vars
<1>1. Inv /\ [Next]_vars => [runtime # "unset" => runtime' = runtime]_vars
  <2> SUFFICES ASSUME Inv, [Next]_vars, runtime # "unset" PROVE runtime' = runtime
    OBVIOUS
  <2>1. ASSUME NEW t \in Threads PROVE ~Build(t)
    BY DEF Inv, ThreadInv, OneRuntime, Build
  <2>2. ASSUME NEW t \in Threads, Progress(t) PROVE runtime' = runtime
    BY <2>1, <2>2 DEF Progress, StartBuild, HaveRuntime, Ask, AnswerMore, AnswerLast, AnswerFails,
       PollItem, PollEnd
  <2>. QED BY <2>2 DEF Next, Move, Call, Upload, NextAtEnd, NextRefused, NextStart, Arrive, vars
<1>. QED BY <1>1, InvHolds, PTL DEF Spec

-----------------------------------------------------------------------------
(* The streamed upload: the units of a file in the buffer, pipe and body.  *)
Units == Seq(1..MaxFile)
Upto(n) == [i \in 1..n |-> i]

(* A sequence cut in two, as by a partial read or write. *)
LEMMA Cut ==
  ASSUME NEW s \in Units, NEW n \in 0..Len(s)
  PROVE  /\ SubSeq(s, 1, n) \in Units
         /\ SubSeq(s, n + 1, Len(s)) \in Units
         /\ Len(SubSeq(s, 1, n)) = n
         /\ Len(SubSeq(s, n + 1, Len(s))) = Len(s) - n
         /\ SubSeq(s, 1, n) \o SubSeq(s, n + 1, Len(s)) = s
<1>. USE DEF Units
<1>1. Len(s) \in Nat /\ n \in Int /\ n + 1 \in Int /\ 1 \in Int /\ Len(s) \in Int
  BY LenProperties
<1>2. \A i \in 1..Len(s) : s[i] \in 1..MaxFile
  BY ElementOfSeq
<1>3. /\ SubSeq(s, 1, n) \in Seq(1..MaxFile)
      /\ Len(SubSeq(s, 1, n)) = IF 1 <= n THEN n - 1 + 1 ELSE 0
  <2>1. \A i \in 1..n : s[i] \in 1..MaxFile
    BY <1>1, <1>2
  <2>. QED BY <1>1, <2>1, SubSeqProperties
<1>4. /\ SubSeq(s, n + 1, Len(s)) \in Seq(1..MaxFile)
      /\ Len(SubSeq(s, n + 1, Len(s))) =
           IF n + 1 <= Len(s) THEN Len(s) - (n + 1) + 1 ELSE 0
  <2>1. \A i \in (n + 1)..Len(s) : s[i] \in 1..MaxFile
    BY <1>1, <1>2
  <2>. QED BY <1>1, <2>1, SubSeqProperties
<1>5. SubSeq(s, 1, n) \o SubSeq(s, n + 1, Len(s)) = SubSeq(s, 1, Len(s))
  <2>1. 1 \in 1..(Len(s) + 1) /\ n \in (1 - 1)..Len(s) /\ Len(s) \in n..Len(s)
    BY <1>1
  <2>. QED BY <2>1, ConcatAdjacentSubSeq
<1>6. SubSeq(s, 1, Len(s)) = s
  BY SubSeqFull
<1>7. Len(SubSeq(s, 1, n)) = n
  BY <1>1, <1>3
<1>8. Len(SubSeq(s, n + 1, Len(s))) = Len(s) - n
  BY <1>1, <1>4
<1>. QED BY <1>3, <1>4, <1>5, <1>6, <1>7, <1>8

LEMMA Concat ==
  ASSUME NEW s \in Units, NEW t \in Units
  PROVE  /\ s \o t \in Units
         /\ Len(s \o t) = Len(s) + Len(t)
BY ConcatProperties DEF Units

LEMMA Assoc ==
  \A s, t, u \in Units : (s \o t) \o u = s \o (t \o u)
BY ConcatAssociative DEF Units

(* The file so far, and the next read of n units. *)
LEMMA UptoGrows ==
  ASSUME NEW m \in Nat, NEW n \in Nat, m + n <= MaxFile, MaxFile \in Nat
  PROVE  LET next == [i \in 1..n |-> m + i]
         IN  /\ next \in Units
             /\ Len(next) = n
             /\ Upto(m) \o next = Upto(m + n)
<1>. DEFINE next == [i \in 1..n |-> m + i]
<1>1. Upto(m) \in Units /\ Len(Upto(m)) = m
  BY DEF Units, Upto
<1>2. next \in Units /\ Len(next) = n
  BY DEF Units
<1>3. Upto(m + n) \in Units /\ Len(Upto(m + n)) = m + n
  BY DEF Units, Upto
<1>. HIDE DEF next
<1>4. Upto(m) \o next \in Units /\ Len(Upto(m) \o next) = m + n
  BY <1>1, <1>2, ConcatProperties DEF Units
<1>5. ASSUME NEW i \in 1..(m + n)
      PROVE  (Upto(m) \o next)[i] = Upto(m + n)[i]
  <2>1. (Upto(m) \o next)[i] = IF i <= m THEN Upto(m)[i] ELSE next[i - m]
    BY <1>1, <1>2, ConcatProperties, SMTT(30) DEF Units
  <2>2. CASE i <= m
    BY <2>1, <2>2 DEF Upto
  <2>3. CASE ~(i <= m)
    <3>1. i - m \in 1..n
      BY <2>3
    <3>2. next[i - m] = i
      BY <3>1 DEF next
    <3>. QED BY <2>1, <2>3, <3>2 DEF Upto
  <2>. QED BY <2>2, <2>3
<1>6. Upto(m) \o next = Upto(m + n)
  BY <1>3, <1>4, <1>5, SeqEqual DEF Units
<1>. QED BY <1>2, <1>6 DEF next

-----------------------------------------------------------------------------
(* Where the thread is tells what it did: it leaves its loop at the end of *)
(* the file, with an error in the slot, or because rx is gone.             *)
ReaderInv ==
  /\ slot => file.end = "error" \/ thread = "none"
  /\ thread = "none" => caller # "reading" /\ copy = "none"
  /\ thread = "panicked" => taken = file.size /\ file.end = "panic"
  /\ RxOpen /\ thread \in {"closing", "ended"} =>
       /\ taken = file.size /\ file.end # "panic"
       /\ file.end = "error" => slot

(* Where the caller is tells what became of its body and its result. *)
CallerInv ==
  /\ caller \in {"built", "reading", "dropped"} => copy = "none" /\ result = "none"
  /\ caller = "posting" => copy # "none" /\ result = "none"
  /\ copy # "none" => /\ body = Whole
                      /\ \/ thread = "panicked" /\ file.end = "panic"
                         \/ thread = "ended" /\ file.end = "eof"
  /\ result = "ok" => copy = "stored"
  /\ result = "err" => copy # "none"
  /\ result = "io" => file.end # "eof" /\ taken = file.size
  /\ caller = "done" => ~TxOpen /\ (thread = "panicked" => result = "io")

PipeInv == UPTypeOK /\ PipeInOrder /\ ReaderInv /\ CallerInv

LEMMA PipeInitHolds == UPInit => PipeInv
<1>. SUFFICES ASSUME UPInit PROVE PipeInv
  OBVIOUS
<1>1. UPTypeOK
  BY UPAssumption DEF UPAssumption, UPInit, UPTypeOK, Ends, Running
<1>2. PipeInOrder
  <2>1. <<>> = [i \in 1..0 |-> i]
    OBVIOUS
  <2>2. <<>> \o <<>> \o <<>> = <<>>
    OBVIOUS
  <2>. QED BY <2>1, <2>2 DEF UPInit, PipeInOrder
<1>3. ReaderInv /\ CallerInv
  BY DEF UPInit, ReaderInv, CallerInv, RxOpen, TxOpen, Running
<1>. QED BY <1>1, <1>2, <1>3 DEF PipeInv

(* Types of the three sequences and of the counters, for the steps below.  *)
LEMMA Pipes ==
  ASSUME UPTypeOK
  PROVE  /\ body \in Units /\ pipe \in Units /\ buf \in Units
         /\ Len(body) \in Nat /\ Len(pipe) \in Nat /\ Len(buf) \in Nat
         /\ taken \in Nat /\ file.size \in Nat /\ taken <= file.size
         /\ file.size <= MaxFile /\ PipeBuf \in Nat /\ MaxFile \in Nat
BY UPAssumption DEF UPAssumption, UPTypeOK, Units

LEMMA ReadStep ==
  ASSUME PipeInv, Read
  PROVE  UPTypeOK' /\ PipeInOrder'
<1>1. PICK n \in 1..Least(PipeBuf, file.size - taken) :
        buf' = [i \in 1..n |-> taken + i] /\ taken' = taken + n
  BY DEF Read
<1>2. /\ n \in Nat /\ n >= 1 /\ n <= PipeBuf
      /\ taken + n <= file.size /\ taken + n <= MaxFile
  BY <1>1, Pipes DEF PipeInv, Least
<1>3. buf' \in Units /\ Len(buf') = n /\ Upto(taken) \o buf' = Upto(taken + n)
  BY <1>1, <1>2, UptoGrows, Pipes DEF PipeInv
<1>4. buf' # <<>>
  BY <1>2, <1>3
<1>5. UPTypeOK'
  <2>1. taken' \in 0..file.size
    BY <1>1, <1>2, Pipes DEF PipeInv
  <2>. QED BY <1>2, <1>3, <1>4, <2>1 DEF PipeInv, UPTypeOK, Read, sender_vars, Units, Running
<1>6. ASSUME RxOpen' PROVE body' \o pipe' \o buf' = Upto(taken')
  <2>1. buf = <<>>
    BY DEF PipeInv, UPTypeOK, Read
  <2>2. RxOpen /\ body' = body /\ pipe' = pipe
    BY <1>6 DEF Read, sender_vars, RxOpen
  <2>3. body \o pipe \in Units
    BY Pipes, ConcatProperties DEF PipeInv, Units
  <2>4. body \o pipe \o <<>> = body \o pipe
    BY <2>3, ConcatEmptySeq DEF Units
  <2>5. body \o pipe = Upto(taken)
    BY <2>1, <2>2, <2>4 DEF PipeInv, PipeInOrder, Upto
  <2>. QED BY <1>1, <1>3, <2>2, <2>5
<1>. QED BY <1>5, <1>6 DEF PipeInOrder, Upto

LEMMA WriteStep ==
  ASSUME PipeInv, Write
  PROVE  UPTypeOK' /\ PipeInOrder'
<1>0. body \in Units /\ pipe \in Units /\ buf \in Units
  BY Pipes DEF PipeInv
<1>1. PICK n \in Int : n = Least(Len(buf), PipeBuf - Len(pipe))
  <2>1. Least(Len(buf), PipeBuf - Len(pipe)) \in Int
    BY Pipes DEF PipeInv, Least
  <2>. QED BY <2>1
<1>2. /\ n > 0 /\ pipe' = pipe \o SubSeq(buf, 1, n)
      /\ buf' = SubSeq(buf, n + 1, Len(buf))
      /\ thread' = IF n = Len(buf) THEN "read" ELSE "write"
      /\ UNCHANGED <<file, taken, slot, sender_vars>>
  BY <1>1 DEF Write
<1>3. n \in 1..Len(buf) /\ n <= PipeBuf - Len(pipe)
  <2>1. n <= Len(buf) /\ n <= PipeBuf - Len(pipe)
    BY <1>1, Pipes DEF PipeInv, Least
  <2>. QED BY <1>2, <2>1, Pipes DEF PipeInv
<1>4. /\ SubSeq(buf, 1, n) \in Units /\ Len(SubSeq(buf, 1, n)) = n
      /\ buf' \in Units /\ Len(buf') = Len(buf) - n
      /\ SubSeq(buf, 1, n) \o buf' = buf
  <2>1. n \in 0..Len(buf) /\ buf \in Units
    BY <1>3, Pipes DEF PipeInv
  <2>. QED BY <1>2, <2>1, Cut
<1>5. pipe' \in Units /\ Len(pipe') = Len(pipe) + n
  BY <1>0, <1>2, <1>4, Concat
<1>6. UPTypeOK'
  <2>1. (buf' # <<>>) = (thread' = "write")
    <3>1. CASE n = Len(buf)
      BY <1>2, <1>4, <3>1, EmptySeq, Pipes DEF PipeInv, Units
    <3>2. CASE n # Len(buf)
      <4>1. Len(buf') # 0
        BY <1>3, <1>4, <3>2, Pipes DEF PipeInv
      <4>2. buf' # <<>>
        BY <4>1
      <4>3. thread' = "write"
        BY <1>2, <3>2
      <4>. QED BY <4>2, <4>3
    <3>. QED BY <3>1, <3>2
  <2>2. Len(buf') <= PipeBuf /\ Len(pipe') <= PipeBuf
    BY <1>3, <1>4, <1>5, Pipes DEF PipeInv, UPTypeOK
  <2>3. thread' \in Running
    BY <1>2 DEF Running
  <2>. QED BY <1>2, <1>4, <1>5, <2>1, <2>2, <2>3 DEF PipeInv, UPTypeOK, sender_vars, Units
<1>7. ASSUME RxOpen' PROVE body' \o pipe' \o buf' = Upto(taken')
  <2>1. RxOpen /\ body' = body /\ taken' = taken
    BY <1>2, <1>7 DEF sender_vars, RxOpen
  <2>. DEFINE w == SubSeq(buf, 1, n)
  <2>5. w \in Units /\ buf' \in Units /\ w \o buf' = buf /\ pipe' = pipe \o w
    BY <1>2, <1>4
  <2>. HIDE DEF w
  <2>2. body \o (pipe \o w) = (body \o pipe) \o w
    <3>1. body \in Units /\ pipe \in Units /\ w \in Units
      BY <1>0, <2>5
    <3>. QED BY <3>1, Assoc, Zenon
  <2>3. body \o pipe \in Units
    BY <1>0, Concat
  <2>4. ((body \o pipe) \o w) \o buf' = (body \o pipe) \o (w \o buf')
    <3>1. body \o pipe \in Units /\ w \in Units /\ buf' \in Units
      BY <2>3, <2>5
    <3>. QED BY <3>1, Assoc, Zenon
  <2>. QED BY <2>1, <2>2, <2>4, <2>5 DEF PipeInv, PipeInOrder, Upto
<1>. QED BY <1>6, <1>7 DEF PipeInOrder, Upto

LEMMA FillStep ==
  ASSUME PipeInv, Fill
  PROVE  UPTypeOK' /\ PipeInOrder'
<1>0. body \in Units /\ pipe \in Units /\ buf \in Units
  BY Pipes DEF PipeInv
<1>1. PICK n \in 1..Len(pipe) :
        /\ body' = body \o SubSeq(pipe, 1, n)
        /\ pipe' = SubSeq(pipe, n + 1, Len(pipe))
  BY DEF Fill
<1>2. n \in 0..Len(pipe) /\ n \in Nat
  BY <1>1, Pipes DEF PipeInv
<1>3. /\ SubSeq(pipe, 1, n) \in Units
      /\ pipe' \in Units /\ Len(pipe') = Len(pipe) - n
      /\ SubSeq(pipe, 1, n) \o pipe' = pipe
  BY <1>1, <1>2, Cut, Pipes DEF PipeInv
<1>4. body' \in Units
  BY <1>1, <1>3, Pipes, ConcatProperties DEF PipeInv, Units
<1>5. UPTypeOK'
  <2>1. Len(pipe') <= PipeBuf
    BY <1>2, <1>3, Pipes DEF PipeInv, UPTypeOK
  <2>. QED BY <1>3, <1>4, <2>1 DEF PipeInv, UPTypeOK, Fill, reader_vars, Units
<1>6. body' \o pipe' \o buf' = Upto(taken')
  <2>1. RxOpen /\ buf' = buf /\ taken' = taken
    BY DEF Fill, reader_vars, RxOpen
  <2>. DEFINE w == SubSeq(pipe, 1, n)
  <2>2. w \in Units /\ pipe' \in Units /\ w \o pipe' = pipe /\ body' = body \o w
    BY <1>1, <1>3
  <2>. HIDE DEF w
  <2>3. (body \o w) \o pipe' = body \o (w \o pipe')
    <3>1. body \in Units /\ w \in Units /\ pipe' \in Units
      BY <1>0, <2>2
    <3>. QED BY <3>1, Assoc, Zenon
  <2>. QED BY <2>1, <2>2, <2>3 DEF PipeInv, PipeInOrder, Upto
<1>. QED BY <1>5, <1>6 DEF PipeInOrder, Upto

(* The steps that leave the contents of the pipe alone, or drop it with rx. *)
LEMMA OtherSteps ==
  ASSUME PipeInv, [UPNext]_UPVars, ~Read, ~Write, ~Fill
  PROVE  UPTypeOK' /\ PipeInOrder'
<1>. USE DEF PipeInv, reader_vars, sender_vars
<1>1. CASE ReadEnds
  BY <1>1 DEF ReadEnds, UPTypeOK, PipeInOrder, RxOpen, Running
<1>2. CASE ReadPanics
  BY <1>2 DEF ReadPanics, UPTypeOK, PipeInOrder, RxOpen
<1>3. CASE WriteFails
  <2>1. <<>> \in Seq(1..MaxFile) /\ Len(<<>>) <= PipeBuf
    BY UPAssumption DEF UPAssumption
  <2>2. UPTypeOK'
    BY <1>3, <2>1 DEF WriteFails, UPTypeOK, Running
  <2>3. PipeInOrder'
    BY <1>3 DEF WriteFails, PipeInOrder, RxOpen
  <2>. QED BY <2>2, <2>3
<1>4. CASE Close
  BY <1>4 DEF Close, UPTypeOK, PipeInOrder, RxOpen
<1>5. CASE DropBuilder
  BY <1>5, UPAssumption DEF UPAssumption, DropBuilder, UPTypeOK, PipeInOrder, RxOpen
<1>6. CASE SendRefused
  BY <1>6, UPAssumption DEF UPAssumption, SendRefused, GiveUp, UPTypeOK, PipeInOrder, RxOpen
<1>7. CASE SendStart
  BY <1>7 DEF SendStart, UPTypeOK, PipeInOrder, RxOpen
<1>8. CASE FillFails
  <2>1. <<>> \in Seq(1..MaxFile) /\ Len(<<>>) <= PipeBuf
    BY UPAssumption DEF UPAssumption
  <2>2. slot' \in BOOLEAN
    BY <1>8 DEF FillFails
  <2>3. UPTypeOK'
    BY <1>8, <2>1, <2>2 DEF FillFails, GiveUp, UPTypeOK
  <2>4. PipeInOrder'
    BY <1>8 DEF FillFails, GiveUp, PipeInOrder, RxOpen
  <2>. QED BY <2>3, <2>4
<1>9. CASE Post
  BY <1>9 DEF Post, UPTypeOK, PipeInOrder, RxOpen
<1>10. CASE FormFails
  BY <1>10, UPAssumption DEF UPAssumption, FormFails, GiveUp, UPTypeOK, PipeInOrder, RxOpen
<1>11. CASE Answer
  BY <1>11 DEF Answer, UPTypeOK, PipeInOrder, RxOpen
<1>12. CASE Join
  BY <1>12 DEF Join, UPTypeOK, PipeInOrder, RxOpen
<1>13. CASE Serve
  BY <1>13 DEF Serve, UPTypeOK, PipeInOrder, RxOpen
<1>14. CASE UNCHANGED UPVars
  BY <1>14 DEF UPVars, UPTypeOK, PipeInOrder, RxOpen
<1>. QED
  BY <1>1, <1>2, <1>3, <1>4, <1>5, <1>6, <1>7, <1>8, <1>9, <1>10, <1>11, <1>12,
     <1>13, <1>14
  DEF UPNext, ThreadStep, SendStep

LEMMA ReaderInvStep == PipeInv /\ [UPNext]_UPVars => ReaderInv'
<1>. SUFFICES ASSUME PipeInv, [UPNext]_UPVars PROVE ReaderInv'
  OBVIOUS
<1>. USE DEF PipeInv, ReaderInv, RxOpen, reader_vars, sender_vars
<1>1. CASE Read
  BY <1>1 DEF Read
<1>2. CASE ReadEnds
  BY <1>2 DEF ReadEnds
<1>3. CASE ReadPanics
  BY <1>3 DEF ReadPanics
<1>4. CASE Write
  BY <1>4 DEF Write
<1>5. CASE WriteFails \/ Close
  BY <1>5 DEF WriteFails, Close
<1>6. CASE DropBuilder \/ SendStart \/ SendRefused
  BY <1>6 DEF DropBuilder, SendStart, SendRefused, GiveUp
<1>7. CASE Fill \/ Post \/ Answer \/ Join \/ Serve
  BY <1>7 DEF Fill, Post, Answer, Join, Serve, AtEof, CallerInv
<1>8. CASE FillFails \/ FormFails
  BY <1>8 DEF FillFails, FormFails, GiveUp, AtEof
<1>9. CASE UNCHANGED UPVars
  BY <1>9 DEF UPVars
<1>. QED
  BY <1>1, <1>2, <1>3, <1>4, <1>5, <1>6, <1>7, <1>8, <1>9
  DEF UPNext, ThreadStep, SendStep

(* At the end of the pipe the body is the file, and the slot tells whether *)
(* its reader failed, if it did not panic. *)
LEMMA EofIsWhole ==
  ASSUME PipeInv, AtEof
  PROVE  /\ body = Whole /\ taken = file.size
         /\ \/ thread = "panicked" /\ file.end = "panic"
            \/ thread = "ended" /\ file.end = "eof"
            \/ thread = "ended" /\ file.end = "error" /\ slot
<1>1. thread \in {"ended", "panicked"} /\ RxOpen
  BY DEF PipeInv, AtEof, TxOpen, RxOpen, UPTypeOK, ReaderInv
<1>2. pipe = <<>> /\ buf = <<>>
  BY <1>1 DEF PipeInv, AtEof, UPTypeOK
<1>3. /\ taken = file.size
      /\ \/ thread = "panicked" /\ file.end = "panic"
         \/ thread = "ended" /\ file.end = "eof"
         \/ thread = "ended" /\ file.end = "error" /\ slot
  BY <1>1 DEF PipeInv, ReaderInv, UPTypeOK, Ends
<1>4. body \in Units
  BY Pipes DEF PipeInv
<1>5. body \o <<>> = body
  BY <1>4, ConcatEmptySeq DEF Units
<1>6. body = [i \in 1..taken |-> i]
  BY <1>1, <1>2, <1>5 DEF PipeInv, PipeInOrder
<1>. QED BY <1>3, <1>6 DEF Whole

LEMMA CallerInvStep == PipeInv /\ [UPNext]_UPVars => CallerInv'
<1>. SUFFICES ASSUME PipeInv, [UPNext]_UPVars PROVE CallerInv'
  OBVIOUS
<1>. USE DEF PipeInv, CallerInv, Whole, reader_vars, sender_vars
<1>1. CASE Read
  <2>1. taken # file.size
    BY <1>1, Pipes DEF Read, Least
  <2>. QED BY <1>1, <2>1 DEF Read, TxOpen, Running
<1>11. CASE ReadEnds \/ ReadPanics \/ Write
  BY <1>11 DEF ReadEnds, ReadPanics, Write, TxOpen, Running
<1>2. CASE WriteFails \/ Close
  BY <1>2 DEF WriteFails, Close, TxOpen, Running
<1>3. CASE DropBuilder \/ SendStart \/ Fill
  BY <1>3 DEF DropBuilder, SendStart, Fill
<1>4. CASE SendRefused \/ FormFails
  BY <1>4 DEF SendRefused, FormFails, GiveUp, AtEof
<1>5. CASE FillFails
  <2>1. taken = file.size /\ file.end = "error"
    BY <1>5, EofIsWhole DEF FillFails, ReaderInv
  <2>. QED BY <1>5, <2>1 DEF FillFails, GiveUp, AtEof
<1>6. CASE Post
  BY <1>6, EofIsWhole DEF Post, AtEof
<1>7. CASE Answer
  BY <1>7 DEF Answer
<1>8. CASE Join
  BY <1>8 DEF Join, TxOpen, ReaderInv
<1>9. CASE Serve
  BY <1>9 DEF Serve, TxOpen
<1>10. CASE UNCHANGED UPVars
  BY <1>10 DEF UPVars, TxOpen
<1>. QED
  BY <1>1, <1>2, <1>3, <1>4, <1>5, <1>6, <1>7, <1>8, <1>9, <1>10, <1>11
  DEF UPNext, ThreadStep, SendStep

LEMMA PipeInvHolds == UPSpec => []PipeInv
<1>1. PipeInv /\ [UPNext]_UPVars => PipeInv'
  BY ReadStep, WriteStep, FillStep, OtherSteps, ReaderInvStep, CallerInvStep DEF PipeInv
<1>. QED BY <1>1, PipeInitHolds, PTL DEF UPSpec

-----------------------------------------------------------------------------
(* Types, and the capacity of both buffers, hold for every pipe and file.  *)
THEOREM UploadTypeCorrect == UPSpec => []UPTypeOK
<1>1. PipeInv => UPTypeOK
  BY DEF PipeInv
<1>. QED BY <1>1, PipeInvHolds, PTL

(* However reads and writes cut the file, the pipe carries it in order and *)
(* without a gap (blocking/session.rs:509-516).                            *)
THEOREM PipeInOrderHolds == UPSpec => []PipeInOrder
<1>1. PipeInv => PipeInOrder
  BY DEF PipeInv
<1>. QED BY <1>1, PipeInvHolds, PTL

(* A file whose reader failed is never uploaded, and no part of one is,    *)
(* but for a reader that panics (blocking/session.rs:36-52).               *)
THEOREM NoTruncatedUploadHolds == UPSpec => []NoTruncatedUpload
<1>1. PipeInv => NoTruncatedUpload
  BY DEF PipeInv, CallerInv, NoTruncatedUpload
<1>. QED BY <1>1, PipeInvHolds, PTL

(* The result of send() is the truth about the file and its reader         *)
(* (blocking/session.rs:607-610, 625-632).                                 *)
THEOREM ResultHonestHolds == UPSpec => []ResultHonest
<1>1. PipeInv => ResultHonest
  BY DEF PipeInv, CallerInv, ResultHonest
<1>. QED BY <1>1, PipeInvHolds, PTL

(* The reader thread never outlives send() (blocking/session.rs:619-621).  *)
THEOREM JoinedOnReturnHolds == UPSpec => []JoinedOnReturn
<1>1. PipeInv => JoinedOnReturn
  BY DEF PipeInv, CallerInv, JoinedOnReturn
<1>. QED BY <1>1, PipeInvHolds, PTL
===============================================================================
