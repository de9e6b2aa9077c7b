---------------------------- MODULE BlockingFacade ----------------------------
(***************************************************************************)
(* The blocking facade (src/src/blocking): threads call its methods, each  *)
(* of which drives one future of the async client on the global runtime    *)
(* (runtime.rs), which the first call builds; and they pull a chat stream  *)
(* through a ChatStreamIterator (peer.rs, iter.rs) that they may hand to   *)
(* one another.  A thread may be inside a tokio runtime of the caller's,   *)
(* where the facade refuses to work.                                       *)
(*                                                                         *)
(* The calls are told apart by what they drive: "call" one request, "list" *)
(* a walk over pages, "open" the POST of a chat stream, "next" a poll of   *)
(* the stream, "upload" nothing, only the handle of the runtime.           *)
(***************************************************************************)
EXTENDS Naturals, Sequences

CONSTANTS
  Threads,    \* the threads of the program
  MaxItems,   \* bound: contents of the chat stream
  MaxPages,   \* bound: pages of a list
  MaxNexts    \* bound: calls of next()

ASSUME ConstantsAssumption ==
  MaxItems \in Nat /\ MaxPages \in Nat \ {0} /\ MaxNexts \in Nat

VARIABLES
  runtime,    \* RUNTIME: unset, or what building it gave
  nested,     \* the threads inside an async runtime of the caller's
  pc,         \* where each thread is
  kind,       \* its call
  asked,      \* the requests it sent
  stream,     \* the one chat stream of the model
  fused,      \* ChatStreamIterator::complete
  out         \* what the calls of next() gave

call_vars == <<pc, kind, asked>>
iter_vars == <<stream, fused, out>>
vars == <<runtime, nested, call_vars, iter_vars>>

(* What the wrapped methods of each object drive. *)
ClientCalls == {"call", "list"}
SessionCalls == {"call", "list"}
PeerCalls == {"call", "list", "open"}
ScopeCalls == {"call"}
Calls == UNION {ClientCalls, SessionCalls, PeerCalls, ScopeCalls}

NoStream == [state |-> "none", size |-> 0, end |-> "clean", arrived |-> 0, given |-> 0]

(* Nothing is built before it is needed. *)
Init ==
  /\ runtime = "unset"
  /\ nested \in SUBSET Threads
  /\ pc = [t \in Threads |-> "idle"]
  /\ kind = [t \in Threads |-> "none"]
  /\ asked = [t \in Threads |-> 0]
  /\ stream = NoStream
  /\ fused = FALSE
  /\ out = <<>>

-----------------------------------------------------------------------------
(* The caller's threads enter and leave async code between calls. *)
Move(t) ==
  /\ pc[t] = "idle"
  /\ nested' = IF t \in nested THEN nested \ {t} ELSE nested \union {t}
  /\ UNCHANGED <<runtime, call_vars, iter_vars>>

Goto(t, where) == pc' = [pc EXCEPT ![t] = where]

Return(t) ==
  /\ Goto(t, "idle")
  /\ kind' = [kind EXCEPT ![t] = "none"]
  /\ asked' = [asked EXCEPT ![t] = 0]

(* A call starts: refused in an async context, or after the runtime. *)
Enter(t, k, guarded) ==
  /\ pc[t] = "idle"
  /\ IF guarded /\ t \in nested THEN UNCHANGED call_vars
     ELSE /\ Goto(t, "runtime")
          /\ kind' = [kind EXCEPT ![t] = k]
          /\ UNCHANGED asked

(* The wrapped methods: the future is built, and dropped if refused. *)
Opening == stream # NoStream \/ \E u \in Threads : kind[u] = "open"

Call(t) ==
  /\ \E k \in Calls : (k = "open" => ~Opening) /\ Enter(t, k, TRUE)
  /\ UNCHANGED <<runtime, nested, iter_vars>>

(* runtime::handle, which has no guard. *)
Upload(t) ==
  /\ Enter(t, "upload", FALSE)
  /\ UNCHANGED <<runtime, nested, iter_vars>>

(* Mutant: look whether there is a runtime, then build one. *)
StartBuildToo(t) ==
  /\ pc[t] = "runtime"
  /\ runtime = "unset"
  /\ Goto(t, "build")
  /\ UNCHANGED <<runtime, nested, kind, asked, iter_vars>>

(* get_or_create_runtime: one thread builds, the others wait for it. *)
StartBuild(t) ==
  /\ pc[t] = "runtime"
  /\ runtime = "unset"
  /\ \A u \in Threads : pc[u] # "build"
  /\ Goto(t, "build")
  /\ UNCHANGED <<runtime, nested, kind, asked, iter_vars>>

(* Mutant: a failure is not kept, so the next one to look builds again. *)
BuildRetried(t) ==
  /\ pc[t] = "build"
  /\ runtime' \in {"built", "unset"}
  /\ Goto(t, "runtime")
  /\ UNCHANGED <<nested, kind, asked, iter_vars>>

Build(t) ==
  /\ pc[t] = "build"
  /\ runtime' \in {"built", "failed"}
  /\ Goto(t, "runtime")
  /\ UNCHANGED <<nested, kind, asked, iter_vars>>

(* block_on, handle: a runtime that could not be built is an error. *)
HaveRuntime(t) ==
  /\ pc[t] = "runtime"
  /\ runtime # "unset"
  /\ IF runtime = "failed" \/ kind[t] = "upload" THEN Return(t)
     ELSE Goto(t, "drive") /\ UNCHANGED <<kind, asked>>
  /\ UNCHANGED <<runtime, nested, iter_vars>>

-----------------------------------------------------------------------------
(* The requests of a call. *)
Ask(t) ==
  /\ pc[t] = "drive"
  /\ kind[t] # "next"
  /\ asked' = [asked EXCEPT ![t] = @ + 1]
  /\ Goto(t, "wait")
  /\ UNCHANGED <<runtime, nested, kind, iter_vars>>

(* Another page of a list. *)
AnswerMore(t) ==
  /\ pc[t] = "wait"
  /\ kind[t] = "list" /\ asked[t] < MaxPages
  /\ Goto(t, "drive")
  /\ UNCHANGED <<runtime, nested, kind, asked, iter_vars>>

(* The last answer; that of a chat is a stream still to come. *)
AnswerLast(t) ==
  /\ pc[t] = "wait"
  /\ Return(t)
  /\ IF kind[t] = "open"
       THEN \E n \in 0..MaxItems, e \in {"clean", "error"} :
              stream' = [NoStream EXCEPT !.state = "open", !.size = n, !.end = e]
       ELSE UNCHANGED stream
  /\ UNCHANGED <<runtime, nested, fused, out>>

AnswerFails(t) ==
  /\ pc[t] = "wait"
  /\ Return(t)
  /\ UNCHANGED <<runtime, nested, iter_vars>>

(* The contents arrive, and then the end, whether or not anyone polls. *)
Arrive ==
  /\ stream.state = "open"
  /\ stream.arrived <= stream.size
  /\ stream' = [stream EXCEPT !.arrived = @ + 1]
  /\ UNCHANGED <<runtime, nested, call_vars, fused, out>>

-----------------------------------------------------------------------------
(* ChatStreamIterator::next, by whichever thread has the iterator. *)
IsComplete == fused \/ stream.state = "complete"

Free == /\ stream # NoStream
        /\ Len(out) < MaxNexts
        /\ \A u \in Threads : kind[u] # "next"

Give(what) == out' = Append(out, what)

NextAtEnd(t) ==
  /\ Free
  /\ pc[t] = "idle"
  /\ IsComplete
  /\ Give("end")
  /\ UNCHANGED <<runtime, nested, call_vars, stream, fused>>

(* Mutant: a refusal does not fuse the iterator. *)
NextRefusedOpen(t) ==
  /\ Free
  /\ ~IsComplete
  /\ t \in nested
  /\ Enter(t, "next", TRUE)
  /\ Give("refused")
  /\ UNCHANGED <<runtime, nested, stream, fused>>

NextRefused(t) ==
  /\ Free
  /\ ~IsComplete
  /\ t \in nested
  /\ Enter(t, "next", TRUE)
  /\ fused' = TRUE
  /\ Give("refused")
  /\ UNCHANGED <<runtime, nested, stream>>

NextStart(t) ==
  /\ Free
  /\ ~IsComplete
  /\ t \notin nested
  /\ Enter(t, "next", TRUE)
  /\ UNCHANGED <<runtime, nested, iter_vars>>

(* try_next: the poll waits for a content, or for the end. *)
PollItem(t) ==
  /\ pc[t] = "drive" /\ kind[t] = "next"
  /\ stream.given < stream.size /\ stream.given < stream.arrived
  /\ stream' = [stream EXCEPT !.given = @ + 1]
  /\ Give("item")
  /\ Return(t)
  /\ UNCHANGED <<runtime, nested, fused>>

PollEnd(t) ==
  /\ pc[t] = "drive" /\ kind[t] = "next"
  /\ stream.given = stream.size /\ stream.arrived > stream.size
  /\ stream' = [stream EXCEPT !.state = "complete"]
  /\ Give(IF stream.end = "error" THEN "failed" ELSE "end")
  /\ Return(t)
  /\ UNCHANGED <<runtime, nested, fused>>

-----------------------------------------------------------------------------
(* The steps a call takes by itself, once its requests are answered. *)
Progress(t) ==
  \/ StartBuild(t) \/ Build(t) \/ HaveRuntime(t)
  \/ Ask(t) \/ AnswerMore(t) \/ AnswerLast(t) \/ AnswerFails(t)
  \/ PollItem(t) \/ PollEnd(t)

Next ==
  \/ \E t \in Threads :
       \/ Move(t) \/ Call(t) \/ Upload(t)
       \/ NextAtEnd(t) \/ NextRefused(t) \/ NextStart(t)
       \/ Progress(t)
  \/ Arrive

Spec == Init /\ [][Next]_vars

(* The runtime drives what is on it, and the total timeout of a request,   *)
(* which covers the body of a stream too (http/client.rs:523-532), answers *)
(* or ends what the server does not.                                       *)
FairSpec ==
  /\ Spec
  /\ \A t \in Threads : WF_vars(Progress(t))
  /\ WF_vars(Arrive)

-----------------------------------------------------------------------------
(* Every variable has its type; the runtime is built once, by one thread,  *)
(* and nothing is driven before it is there or in an async context         *)
(* (runtime.rs:37-49, 94-106).                                             *)
Places == {"idle", "runtime", "build", "drive", "wait"}
Kinds == Calls \union {"none", "next", "upload"}
Gifts == {"item", "refused", "failed", "end"}

CallType ==
  /\ runtime \in {"unset", "built", "failed"}
  /\ nested \subseteq Threads
  /\ pc \in [Threads -> Places]
  /\ kind \in [Threads -> Kinds]
  /\ asked \in [Threads -> 0..MaxPages]

OneRuntime ==
  \A t \in Threads :
    /\ pc[t] = "build" => runtime = "unset" /\ \A u \in Threads : pc[u] = "build" => u = t
    /\ pc[t] \in {"drive", "wait"} => runtime = "built" /\ t \notin nested

IterType ==
  /\ stream \in [state : {"none", "open", "complete"}, size : 0..MaxItems,
                 end : {"clean", "error"}, arrived : 0..MaxItems + 1, given : 0..MaxItems]
  /\ fused \in BOOLEAN
  /\ out \in Seq(Gifts)

TypeOK == CallType /\ OneRuntime /\ IterType

(* What the calls of next() gave, by whichever threads and in whichever    *)
(* contexts: the contents that final_response holds, in order; then the    *)
(* end if that was all of them, or one error; and then nothing but the end *)
(* (peer.rs:332-338, 349-365).  That a refusal comes once and is followed  *)
(* by the end is what the code, the doc of next() and a test agree on; the *)
(* doc of chat_stream() says otherwise (peer.rs:114-117: "the same error   *)
(* as its first (and subsequent) item").                                   *)
IterationHonest ==
  /\ {i \in DOMAIN out : out[i] = "item"} = 1..stream.given
  /\ Len(out) > stream.given =>
       LET first == out[stream.given + 1]
       IN  /\ first = "end" => stream.given = stream.size /\ stream.end = "clean"
           /\ first = "failed" => stream.given = stream.size /\ stream.end = "error"
           /\ \A j \in stream.given + 2..Len(out) : out[j] = "end"

(* Every call returns: none waits for ever on the runtime another thread   *)
(* is building, or on a stream.                                            *)
CallsEnd == \A t \in Threads : (pc[t] # "idle") ~> (pc[t] = "idle")
=============================================================================
