----------------------------- MODULE HttpRequest -----------------------------
(***************************************************************************)
(* One call of HttpClient::request, ::request_multipart or                 *)
(* ::request_streaming (src/src/http/client.rs) against a server and a     *)
(* network that may apply a request and lose its answer, or apply it long  *)
(* after the client gave up.  Times are in milliseconds.                   *)
(***************************************************************************)
EXTENDS Integers

CONSTANTS
  MaxRetries,    \* HttpClientParams::max_retries
  Statuses,      \* the statuses the server may answer with
  RetryAfters    \* the Retry-After values it may send, NoHint for none

ASSUME ConstantsAssumption ==
  /\ MaxRetries \in Nat
  /\ Statuses \subseteq 200..599
  /\ RetryAfters \subseteq Nat \union {-1}

(* The request: which loop runs it, its method, the type it decodes to. *)
Idempotent == {"GET", "HEAD", "DELETE", "PUT", "OPTIONS"}

Requests ==
  [loop : {"json"}, method : {"GET", "POST", "PUT", "DELETE"},
   type : {"unit", "nullable", "value"}]
  \union [loop : {"multipart"}, method : {"POST"}, type : {"value"}]
  \union [loop : {"stream"}, method : {"POST"}, type : {"raw"}]

RetryableStatus == {408, 429, 500, 502, 503, 504}
MaxRetryAfter == 60000
NoHint == -1
NoStatus == 0

VARIABLES
  req,        \* the request
  pc,         \* where the loop is
  attempt,    \* completed retries
  status,     \* the status of the response being read
  hint,       \* its Retry-After
  wait,       \* the pause before the next attempt
  result,     \* what the caller gets
  (* Of the server, and of the history of the call. *)
  sent,       \* copies of the request sent
  applied,    \* copies that took effect
  late,       \* copies that may still take effect
  accepted    \* has a 2xx head arrived

server_vars == <<sent, applied, late, accepted>>
vars == <<req, pc, attempt, status, hint, wait, result, server_vars>>

Success(s) == s \in 200..299

(* A result: the code, the status, and whether the body was read. *)
NoResult == [code |-> "none", status |-> NoStatus, read |-> FALSE]
Local(code) == [code |-> code, status |-> NoStatus, read |-> FALSE]
Ok == Local("ok")

(* error::from_response: the error variants that carry a status of their   *)
(* own, and Client or Server with the status for the others.               *)
FromResponse(s) ==
  [code |-> CASE s = 400 -> "bad_request"
              [] s = 401 -> "authentication_error"
              [] s = 403 -> "permission_denied"
              [] s = 404 -> "not_found"
              [] s = 409 -> "conflict"
              [] s = 422 -> "unprocessable_entity"
              [] s = 429 -> "rate_limit_exceeded"
              [] s >= 500 -> "server_error"
              [] OTHER -> "client_error",
   status |-> s, read |-> TRUE]

(* body_read_error: only the class of the status is kept. *)
BodyReadError(s) ==
  [code |-> IF s >= 500 THEN "server_error" ELSE "client_error",
   status |-> s, read |-> FALSE]

(* HonchoError::is_retryable. *)
IsRetryable(e) ==
  \/ e.code \in {"timeout", "connection_error"}
  \/ e.status \in {429, 500, 502, 503, 504}

(* delay_for_attempt: 500 * 2^min(a, 31), at most a minute, which it is    *)
(* from the eighth pause on; and the range [delay/2, delay) of             *)
(* jittered_delay, by its two ends.                                        *)
Least(a, b) == IF a <= b THEN a ELSE b
Delay(a) ==
  IF a <= 6 THEN <<500, 1000, 2000, 4000, 8000, 16000, 32000>>[a + 1] ELSE 60000
Jittered(a) == {Delay(a) \div 2, (Delay(a) * 999) \div 1000}

Init ==
  /\ req \in Requests
  /\ pc = "top"
  /\ attempt = 0
  /\ status = NoStatus
  /\ hint = NoHint
  /\ wait = 0
  /\ result = NoResult
  /\ sent = 0
  /\ applied = 0
  /\ late = 0
  /\ accepted = FALSE

-----------------------------------------------------------------------------
Finish(r) ==
  /\ pc' = "done"
  /\ result' = r
  /\ UNCHANGED <<attempt, wait>>

(* build_url and, in the multipart loop, form_factory fail before a send. *)
FailBeforeSend ==
  /\ pc = "top"
  /\ \/ sent = 0 /\ Finish(Local("configuration_error"))
     \/ req.loop = "multipart" /\ Finish(Local("io_error"))
  /\ UNCHANGED <<req, status, hint, server_vars>>

Send ==
  /\ pc = "top"
  /\ pc' = "sending"
  /\ sent' = sent + 1
  /\ UNCHANGED <<req, attempt, status, hint, wait, result, applied, late, accepted>>

(* Mutant: every method may be sent twice. *)
MayRetryAnyMethod(transient) ==
  /\ req.loop # "stream"
  /\ transient
  /\ attempt < MaxRetries

(* The guard both branches of the loop share: a method that may be sent    *)
(* twice, a transient failure, and a retry left.                           *)
MayRetry(transient) ==
  /\ req.loop # "stream"
  /\ req.method \in Idempotent
  /\ transient
  /\ attempt < MaxRetries

Pause(delays) ==
  /\ pc' = "sleeping"
  /\ wait' \in delays
  /\ UNCHANGED <<attempt, result>>

(* send() failed: a connection error comes before the request reached the  *)
(* server, the others may come before, after or while it takes effect.     *)
LostRequest(e) ==
  \/ UNCHANGED <<applied, late>>
  \/ e # "connection_error" /\ applied' = applied + 1 /\ UNCHANGED late
  \/ e # "connection_error" /\ late' = late + 1 /\ UNCHANGED applied

SendFails(e) ==
  /\ pc = "sending"
  /\ LostRequest(e)
  /\ LET retry == MayRetry(e \in {"timeout", "connection_error"})
     IN  \/ retry /\ Pause(Jittered(attempt))
         \/ ~retry /\ Finish(Local(e))
  /\ status' = NoStatus
  /\ hint' = NoHint
  /\ UNCHANGED <<req, sent, accepted>>

(* The head of a response.  A 2xx means the request took effect; a server  *)
(* that fails or times out may have applied it.                            *)
Respond(s, h) ==
  /\ pc = "sending"
  /\ status' = s
  /\ hint' = h
  /\ accepted' = (accepted \/ Success(s))
  /\ \/ Success(s) /\ applied' = applied + 1
     \/ ~Success(s) /\ UNCHANGED applied
     \/ (s >= 500 \/ s = 408) /\ applied' = applied + 1
  /\ IF Success(s) /\ req.loop = "stream"
       THEN Finish(Ok)
       ELSE pc' = "reading" /\ UNCHANGED <<attempt, wait, result>>
  /\ UNCHANGED <<req, sent, late>>

(* Mutant: a body that breaks off is retried, an accepted one too. *)
ReadFailsRetried(e) ==
  /\ pc = "reading"
  /\ LET retry == MayRetry(e = "timeout")
     IN  \/ retry /\ Pause(Jittered(attempt))
         \/ ~retry /\ Finish(Local(e))
  /\ UNCHANGED <<req, status, hint, server_vars>>

(* The body of the response breaks off: never retried. *)
ReadFails(e) ==
  /\ pc = "reading"
  /\ Finish(IF Success(status) THEN Local(e) ELSE BodyReadError(status))
  /\ UNCHANGED <<req, status, hint, server_vars>>

(* handle_success_response: an empty body decodes like null, and a body    *)
(* that does not decode is accepted for () only.                           *)
Decodes(body) ==
  \/ body = "valid"
  \/ body = "empty" /\ req.type \in {"unit", "nullable"}
  \/ body = "invalid" /\ req.type = "unit"

ReadSuccess(body) ==
  /\ pc = "reading"
  /\ Success(status)
  /\ Finish(IF Decodes(body) THEN Ok ELSE Local("decode_error"))
  /\ UNCHANGED <<req, status, hint, server_vars>>

(* Mutant: a pause that is too long is cut short instead of refused. *)
ReadErrorClamped ==
  /\ pc = "reading"
  /\ ~Success(status)
  /\ LET retry == MayRetry(status \in RetryableStatus)
     IN  \/ retry /\ Pause(IF hint = NoHint THEN Jittered(attempt)
                           ELSE {Least(hint, MaxRetryAfter)})
         \/ ~retry /\ Finish(FromResponse(status))
  /\ UNCHANGED <<req, status, hint, server_vars>>

(* The body of an error response was read: retry, unless the server asks   *)
(* for a longer pause than the client is willing to make.                  *)
ReadError ==
  /\ pc = "reading"
  /\ ~Success(status)
  /\ LET retry == MayRetry(status \in RetryableStatus) /\ hint <= MaxRetryAfter
     IN  \/ retry /\ Pause(IF hint = NoHint THEN Jittered(attempt) ELSE {hint})
         \/ ~retry /\ Finish(FromResponse(status))
  /\ UNCHANGED <<req, status, hint, server_vars>>

(* Mutant: after its last pause the loop does not go round again. *)
WakeOffByOne ==
  /\ pc = "sleeping"
  /\ attempt + 1 < MaxRetries
  /\ attempt' = attempt + 1
  /\ wait' = 0
  /\ pc' = "top"
  /\ UNCHANGED <<req, status, hint, result, server_vars>>

(* Mutant: the retry counter is advanced twice. *)
WakeTwice ==
  /\ pc = "sleeping"
  /\ attempt' = attempt + 2
  /\ wait' = 0
  /\ pc' = "top"
  /\ UNCHANGED <<req, status, hint, result, server_vars>>

Wake ==
  /\ pc = "sleeping"
  /\ attempt' = attempt + 1
  /\ wait' = 0
  /\ pc' = "top"
  /\ UNCHANGED <<req, status, hint, result, server_vars>>

(* A copy whose answer the client no longer waits for takes effect. *)
LateEffect ==
  /\ late > 0
  /\ late' = late - 1
  /\ applied' = applied + 1
  /\ UNCHANGED <<req, pc, attempt, status, hint, wait, result, sent, accepted>>

SendErrors == {"timeout", "connection_error", "transport_error"}

Answer ==
  \/ \E e \in SendErrors : SendFails(e)
  \/ \E s \in Statuses, h \in RetryAfters : Respond(s, h)

Read ==
  \/ \E e \in {"timeout", "transport_error"} : ReadFails(e)
  \/ \E body \in {"valid", "empty", "invalid"} : ReadSuccess(body)
  \/ ReadError

Next == FailBeforeSend \/ Send \/ Answer \/ Read \/ Wake \/ LateEffect

Spec == Init /\ [][Next]_vars

(* The task is polled, its timer fires, and the timeout set on every       *)
(* request bounds the wait for an answer and for its body.                 *)
FairSpec == Spec /\ WF_vars(Send) /\ WF_vars(Answer) /\ WF_vars(Read) /\ WF_vars(Wake)

-----------------------------------------------------------------------------
Codes == {"none", "ok", "configuration_error", "io_error", "timeout",
  "connection_error", "transport_error", "decode_error", "bad_request",
  "authentication_error", "permission_denied", "not_found", "conflict",
  "unprocessable_entity", "rate_limit_exceeded", "server_error", "client_error"}
Results == [code : Codes, status : Int, read : BOOLEAN]

(* Every variable has its type, the retry counter stays in its budget and  *)
(* tells how often the request was sent.                                   *)
TypeOK ==
  /\ req \in Requests
  /\ pc \in {"top", "sending", "reading", "sleeping", "done"}
  /\ attempt \in 0..MaxRetries
  /\ status \in Statuses \union {NoStatus}
  /\ hint \in RetryAfters \union {NoHint}
  /\ wait \in Int /\ wait >= 0
  /\ result \in Results
  /\ sent \in Nat
  /\ applied \in Nat
  /\ late \in Nat
  /\ accepted \in BOOLEAN
  /\ pc = "top" => sent = attempt
  /\ pc \in {"sending", "reading", "sleeping"} => sent = attempt + 1
  /\ pc = "sleeping" => attempt < MaxRetries
  /\ pc = "done" => sent \in attempt..(attempt + 1)

(* A POST takes effect at most once, however its answer is lost and        *)
(* however late the server gets to it (client.rs:15-16).                   *)
AppliedAtMostOnce ==
  req.method \notin Idempotent => applied + late <= 1

(* Retries go as the two sides asked.  A pause is as long as the server     *)
(* wants it and never longer than the client is willing to wait.  With a    *)
(* retry left, an idempotent request returns a failure that is transient,   *)
(* by its own table of statuses or by the one the caller is given, only if  *)
(* the server asked for too long a pause or its answer broke off            *)
(* (client.rs:28-31, 277-319, error.rs:196-211).                            *)
RetriesAsAsked ==
  /\ pc = "sleeping" => hint <= wait /\ wait <= MaxRetryAfter
  /\ pc = "done" /\ ~accepted /\ req.loop = "json" /\ req.method \in Idempotent
     /\ sent \in 1..MaxRetries
       => /\ IsRetryable(result) => result.status # NoStatus
          /\ result.read /\ (IsRetryable(result) \/ result.status \in RetryableStatus)
               => hint > MaxRetryAfter

(* A call ends: with an answer, or with an error after its last retry. *)
Terminates == <>(pc = "done")

(* The contract of the transport, with the loop and the server hidden. *)
Contract == INSTANCE RequestContract WITH
  MaxCopies  <- MaxRetries + 1,
  repeatable <- req.loop # "stream" /\ req.method \in Idempotent,
  copies     <- sent,
  accepted   <- accepted,
  outcome    <- IF pc # "done" THEN "none"
                ELSE IF result = Ok THEN "ok" ELSE "error"

(* The loop implements the contract. *)
ImplementsContract == Contract!Spec
=============================================================================
