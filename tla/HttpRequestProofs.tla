-------------------------- MODULE HttpRequestProofs --------------------------
(***************************************************************************)
(* What holds of one request for any retry budget, any statuses the server *)
(* answers with and any Retry-After it sends.                              *)
(***************************************************************************)
EXTENDS HttpRequest, TLAPS

(* The pauses of the loop are natural numbers and at most a minute. *)
LEMMA DelayBounds ==
  ASSUME NEW a \in Nat, NEW d \in Jittered(a)
  PROVE  d \in Nat /\ d <= MaxRetryAfter
<1>1. Delay(a) \in Nat /\ Delay(a) <= 60000
  BY DEF Delay
<1>. QED BY <1>1 DEF Jittered, MaxRetryAfter

(* Every result the loop returns is well formed. *)
LEMMA ResultTypes ==
  /\ NoResult \in Results
  /\ \A code \in Codes : Local(code) \in Results
  /\ Ok \in Results
  /\ \A s \in Int : BodyReadError(s) \in Results /\ FromResponse(s) \in Results
<1>1. NoResult \in Results
  BY DEF NoResult, Results, Codes, NoStatus
<1>2. \A code \in Codes : Local(code) \in Results
  BY DEF Local, Results, NoStatus
<1>3. "ok" \in Codes
  BY DEF Codes
<1>4. ASSUME NEW s \in Int PROVE BodyReadError(s) \in Results
  BY DEF BodyReadError, Results, Codes
<1>5. ASSUME NEW s \in Int PROVE FromResponse(s) \in Results
  BY DEF FromResponse, Results, Codes
<1>. QED BY <1>1, <1>2, <1>3, <1>4, <1>5 DEF Ok

(* The retry counter stays in its budget and counts what was sent. *)
THEOREM TypeCorrect == Spec => []TypeOK
<1> USE ConstantsAssumption DEF NoHint, NoStatus
<1>1. Init => TypeOK
  <2> SUFFICES ASSUME Init PROVE TypeOK
    OBVIOUS
  <2>1. req \in Requests /\ result \in Results
    BY ResultTypes DEF Init
  <2>2. /\ attempt \in 0..MaxRetries
        /\ status \in Statuses \union {NoStatus} /\ hint \in RetryAfters \union {NoHint}
        /\ wait \in Int /\ wait >= 0
    BY DEF Init
  <2>3. /\ sent \in Nat /\ applied \in Nat /\ late \in Nat /\ accepted \in BOOLEAN
        /\ pc = "top" /\ sent = attempt
    BY DEF Init
  <2>. QED BY <2>1, <2>2, <2>3 DEF TypeOK
<1>2. TypeOK /\ [Next]_vars => TypeOK'
  <2> SUFFICES ASSUME TypeOK, [Next]_vars PROVE TypeOK'
    OBVIOUS
  <2> USE DEF TypeOK, server_vars
  <2>1. CASE FailBeforeSend
    <3>1. Local("configuration_error") \in Results /\ Local("io_error") \in Results
      BY ResultTypes DEF Codes
    <3>. QED BY <2>1, <3>1 DEF FailBeforeSend, Finish
  <2>2. CASE Send
    BY <2>2 DEF Send
  <2>3. ASSUME NEW e \in SendErrors, SendFails(e) PROVE TypeOK'
    <3>1. Local(e) \in Results
      BY ResultTypes DEF SendErrors, Codes
    <3>2. applied' \in Nat /\ late' \in Nat
      BY <2>3 DEF SendFails, LostRequest
    <3>3. pc = "sending" /\ UNCHANGED <<req, sent, accepted>>
          /\ status' = NoStatus /\ hint' = NoHint
      BY <2>3 DEF SendFails
    <3>4. CASE Finish(Local(e))
      BY <3>1, <3>2, <3>3, <3>4 DEF Finish
    <3>5. CASE Pause(Jittered(attempt)) /\ attempt < MaxRetries
      <4>1. wait' \in Int /\ wait' >= 0
        BY <3>5, DelayBounds DEF Pause
      <4>. QED BY <3>2, <3>3, <3>5, <4>1 DEF Pause
    <3>. QED BY <2>3, <3>4, <3>5 DEF SendFails, MayRetry
  <2>4. ASSUME NEW s \in Statuses, NEW h \in RetryAfters, Respond(s, h)
        PROVE  TypeOK'
    <3>1. /\ pc = "sending" /\ UNCHANGED <<req, sent, late>>
          /\ status' = s /\ hint' = h /\ accepted' \in BOOLEAN /\ applied' \in Nat
      BY <2>4 DEF Respond, Success
    <3>2. CASE Finish(Ok)
      BY <3>1, <3>2, ResultTypes DEF Finish
    <3>3. CASE pc' = "reading" /\ UNCHANGED <<attempt, wait, result>>
      BY <3>1, <3>3
    <3>. QED BY <2>4, <3>2, <3>3 DEF Respond
  <2>5. CASE Read
    <3>1. ASSUME NEW r \in Results, Finish(r), pc = "reading",
                 UNCHANGED <<req, status, hint, server_vars>>
          PROVE  TypeOK'
      BY <3>1 DEF Finish
    <3>2. status \in Int
      OBVIOUS
    <3>3. ASSUME NEW e \in {"timeout", "transport_error"}, ReadFails(e) PROVE TypeOK'
      <4>1. Local(e) \in Results
        BY ResultTypes DEF Codes
      <4>. QED BY <3>1, <3>2, <3>3, <4>1, ResultTypes DEF ReadFails
    <3>4. ASSUME NEW body \in {"valid", "empty", "invalid"}, ReadSuccess(body)
          PROVE  TypeOK'
      <4>1. Local("decode_error") \in Results
        BY ResultTypes DEF Codes
      <4>. QED BY <3>1, <3>4, <4>1, ResultTypes DEF ReadSuccess
    <3>5. CASE ReadError
      <4>1. CASE Finish(FromResponse(status))
        BY <3>1, <3>2, <3>5, <4>1, ResultTypes DEF ReadError
      <4>2. CASE /\ Pause(IF hint = NoHint THEN Jittered(attempt) ELSE {hint})
                 /\ attempt < MaxRetries
        <5>1. wait' \in Int /\ wait' >= 0
          BY <4>2, DelayBounds DEF Pause
        <5>. QED BY <3>5, <4>2, <5>1 DEF ReadError, Pause
      <4>. QED BY <3>5, <4>1, <4>2 DEF ReadError, MayRetry
    <3>. QED BY <2>5, <3>3, <3>4, <3>5 DEF Read
  <2>6. CASE Wake
    <3>1. attempt < MaxRetries
      BY <2>6 DEF Wake
    <3>. QED BY <2>6, <3>1 DEF Wake
  <2>7. CASE LateEffect
    BY <2>7 DEF LateEffect
  <2>8. CASE UNCHANGED vars
    BY <2>8 DEF vars
  <2>. QED BY <2>1, <2>2, <2>3, <2>4, <2>5, <2>6, <2>7, <2>8 DEF Next, Answer
<1>. QED BY <1>1, <1>2, PTL DEF Spec

-----------------------------------------------------------------------------
(* A request that is not idempotent never gets past its first attempt, and *)
(* nothing of it takes effect before that attempt is answered or given up. *)
OnceInv ==
  req.method \notin Idempotent =>
    /\ attempt = 0
    /\ pc # "sleeping"
    /\ applied + late <= 1
    /\ pc \in {"top", "sending"} => applied = 0 /\ late = 0

(* A POST takes effect at most once, for any number of retries. *)
THEOREM AppliedAtMostOnceHolds == Spec => []AppliedAtMostOnce
<1>1. Init => OnceInv
  BY DEF Init, OnceInv
<1>2. TypeOK /\ OnceInv /\ [Next]_vars => OnceInv'
  <2> SUFFICES ASSUME TypeOK, OnceInv, [Next]_vars, req'.method \notin Idempotent
               PROVE  OnceInv'
    BY DEF OnceInv
  <2> USE DEF OnceInv, server_vars
  <2>1. CASE FailBeforeSend
    BY <2>1 DEF FailBeforeSend, Finish
  <2>2. CASE Send
    BY <2>2 DEF Send
  <2>3. ASSUME NEW e \in SendErrors, SendFails(e) PROVE OnceInv'
    <3>1. req' = req /\ ~MayRetry(e \in {"timeout", "connection_error"})
      BY <2>3 DEF SendFails, MayRetry
    <3>2. Finish(Local(e)) /\ pc = "sending" /\ LostRequest(e)
      BY <2>3, <3>1 DEF SendFails
    <3>. QED BY <3>1, <3>2 DEF Finish, LostRequest
  <2>4. ASSUME NEW s \in Statuses, NEW h \in RetryAfters, Respond(s, h)
        PROVE  OnceInv'
    <3>1. /\ req' = req /\ pc = "sending" /\ pc' \in {"reading", "done"}
          /\ attempt' = attempt /\ late' = late /\ applied' \in {applied, applied + 1}
      BY <2>4 DEF Respond, Finish
    <3>. QED BY <3>1
  <2>5. CASE Read
    <3>1. req' = req /\ UNCHANGED <<attempt, applied, late>> /\ pc = "reading"
      BY <2>5 DEF Read, ReadFails, ReadSuccess, ReadError, Finish, Pause
    <3>2. pc' = "done"
      BY <2>5, <3>1 DEF Read, ReadFails, ReadSuccess, ReadError, Finish, MayRetry
    <3>. QED BY <3>1, <3>2
  <2>6. CASE Wake
    BY <2>6 DEF Wake
  <2>7. CASE LateEffect
    BY <2>7 DEF LateEffect, TypeOK
  <2>8. CASE UNCHANGED vars
    BY <2>8 DEF vars
  <2>. QED BY <2>1, <2>2, <2>3, <2>4, <2>5, <2>6, <2>7, <2>8 DEF Next, Answer
<1>3. OnceInv => AppliedAtMostOnce
  BY DEF OnceInv, AppliedAtMostOnce
<1>. QED BY <1>1, <1>2, <1>3, TypeCorrect, PTL DEF Spec

-----------------------------------------------------------------------------
(* An accepted request is past its last copy: it is read, and then done;   *)
(* and only a request that may be repeated is past its first one.          *)
LoopInv ==
  /\ accepted => (pc = "reading" /\ Success(status)) \/ pc = "done"
  /\ pc = "reading" /\ Success(status) => accepted
  /\ attempt > 0 \/ pc = "sleeping" =>
       req.loop # "stream" /\ req.method \in Idempotent

LEMMA LoopInvHolds == Spec => []LoopInv
<1>1. Init => LoopInv
  BY DEF Init, LoopInv
<1>2. TypeOK /\ LoopInv /\ [Next]_vars => LoopInv'
  <2> SUFFICES ASSUME TypeOK, LoopInv, [Next]_vars PROVE LoopInv'
    OBVIOUS
  <2> USE DEF LoopInv, server_vars, Success
  <2>1. CASE FailBeforeSend \/ Send \/ Wake \/ LateEffect \/ UNCHANGED vars
    BY <2>1 DEF FailBeforeSend, Finish, Send, Wake, LateEffect, vars
  <2>2. ASSUME NEW e \in SendErrors, SendFails(e) PROVE LoopInv'
    BY <2>2 DEF SendFails, Finish, Pause, MayRetry
  <2>3. ASSUME NEW s \in Statuses, NEW h \in RetryAfters, Respond(s, h)
        PROVE  LoopInv'
    BY <2>3 DEF Respond, Finish, TypeOK
  <2>4. CASE Read
    BY <2>4 DEF Read, ReadFails, ReadSuccess, ReadError, Finish, Pause, MayRetry
  <2>. QED BY <2>1, <2>2, <2>3, <2>4 DEF Next, Answer
<1>. QED BY <1>1, <1>2, TypeCorrect, PTL DEF Spec

(* What IsRetryable makes of the results of the loop. *)
LEMMA RetryableResults ==
  /\ ~Local("transport_error").read /\ ~IsRetryable(Local("transport_error"))
  /\ \A s \in Int : /\ ~BodyReadError(s).read
                    /\ IsRetryable(BodyReadError(s)) => BodyReadError(s).status # NoStatus
  /\ \A s \in Int : /\ FromResponse(s).status = s
                    /\ IsRetryable(FromResponse(s)) => s \in RetryableStatus /\ s # NoStatus
<1>1. ASSUME NEW s \in Int
      PROVE  /\ FromResponse(s).status = s
             /\ FromResponse(s).code \notin {"timeout", "connection_error"}
  BY DEF FromResponse
<1>2. ASSUME NEW s \in Int
      PROVE  /\ BodyReadError(s).status = s /\ ~BodyReadError(s).read
             /\ BodyReadError(s).code \notin {"timeout", "connection_error"}
  BY DEF BodyReadError
<1>3. ~Local("transport_error").read /\ ~IsRetryable(Local("transport_error"))
  BY DEF Local, IsRetryable, NoStatus
<1>. QED BY <1>1, <1>2, <1>3 DEF IsRetryable, RetryableStatus, NoStatus

(* Retries go as the two sides asked, for any budget and any Retry-After. *)
THEOREM RetriesAsAskedHolds == Spec => []RetriesAsAsked
<1> USE ConstantsAssumption DEF NoHint
<1> DEFINE Asks == req.loop = "json" /\ req.method \in Idempotent /\ sent \in 1..MaxRetries
<1>1. Init => RetriesAsAsked
  BY DEF Init, RetriesAsAsked
<1>2. TypeOK /\ LoopInv /\ RetriesAsAsked /\ [Next]_vars => RetriesAsAsked'
  <2> SUFFICES ASSUME TypeOK, LoopInv, RetriesAsAsked, [Next]_vars PROVE RetriesAsAsked'
    OBVIOUS
  <2> USE DEF server_vars
  <2>1. CASE FailBeforeSend
    BY <2>1 DEF FailBeforeSend, Finish, RetriesAsAsked, TypeOK
  <2>2. CASE Send \/ Wake
    BY <2>2 DEF Send, Wake, RetriesAsAsked
  <2>3. ASSUME NEW e \in SendErrors, SendFails(e) PROVE RetriesAsAsked'
    <3>1. CASE Pause(Jittered(attempt))
      <4>1. wait' \in Nat /\ wait' <= MaxRetryAfter /\ hint' = -1
        BY <2>3, <3>1, DelayBounds DEF Pause, SendFails, TypeOK
      <4>. QED BY <3>1, <4>1 DEF Pause, RetriesAsAsked
    <3>2. CASE ~MayRetry(e \in {"timeout", "connection_error"}) /\ Finish(Local(e))
      <4>1. pc' = "done" /\ result' = Local(e) /\ sent = attempt + 1
            /\ UNCHANGED <<req, sent, accepted>>
        BY <2>3, <3>2 DEF SendFails, Finish, TypeOK
      <4>2. Asks => e = "transport_error"
        BY <3>2, <4>1 DEF MayRetry, SendErrors, TypeOK
      <4>. QED BY <4>1, <4>2, RetryableResults DEF RetriesAsAsked
    <3>. QED BY <2>3, <3>1, <3>2 DEF SendFails
  <2>4. ASSUME NEW s \in Statuses, NEW h \in RetryAfters, Respond(s, h)
        PROVE  RetriesAsAsked'
    <3>1. pc' = "reading" \/ (pc' = "done" /\ accepted')
      BY <2>4 DEF Respond, Finish
    <3>. QED BY <3>1 DEF RetriesAsAsked
  <2>5. CASE Read
    <3>1. /\ pc = "reading" /\ sent = attempt + 1 /\ status \in Int
          /\ UNCHANGED <<req, hint, sent, accepted>>
      BY <2>5 DEF Read, ReadFails, ReadSuccess, ReadError, TypeOK, NoStatus
    <3>2. ASSUME Success(status), pc' = "done" PROVE RetriesAsAsked'
      BY <3>1, <3>2 DEF LoopInv, RetriesAsAsked
    <3>3. ASSUME NEW e \in {"timeout", "transport_error"}, ReadFails(e), ~Success(status)
          PROVE  RetriesAsAsked'
      <4>1. pc' = "done" /\ result' = BodyReadError(status)
        BY <3>3 DEF ReadFails, Finish
      <4>. QED BY <3>1, <4>1, RetryableResults DEF RetriesAsAsked
    <3>4. CASE /\ MayRetry(status \in RetryableStatus) /\ hint <= MaxRetryAfter
               /\ Pause(IF hint = NoHint THEN Jittered(attempt) ELSE {hint})
      <4>1. hint <= wait' /\ wait' <= MaxRetryAfter
        BY <3>4, DelayBounds DEF Pause, TypeOK
      <4>. QED BY <3>1, <3>4, <4>1 DEF Pause, RetriesAsAsked
    <3>5. CASE /\ ~(MayRetry(status \in RetryableStatus) /\ hint <= MaxRetryAfter)
               /\ Finish(FromResponse(status))
      <4>1. Asks /\ status \in RetryableStatus => hint > MaxRetryAfter
        BY <3>1, <3>5 DEF MayRetry, TypeOK, MaxRetryAfter
      <4>2. pc' = "done" /\ result' = FromResponse(status)
        BY <3>5 DEF Finish
      <4>. QED BY <3>1, <4>1, <4>2, RetryableResults DEF RetriesAsAsked
    <3>6. CASE ReadError
      BY <3>4, <3>5, <3>6 DEF ReadError
    <3>7. ASSUME NEW body \in {"valid", "empty", "invalid"}, ReadSuccess(body)
          PROVE  RetriesAsAsked'
      BY <3>2, <3>7 DEF ReadSuccess, Finish
    <3>8. ASSUME NEW e \in {"timeout", "transport_error"}, ReadFails(e)
          PROVE  RetriesAsAsked'
      BY <3>2, <3>3, <3>8 DEF ReadFails, Finish
    <3>. QED BY <2>5, <3>6, <3>7, <3>8 DEF Read
  <2>6. CASE LateEffect \/ UNCHANGED vars
    BY <2>6 DEF LateEffect, RetriesAsAsked, vars
  <2>. QED BY <2>1, <2>2, <2>3, <2>4, <2>5, <2>6 DEF Next, Answer
<1>. QED BY <1>1, <1>2, TypeCorrect, LoopInvHolds, PTL DEF Spec

-----------------------------------------------------------------------------
(* Only Ok is Ok. *)
LEMMA ErrorsAreNotOk ==
  /\ NoResult # Ok
  /\ \A c : c # "ok" => Local(c) # Ok
  /\ \A s : BodyReadError(s) # Ok
  /\ \A s : FromResponse(s) # Ok
<1>1. \A c : Local(c).code = c
  BY DEF Local
<1>2. Ok.code = "ok" /\ NoResult.code = "none" /\ Ok.read = FALSE
  BY DEF Ok, Local, NoResult
<1>3. \A s : BodyReadError(s).code # "ok"
  BY DEF BodyReadError
<1>4. \A s : FromResponse(s).read = TRUE
  BY DEF FromResponse
<1>. QED BY <1>1, <1>2, <1>3, <1>4

(* The loop implements the contract of the transport: it never sends more  *)
(* copies than the contract allows, and reports "ok" for accepted requests *)
(* only.                                                                   *)
THEOREM ImplementsContractHolds == Spec => ImplementsContract
<1> DEFINE Outcome == IF pc # "done" THEN "none"
                      ELSE IF result = Ok THEN "ok" ELSE "error"
           Repeatable == req.loop # "stream" /\ req.method \in Idempotent
<1>1. Init => Contract!Init
  BY DEF Init, Contract!Init
<1>2. TypeOK /\ LoopInv /\ [Next]_vars => Contract!Next \/ UNCHANGED Contract!vars
  <2> SUFFICES ASSUME TypeOK, LoopInv, [Next]_vars
               PROVE  Contract!Next \/ UNCHANGED Contract!vars
    OBVIOUS
  <2> USE DEF server_vars
  <2>1. ASSUME NEW r, r # Ok, Finish(r), pc # "done", UNCHANGED <<req, sent, accepted>>
        PROVE  Contract!Finish
    <3>1. Outcome = "none" /\ Outcome' = "error"
      BY <2>1 DEF Finish
    <3>. QED BY <2>1, <3>1 DEF Contract!Finish
  <2>2. ASSUME pc # "done", pc' # "done", UNCHANGED <<req, sent, accepted>>
        PROVE  UNCHANGED Contract!vars
    BY <2>2 DEF Contract!vars
  <2>3. CASE FailBeforeSend
    BY <2>1, <2>3, ErrorsAreNotOk DEF FailBeforeSend, Contract!Next
  <2>4. CASE Send
    <3>1. sent \in Nat /\ sent < MaxRetries + 1 /\ ~accepted
      BY <2>4, ConstantsAssumption DEF Send, TypeOK, LoopInv
    <3>2. sent = 0 \/ Repeatable
      BY <2>4 DEF Send, TypeOK, LoopInv
    <3>3. Outcome = "none" /\ Outcome' = "none"
      BY <2>4 DEF Send
    <3>. QED BY <2>4, <3>1, <3>2, <3>3 DEF Send, Contract!SendCopy, Contract!Next
  <2>5. ASSUME NEW e \in SendErrors, SendFails(e)
        PROVE  Contract!Next \/ UNCHANGED Contract!vars
    <3>1. Local(e) # Ok
      BY ErrorsAreNotOk DEF SendErrors
    <3>2. Finish(Local(e)) \/ pc' # "done"
      BY <2>5 DEF SendFails, Pause
    <3>. QED BY <2>1, <2>2, <2>5, <3>1, <3>2 DEF SendFails, Contract!Next
  <2>6. ASSUME NEW s \in Statuses, NEW h \in RetryAfters, Respond(s, h)
        PROVE  Contract!Next \/ UNCHANGED Contract!vars
    <3>1. pc = "sending" /\ UNCHANGED <<req, sent>> /\ sent > 0
      BY <2>6 DEF Respond, TypeOK
    <3>2. CASE Success(s)
      <4>1. accepted' = TRUE /\ (pc' = "reading" \/ (pc' = "done" /\ result' = Ok))
        BY <2>6, <3>2 DEF Respond, Finish
      <4>2. Outcome = "none" /\ Outcome' \in {"none", "ok"}
        BY <3>1, <4>1
      <4>. QED BY <3>1, <4>1, <4>2 DEF Contract!Accept, Contract!Next
    <3>3. CASE ~Success(s)
      BY <2>2, <2>6, <3>1, <3>3 DEF Respond, TypeOK
    <3>. QED BY <3>2, <3>3
  <2>7. CASE Read
    <3>1. pc = "reading" /\ UNCHANGED <<req, sent, accepted>>
      BY <2>7 DEF Read, ReadFails, ReadSuccess, ReadError
    <3>2. \/ pc' # "done"
          \/ \E r : r # Ok /\ Finish(r)
          \/ accepted /\ Finish(Ok)
      BY <2>7, ErrorsAreNotOk
      DEF Read, ReadFails, ReadSuccess, ReadError, Pause, LoopInv
    <3>3. ASSUME accepted, Finish(Ok) PROVE Contract!Finish
      <4>1. Outcome = "none" /\ Outcome' = "ok"
        BY <3>1, <3>3 DEF Finish
      <4>. QED BY <3>1, <3>3, <4>1 DEF Contract!Finish
    <3>. QED BY <2>1, <2>2, <3>1, <3>2, <3>3 DEF Contract!Next
  <2>8. CASE Wake
    BY <2>2, <2>8 DEF Wake
  <2>9. CASE LateEffect \/ UNCHANGED vars
    BY <2>9 DEF LateEffect, vars, Contract!vars
  <2>. QED
    BY <2>3, <2>4, <2>5, <2>6, <2>7, <2>8, <2>9 DEF Next, Answer
<1>. QED BY <1>1, <1>2, TypeCorrect, LoopInvHolds, PTL
     DEF Spec, ImplementsContract, Contract!Spec
=============================================================================
