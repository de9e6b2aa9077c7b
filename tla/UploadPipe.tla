----------------------------- MODULE UploadPipe ------------------------------
(***************************************************************************)
(* A streamed upload of the blocking facade (src/src/blocking/session.rs): *)
(* upload_file_streamed spawns a thread that copies a synchronous reader   *)
(* into a bounded pipe; send() reads the pipe to its end, POSTs what it    *)
(* read, and joins the thread.  An error of the reader travels beside the  *)
(* pipe, in error_slot.  A unit of the file is its position in the file.   *)
(* The usual names begin with UP, as this module is extended together with *)
(* BlockingFacade by the theorems about both.                              *)
(***************************************************************************)
EXTENDS Naturals, Sequences

CONSTANTS
  PipeBuf,    \* PIPE_BUF: capacity of the pipe and of the read buffer
  MaxFile     \* bound: units in a file

ASSUME UPAssumption == PipeBuf \in Nat \ {0} /\ MaxFile \in Nat

VARIABLES
  file,      \* the caller's reader: its units, and how it ends
  thread,    \* the reader thread
  taken,     \* units read from the reader
  buf,       \* units the thread has yet to write
  pipe,      \* units in the duplex pipe
  slot,      \* error_slot holds an error
  caller,    \* where the caller is
  body,      \* what send() read so far, then the body of its POST
  copy,      \* the one copy of the POST, and its fate
  result     \* what send() returns

reader_vars == <<file, thread, taken, buf>>
sender_vars == <<caller, body, copy, result>>
UPVars == <<reader_vars, pipe, slot, sender_vars>>

Ends == {"eof", "error", "panic"}
Running == {"read", "write", "closing"}
Whole == [i \in 1..file.size |-> i]

(* The two halves of the pipe: tx lives in the thread, rx in the source of *)
(* the builder, which send() consumes. *)
TxOpen == thread \in Running
RxOpen == caller \in {"built", "reading"}

(* upload_file_streamed: the thread starts at once, unless the runtime     *)
(* could not be built; then its error waits in the slot.                   *)
UPInit ==
  /\ file \in [size : 0..MaxFile, end : Ends]
  /\ thread \in {"read", "none"}
  /\ slot = (thread = "none")
  /\ taken = 0
  /\ buf = <<>>
  /\ pipe = <<>>
  /\ caller = "built"
  /\ body = <<>>
  /\ copy = "none"
  /\ result = "none"

-----------------------------------------------------------------------------
(* The reader thread. *)

Least(a, b) == IF a <= b THEN a ELSE b

(* read() returns some of the units left, at most a buffer of them. *)
Read ==
  /\ thread = "read"
  /\ \E n \in 1..Least(PipeBuf, file.size - taken) :
       /\ buf' = [i \in 1..n |-> taken + i]
       /\ taken' = taken + n
  /\ thread' = "write"
  /\ UNCHANGED <<file, pipe, slot, sender_vars>>

(* Mutant: an error ends the loop like the end of the file. *)
ReadEndsQuietly ==
  /\ thread = "read"
  /\ taken = file.size
  /\ file.end \in {"eof", "error"}
  /\ thread' = "closing"
  /\ UNCHANGED <<file, taken, buf, pipe, slot, sender_vars>>

(* read() returns 0, or an error, which is published before tx is dropped. *)
ReadEnds ==
  /\ thread = "read"
  /\ taken = file.size
  /\ file.end \in {"eof", "error"}
  /\ slot' = (slot \/ file.end = "error")
  /\ thread' = "closing"
  /\ UNCHANGED <<file, taken, buf, pipe, sender_vars>>

(* read() panics: unwinding drops tx, and nothing reaches the slot. *)
ReadPanics ==
  /\ thread = "read"
  /\ taken = file.size
  /\ file.end = "panic"
  /\ thread' = "panicked"
  /\ UNCHANGED <<file, taken, buf, pipe, slot, sender_vars>>

(* write_all(): as much as fits, again and again; waits on a full pipe. *)
Write ==
  /\ thread = "write"
  /\ RxOpen
  /\ LET n == Least(Len(buf), PipeBuf - Len(pipe))
     IN  /\ n > 0
         /\ pipe' = pipe \o SubSeq(buf, 1, n)
         /\ buf' = SubSeq(buf, n + 1, Len(buf))
         /\ thread' = IF n = Len(buf) THEN "read" ELSE "write"
  /\ UNCHANGED <<file, taken, slot, sender_vars>>

(* rx is gone: write_all() fails and the thread returns. *)
WriteFails ==
  /\ thread = "write"
  /\ ~RxOpen
  /\ buf' = <<>>
  /\ thread' = "closing"
  /\ UNCHANGED <<file, taken, pipe, slot, sender_vars>>

(* The thread's block_on returns and drops tx. *)
Close ==
  /\ thread = "closing"
  /\ thread' = "ended"
  /\ UNCHANGED <<file, taken, buf, pipe, slot, sender_vars>>

-----------------------------------------------------------------------------
(* The caller. *)

(* The builder is dropped instead of sent: the thread is detached. *)
DropBuilder ==
  /\ caller = "built"
  /\ caller' = "dropped"
  /\ pipe' = <<>>
  /\ UNCHANGED <<reader_vars, slot, body, copy, result>>

(* Whatever ends send() before the POST drops rx on its way out. *)
GiveUp(how) ==
  /\ result' = how
  /\ caller' = "joining"
  /\ pipe' = <<>>
  /\ UNCHANGED <<reader_vars, body, copy>>

(* block_on refuses (called in an async runtime, or there is no runtime),  *)
(* or the fields do not validate.                                          *)
SendRefused ==
  /\ caller = "built"
  /\ GiveUp("refused")
  /\ UNCHANGED slot

SendStart ==
  /\ caller = "built"
  /\ thread # "none"
  /\ caller' = "reading"
  /\ UNCHANGED <<reader_vars, pipe, slot, body, copy, result>>

(* Mutant: the thread is joined before its pipe is read. *)
FillAfterJoin ==
  /\ caller = "reading"
  /\ ~TxOpen
  /\ \E n \in 1..Len(pipe) :
       /\ body' = body \o SubSeq(pipe, 1, n)
       /\ pipe' = SubSeq(pipe, n + 1, Len(pipe))
  /\ UNCHANGED <<reader_vars, slot, caller, copy, result>>

(* read_to_end: a poll_read that grows the body. *)
Fill ==
  /\ caller = "reading"
  /\ \E n \in 1..Len(pipe) :
       /\ body' = body \o SubSeq(pipe, 1, n)
       /\ pipe' = SubSeq(pipe, n + 1, Len(pipe))
  /\ UNCHANGED <<reader_vars, slot, caller, copy, result>>

(* The pipe is empty and tx is gone. *)
AtEof == caller = "reading" /\ pipe = <<>> /\ ~TxOpen

(* ErrorAwareReader at the end: an error in the slot comes out instead. *)
FillFails ==
  /\ AtEof
  /\ slot
  /\ slot' = FALSE
  /\ GiveUp("io")

(* The whole body is in memory: POST it, once. *)
Post ==
  /\ AtEof
  /\ ~slot
  /\ caller' = "posting"
  /\ copy' = "out"
  /\ UNCHANGED <<reader_vars, pipe, slot, body, result>>

(* The form cannot be built (its content type does not parse). *)
FormFails ==
  /\ AtEof
  /\ ~slot
  /\ GiveUp("refused")
  /\ UNCHANGED slot

(* post_multipart returns. *)
Answer ==
  /\ caller = "posting"
  /\ \/ copy = "stored" /\ result' = "ok"
     \/ result' = "err"
  /\ caller' = "joining"
  /\ UNCHANGED <<reader_vars, pipe, slot, body, copy>>

(* Mutant: a panic is reported only if the request failed. *)
JoinKeepsOk ==
  /\ caller = "joining"
  /\ ~TxOpen
  /\ result' = IF thread = "panicked" /\ result # "ok" THEN "io" ELSE result
  /\ caller' = "done"
  /\ UNCHANGED <<reader_vars, pipe, slot, body, copy>>

(* send() joins the thread on every path; a panic overrides the result. *)
Join ==
  /\ caller = "joining"
  /\ ~TxOpen
  /\ result' = IF thread = "panicked" THEN "io" ELSE result
  /\ caller' = "done"
  /\ UNCHANGED <<reader_vars, pipe, slot, body, copy>>

-----------------------------------------------------------------------------
(* The server and the network: the POST takes effect, possibly after       *)
(* send() gave up on it, or never does.                                    *)
Serve ==
  /\ copy = "out"
  /\ copy' \in {"stored", "lost"}
  /\ UNCHANGED <<reader_vars, pipe, slot, caller, body, result>>

-----------------------------------------------------------------------------
ThreadStep == Read \/ ReadEnds \/ ReadPanics \/ Write \/ WriteFails \/ Close
SendStep == Fill \/ FillFails \/ Post \/ FormFails \/ Answer \/ Join

UPNext == ThreadStep \/ SendStep \/ DropBuilder \/ SendRefused \/ SendStart \/ Serve

UPSpec == UPInit /\ [][UPNext]_UPVars

(* The OS runs the thread, the multi-thread runtime runs send(), a request *)
(* times out, and the caller's reader returns from every read().  Whether  *)
(* the builder is sent or dropped is the caller's choice.                  *)
UPFairSpec == UPSpec /\ WF_UPVars(ThreadStep) /\ WF_UPVars(SendStep)

-----------------------------------------------------------------------------
(* Every variable has its type; neither buffer outgrows PIPE_BUF           *)
(* (blocking/session.rs:19-22).                                            *)
UPTypeOK ==
  /\ file \in [size : 0..MaxFile, end : Ends]
  /\ thread \in Running \union {"none", "ended", "panicked"}
  /\ taken \in 0..file.size
  /\ buf \in Seq(1..MaxFile) /\ Len(buf) <= PipeBuf
  /\ (buf # <<>>) = (thread = "write")
  /\ pipe \in Seq(1..MaxFile) /\ Len(pipe) <= PipeBuf
  /\ slot \in BOOLEAN
  /\ caller \in {"built", "dropped", "reading", "posting", "joining", "done"}
  /\ body \in Seq(1..MaxFile)
  /\ copy \in {"none", "out", "stored", "lost"}
  /\ result \in {"none", "refused", "io", "err", "ok"}

(* While the pipe is read, what was read, what is in the pipe and what the *)
(* thread still holds are the file so far: nothing lost, repeated or out   *)
(* of order, wherever reads and writes cut it.                             *)
PipeInOrder ==
  RxOpen => body \o pipe \o buf = [i \in 1..taken |-> i]

(* A body that is not the whole file is never POSTed, however the end of   *)
(* the pipe and the error in the slot race (blocking/session.rs:36-52);    *)
(* but for a reader that panicked, which send() cannot see before it.      *)
NoTruncatedUpload ==
  copy # "none" => body = Whole /\ (file.end = "eof" \/ thread = "panicked")

(* What send() returns is the truth: ok only for the whole file, stored,   *)
(* from a reader that ended well; and it blames the reader (Io) exactly if *)
(* the reader failed and send() got to see it (blocking/session.rs:607-    *)
(* 610, 625-632).                                                          *)
ResultHonest ==
  caller = "done" =>
    /\ result = "ok" => copy = "stored" /\ body = Whole /\ file.end = "eof"
    /\ result = "io" => file.end # "eof" /\ taken = file.size
    /\ result = "err" => file.end = "eof"

(* "Always join the reader thread when present so it never outlives this   *)
(* call" (blocking/session.rs:619-621).                                    *)
JoinedOnReturn == caller = "done" => ~TxOpen

(* Once the builder is sent or dropped, the caller is released and the     *)
(* thread ends: neither waits for ever on the other's end of the pipe.     *)
Settles == (caller # "built") ~> (caller \in {"done", "dropped"} /\ ~TxOpen)
=============================================================================
