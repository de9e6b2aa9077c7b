------------------------------ MODULE SseStream -------------------------------
(***************************************************************************)
(* The answer of Peer::chat_stream: the SSE parser and its byte stream     *)
(* (src/src/http/sse.rs) under the DialecticStream the caller polls        *)
(* (src/src/dialectic_stream.rs).  The server cuts the body into chunks    *)
(* wherever it likes: inside a character, between CR and LF, in a line.    *)
(*                                                                         *)
(* A byte is "txt", a one-byte character; "lead" and "cont", the two bytes *)
(* of "wide"; "CR"; "LF"; or "fin", the whole of `data: {"done": true}`.   *)
(* The framing of the other events is left out: a line of characters is    *)
(* the event that carries these characters, and any other line is one that *)
(* handle_line ignores.                                                    *)
(***************************************************************************)
EXTENDS Integers, Sequences, FiniteSets, SequencesExt, FiniteSetsExt

CONSTANTS
  MaxLine,    \* MAX_SSE_LINE_BYTES
  MaxBody,    \* bound: bytes of the body
  MaxChunk    \* bound: bytes of a chunk

ASSUME ConstantsAssumption ==
  /\ MaxLine \in Nat \ {0}
  /\ MaxBody \in Nat /\ MaxChunk \in Nat

Bytes == {"txt", "lead", "cont", "fin", "CR", "LF"}
Breaks == {"CR", "LF"}
Text == {"txt", "wide", "bad"}
Chars == Text \union Breaks \union {"fin"}

VARIABLES
  body,       \* the bytes received so far
  pending,    \* SseParser::pending_bytes
  buffer,     \* SseParser::buffer, characters
  done,       \* SseParser::done
  pc,         \* where parse_sse_stream is
  then,       \* what it does once the queue is empty
  queue,      \* contents parsed and not yielded yet
  final,      \* DialecticStream: the contents yielded, accumulated
  why         \* how the stream ended: "open" until it is complete

vars == <<body, pending, buffer, done, pc, then, queue, final, why>>

(* The length of a string in UTF-8, where a character of two bytes counts  *)
(* once more, and the replacement character, of three, twice more.         *)
Count(c, s) == Cardinality({i \in DOMAIN s : s[i] = c})
Size(s) == Len(s) + Count("wide", s) + 2 * Count("bad", s)

Init ==
  /\ body = <<>>
  /\ pending = <<>>
  /\ buffer = <<>>
  /\ done = FALSE
  /\ pc = "read"
  /\ then = "read"
  /\ queue = <<>>
  /\ final = <<>>
  /\ why = "open"

-----------------------------------------------------------------------------
(* The stream is complete: poll_next does not touch the inner one again. *)
Complete(how) ==
  /\ pc' = "complete"
  /\ why' = how
  /\ queue' = <<>>

(* SseParser::feed with the next chunk. *)
Feed(chunk) ==
  /\ pc = "read"
  /\ body' = body \o chunk
  /\ pending' = pending \o chunk
  /\ pc' = "decode"
  /\ UNCHANGED <<buffer, done, then, queue, final, why>>

(* decode_pending, one character at a time: a byte that starts none, or a  *)
(* lead byte that is not followed by its continuation, is replaced.        *)
Incomplete == pending \in {<<>>, <<"lead">>}

Decode ==
  /\ pc = "decode"
  /\ ~Incomplete
  /\ LET pair == Len(pending) > 1 /\ pending[1] = "lead" /\ pending[2] = "cont"
         char == IF pair THEN "wide"
                 ELSE IF pending[1] \in {"lead", "cont"} THEN "bad" ELSE pending[1]
     IN  /\ buffer' = Append(buffer, char)
         /\ pending' = SubSeq(pending, IF pair THEN 3 ELSE 2, Len(pending))
  /\ UNCHANGED <<body, done, pc, then, queue, final, why>>

(* Mutant: what is not a whole character yet is replaced at once. *)
DecodedLossy ==
  /\ pc = "decode"
  /\ Incomplete
  /\ buffer' = buffer \o [i \in 1..Len(pending) |-> "bad"]
  /\ pending' = <<>>
  /\ pc' = "drain"
  /\ UNCHANGED <<body, done, then, queue, final, why>>

Decoded ==
  /\ pc = "decode"
  /\ Incomplete
  /\ pc' = "drain"
  /\ UNCHANGED <<body, pending, buffer, done, then, queue, final, why>>

(* pop_line: the line before the first break, where a CR that ends the     *)
(* buffer may be half of a CRLF and has to wait; a flush takes all.        *)
Flushing == then # "read"
BreakAt == {i \in DOMAIN buffer : buffer[i] \in Breaks}
HasLine ==
  IF BreakAt = {} THEN Flushing /\ buffer # <<>>
  ELSE Flushing \/ Min(BreakAt) < Len(buffer) \/ buffer[Min(BreakAt)] = "LF"

LineEnd == IF BreakAt = {} THEN Len(buffer) ELSE Min(BreakAt) - 1
NextLine ==
  LET e == LineEnd + 1
  IN  IF e < Len(buffer) /\ buffer[e] = "CR" /\ buffer[e + 1] = "LF" THEN e + 2 ELSE e + 1

(* handle_line: an event with some text is a content. *)
IsContent(line) == line # <<>> /\ \A i \in DOMAIN line : line[i] \in Text
IsDone(line) == line = <<"fin">>

(* drain_lines, one line at a time, until the event that ends the answer. *)
PopLine ==
  /\ pc = "drain"
  /\ ~done
  /\ HasLine
  /\ LET line == SubSeq(buffer, 1, LineEnd)
     IN  /\ done' = IsDone(line)
         /\ queue' = IF IsContent(line) THEN Append(queue, line) ELSE queue
  /\ buffer' = SubSeq(buffer, NextLine, Len(buffer))
  /\ UNCHANGED <<body, pending, pc, then, final, why>>

(* Mutant: the undecoded bytes count twice. *)
DrainedEager ==
  /\ pc = "drain"
  /\ done \/ ~HasLine
  /\ IF then = "read" /\ Size(buffer) + 2 * Len(pending) > MaxLine
       THEN Complete("guard")
       ELSE pc' = "yield" /\ UNCHANGED <<queue, why>>
  /\ UNCHANGED <<body, pending, buffer, done, then, final>>

(* Mutant: the bytes that are not decoded yet do not count. *)
DrainedUncounted ==
  /\ pc = "drain"
  /\ done \/ ~HasLine
  /\ IF then = "read" /\ Size(buffer) > MaxLine
       THEN Complete("guard")
       ELSE pc' = "yield" /\ UNCHANGED <<queue, why>>
  /\ UNCHANGED <<body, pending, buffer, done, then, final>>

(* Mutant: the loop over the lines does not end with the answer. *)
DrainedAllOnly ==
  /\ pc = "drain"
  /\ ~HasLine
  /\ IF then = "read" /\ Size(buffer) + Len(pending) > MaxLine
       THEN Complete("guard")
       ELSE pc' = "yield" /\ UNCHANGED <<queue, why>>
  /\ UNCHANGED <<body, pending, buffer, done, then, final>>

(* The end of feed, whose lines are lost when the guard trips; and of      *)
(* finalize, which had the guard before it drained.                        *)
Drained ==
  /\ pc = "drain"
  /\ done \/ ~HasLine
  /\ IF then = "read" /\ Size(buffer) + Len(pending) > MaxLine
       THEN Complete("guard")
       ELSE pc' = "yield" /\ UNCHANGED <<queue, why>>
  /\ UNCHANGED <<body, pending, buffer, done, then, final>>

(* The caller polls: DialecticStream accumulates what it hands on. *)
Yield ==
  /\ pc = "yield"
  /\ queue # <<>>
  /\ final' = Append(final, Head(queue))
  /\ queue' = Tail(queue)
  /\ UNCHANGED <<body, pending, buffer, done, pc, then, why>>

(* After the contents of a chunk: the next one, or the end after "done",   *)
(* for which finalize has nothing left to give.                            *)
NextChunk ==
  /\ pc = "yield"
  /\ queue = <<>>
  /\ IF then # "read" THEN Complete(then)
     ELSE IF done THEN Complete("clean")
     ELSE pc' = "read" /\ UNCHANGED <<queue, why>>
  /\ UNCHANGED <<body, pending, buffer, done, then, final>>

(* Mutant: a broken connection is reported at once. *)
FinalizeAtOnce(how) ==
  /\ pc = "read"
  /\ then' = how
  /\ LET flushed == IF pending = <<>> THEN buffer ELSE Append(buffer, "bad")
     IN  /\ buffer' = flushed
         /\ IF how = "transport" THEN Complete(how)
            ELSE IF Size(flushed) > MaxLine THEN Complete("guard")
            ELSE pc' = "drain" /\ UNCHANGED <<queue, why>>
  /\ pending' = <<>>
  /\ UNCHANGED <<body, done, final>>

(* finalize at the end of the body ("clean") or when the connection breaks *)
(* ("transport"): what is left is a line.                                  *)
Finalize(how) ==
  /\ pc = "read"
  /\ then' = how
  /\ LET flushed == IF pending = <<>> THEN buffer ELSE Append(buffer, "bad")
     IN  /\ buffer' = flushed
         /\ IF Size(flushed) > MaxLine THEN Complete("guard")
            ELSE pc' = "drain" /\ UNCHANGED <<queue, why>>
  /\ pending' = <<>>
  /\ UNCHANGED <<body, done, final>>

-----------------------------------------------------------------------------
Next ==
  \/ \E n \in 1..Min({MaxChunk, MaxBody - Len(body)}) : \E chunk \in [1..n -> Bytes] : Feed(chunk)
  \/ Decode \/ Decoded \/ PopLine \/ Drained \/ Yield \/ NextChunk
  \/ \E how \in {"clean", "transport"} : Finalize(how)

Spec == Init /\ [][Next]_vars

(* The caller polls the stream to its end, and the timeout of the request, *)
(* which covers the body, bounds every wait.                               *)
FairSpec == Spec /\ WF_vars(Next)

-----------------------------------------------------------------------------
(* The reference: what a body means, read in one piece from its start.     *)
(* "end" after a body stands for its end, which completes the last         *)
(* character and the last line.                                            *)
Ended(b) == Append(b, "end")

(* The characters; a lead byte that is the last may still become one.      *)
Decoding[b \in Seq(Bytes \union {"end"})] ==
  IF b \in {<<>>, <<"lead">>} THEN <<>>
  ELSE IF b[1] = "lead" /\ b[2] = "cont"
    THEN <<"wide">> \o Decoding[SubSeq(b, 3, Len(b))]
    ELSE <<IF b[1] \in {"lead", "cont"} THEN "bad" ELSE b[1]>>
           \o Decoding[SubSeq(b, 2, Len(b))]

(* The positions of a text where a line ends, break included, the line up  *)
(* to the first of them and what follows it.                               *)
Ends(s) ==
  {i \in DOMAIN s : \/ s[i] \in {"LF", "end"}
                    \/ s[i] = "CR" /\ i < Len(s) /\ s[i + 1] # "LF"}
FirstLine(s) == SubSeq(s, 1, Min({i \in DOMAIN s : s[i] \in Breaks \union {"end"}}) - 1)
AfterLine(s) == SubSeq(s, Min(Ends(s)) + 1, Len(s))

(* The contents of the lines before the event that ends the answer. *)
Contents[s \in Seq(Chars \union {"end"})] ==
  IF Ends(s) = {} \/ IsDone(FirstLine(s)) THEN <<>>
  ELSE (IF IsContent(FirstLine(s)) THEN <<FirstLine(s)>> ELSE <<>>) \o Contents[AfterLine(s)]

Meaning(b) == Contents[Decoding[b]]

(* The line that has not ended yet, with a lead byte that is not decoded:  *)
(* one byte, or a replacement character once the body has ended.           *)
OpenLine(s) == SubSeq(s, Max(Ends(s) \union {0}) + 1, Len(s))
HalfChar(b) == b # <<>> /\ b[Len(b)] = "lead"
OpenSize(b, ended) ==
  Size(OpenLine(Decoding[b])) + (IF ~HalfChar(b) THEN 0 ELSE IF ended THEN 3 ELSE 1)

-----------------------------------------------------------------------------
(* Every variable has its type, and between two reads nothing is queued    *)
(* and no more is kept than the guard allows.                              *)
TypeOK ==
  /\ body \in Seq(Bytes) /\ Len(body) <= MaxBody
  /\ pending \in Seq(Bytes)
  /\ buffer \in Seq(Chars)
  /\ done \in BOOLEAN
  /\ pc \in {"read", "decode", "drain", "yield", "complete"}
  /\ then \in {"read", "clean", "transport"}
  /\ queue \in Seq(Seq(Text))
  /\ final \in Seq(Seq(Text))
  /\ why \in {"open", "clean", "transport", "guard"}
  /\ pc = "complete" <=> why # "open"
  /\ pc = "read" => /\ ~done /\ queue = <<>> /\ Incomplete
                    /\ Size(buffer) + Len(pending) <= MaxLine

(* Whatever the chunks, before the next one is awaited the caller has got  *)
(* exactly the contents of the lines received (sse.rs:3-4, 16-17).         *)
Prompt == pc = "read" => final = Meaning(body)

(* The stream never ends before it has handed on everything received, also *)
(* when the connection breaks (sse.rs:262), and nothing after "done".      *)
NothingLost ==
  /\ why \in {"clean", "transport"} => final = Meaning(Ended(body))
  /\ why = "guard" => IsPrefix(final, Meaning(Ended(body)))

(* Before "done" the guard refuses an unterminated line longer than        *)
(* MaxLine only, and not a chunk of many lines (sse.rs:45-48); a CR that   *)
(* may be half of a CRLF belongs to the line.                              *)
GuardJustified ==
  why = "guard" /\ ~done => OpenSize(body, then # "read") > MaxLine

(* The stream ends once the body does. *)
Completes == <>(pc = "complete")
=============================================================================
