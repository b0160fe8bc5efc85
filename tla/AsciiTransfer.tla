---------------------------- MODULE AsciiTransfer ----------------------------
(***************************************************************************)
(* ascii_writer and ascii_reader (ftp/transfersocket.cpp): the conversion  *)
(* of line endings in ASCII transfers.  Both work on what comes in, buffer *)
(* by buffer, and keep one bit between buffers; the writer converts in     *)
(* place.                                                                  *)
(***************************************************************************)
EXTENDS Integers, Sequences, SequencesExt

CONSTANTS
    MaxLen,            \* bound: characters in a transfer
    WriteBufferSize    \* of the writer wrapped by ascii_writer

ASSUME SizesAssumption == MaxLen \in Nat /\ WriteBufferSize \in Nat \ {0, 1}

Chars == {"CR", "LF", "x"}

VARIABLES
    direction,    \* "download" or "upload"
    input,        \* what came from the server or the file so far
    was_cr_,
    buffer,       \* of the wrapped writer, as the transfer socket has it, or NoWriteBuffer
    output,       \* what went to the wrapped writer or to the server
    finalized

asciiVars == <<direction, input, was_cr_, buffer, output, finalized>>

NoWriteBuffer == <<"none">>

AsciiTypeOK ==
    /\ direction \in {"download", "upload"} /\ {was_cr_, finalized} \subseteq BOOLEAN
    /\ input \in Seq(Chars) /\ output \in Seq(Chars) /\ (buffer # NoWriteBuffer => buffer \in Seq(Chars))

AsciiInit ==
    /\ direction \in {"download", "upload"}
    /\ input = <<>> /\ output = <<>> /\ was_cr_ = FALSE
    /\ buffer = NoWriteBuffer /\ finalized = FALSE

-----------------------------------------------------------------------------
(* ascii_writer *)

(* One turn of transform's loop. *)
Step(acc, c) ==
    CASE c = "CR" -> [was_cr |-> TRUE, out |-> acc.out]
      [] c = "LF" -> [was_cr |-> FALSE, out |-> Append(acc.out, c)]
      [] OTHER -> [was_cr |-> FALSE,
                   out |-> (IF acc.was_cr THEN Append(acc.out, "CR") ELSE acc.out) \o <<c>>]

(* The loop over a buffer. *)
transform(was_cr, b) ==
    LET turn[i \in 0 .. Len(b)] ==
            IF i = 0 THEN [was_cr |-> was_cr, out |-> <<>>] ELSE Step(turn[i - 1], b[i])
    IN  turn[Len(b)]

(* What is left of the buffer, if there is one. *)
Transformed == IF buffer = NoWriteBuffer THEN [was_cr |-> was_cr_, out |-> <<>>] ELSE transform(was_cr_, buffer)

(* Data arrive in the buffer. *)
Receive ==
    /\ direction = "download" /\ ~finalized /\ buffer # NoWriteBuffer
    /\ \E c \in Chars :
          /\ Len(input) < MaxLen /\ Len(buffer) < WriteBufferSize
          /\ input' = Append(input, c) /\ buffer' = Append(buffer, c)
    /\ UNCHANGED <<direction, was_cr_, output, finalized>>

(* Mutant: a CR at the end of a buffer is kept back, and not put in the next one. *)
GetWriteBufferLate ==
    /\ direction = "download" /\ ~finalized /\ (buffer = NoWriteBuffer \/ Len(buffer) = WriteBufferSize)
    /\ output' = output \o Transformed.out
    /\ was_cr_' = Transformed.was_cr
    /\ buffer' = <<>> \/ buffer' = NoWriteBuffer
    /\ UNCHANGED <<direction, input, finalized>>

(* The wrapped writer takes the full buffer and has another, in which a CR that may
   belong to a line ending comes first, or wants to be waited for. *)
GetWriteBuffer ==
    /\ direction = "download" /\ ~finalized /\ (buffer = NoWriteBuffer \/ Len(buffer) = WriteBufferSize)
    /\ output' = output \o Transformed.out
    /\ \/ /\ buffer' = IF Transformed.was_cr THEN <<"CR">> ELSE <<>>
          /\ was_cr_' = FALSE
       \/ buffer' = NoWriteBuffer /\ was_cr_' = Transformed.was_cr
    /\ UNCHANGED <<direction, input, finalized>>

(* The last buffer, with a CR that nothing follows. *)
Finalize ==
    /\ direction = "download" /\ ~finalized /\ buffer # NoWriteBuffer
    /\ output' = output \o Transformed.out \o (IF Transformed.was_cr THEN <<"CR">> ELSE <<>>)
    /\ was_cr_' = FALSE /\ buffer' = NoWriteBuffer /\ finalized' = TRUE
    /\ UNCHANGED <<direction, input>>

-----------------------------------------------------------------------------
(* ascii_reader *)

Expand(acc, c) ==
    [was_cr |-> c = "CR",
     out |-> (IF c = "LF" /\ ~acc.was_cr THEN Append(acc.out, "CR") ELSE acc.out) \o <<c>>]

Expanded(was_cr, b) ==
    LET turn[i \in 0 .. Len(b)] ==
            IF i = 0 THEN [was_cr |-> was_cr, out |-> <<>>] ELSE Expand(turn[i - 1], b[i])
    IN  turn[Len(b)]

(* A buffer of the wrapped reader. *)
read ==
    /\ direction = "upload"
    /\ \E chunk \in BoundedSeq(Chars, WriteBufferSize) :
          /\ chunk # <<>> /\ Len(input) + Len(chunk) <= MaxLen
          /\ input' = input \o chunk
          /\ output' = output \o Expanded(was_cr_, chunk).out
          /\ was_cr_' = Expanded(was_cr_, chunk).was_cr
    /\ UNCHANGED <<direction, buffer, finalized>>

AsciiNext == Receive \/ GetWriteBuffer \/ Finalize \/ read

AsciiSpec == AsciiInit /\ [][AsciiNext]_asciiVars

-----------------------------------------------------------------------------
(* What is to come out, defined on the whole input. *)

Char(s, i) == IF i \in DOMAIN s THEN s[i] ELSE "none"

(* A CR goes if a LF, or another CR, follows it. *)
Stripped(s) ==
    FlattenSeq([i \in DOMAIN s |->
        IF s[i] = "CR" /\ Char(s, i + 1) \in {"CR", "LF"} THEN <<>> ELSE <<s[i]>>])

(* A LF that no CR precedes gets one. *)
Completed(s) ==
    FlattenSeq([i \in DOMAIN s |->
        IF s[i] = "LF" /\ Char(s, i - 1) # "CR" THEN <<"CR", "LF">> ELSE <<s[i]>>])

(* However the data are cut into buffers, and whether or not the writer had to be
   waited for, the conversion is that of the whole file. The writer's loop never
   starts with a CR kept back, which it would write over a character it has not
   read, and never fills more than the buffer. A file without CRs survives an
   upload and a download. *)
ConversionIsExact ==
    /\ finalized => output = Stripped(input)
    /\ buffer # NoWriteBuffer => ~was_cr_ /\ Len(buffer) <= WriteBufferSize
    /\ direction = "upload" =>
          /\ output = Completed(input)
          /\ "CR" \notin ToSet(input) => Stripped(output) = input
==============================================================================
