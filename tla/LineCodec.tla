------------------------------ MODULE LineCodec ------------------------------
(***************************************************************************)
(* DelimiterCodec of network/mod.rs: every read of a connection is added   *)
(* to a buffer and the complete lines are taken off its front.  A line     *)
(* ends with \r\n or with \r\0; a line, or an unfinished rest, that is     *)
(* longer than the limit empties the buffer and fails the whole read.      *)
(*                                                                         *)
(* Bytes are the three that take part in a delimiter and some text.  The   *)
(* decoding of a line as UTF-8 and what handle_client does with it (it     *)
(* trims a trailing \r or \n) are left out.                                *)
(***************************************************************************)
EXTENDS Integers, Sequences, SequencesExt

CONSTANTS
    Text,        \* bytes that are part of no delimiter
    MaxLength,   \* max_length of the codec, 1024 in the program
    MaxStream,   \* bound: bytes the peer sends
    MaxRead      \* bound: bytes of one read, 1024 in the program

ASSUME CodecBounds ==
    /\ Text \cap {"cr", "lf", "nul"} = {}
    /\ MaxLength \in Nat
    /\ MaxStream \in Nat
    /\ MaxRead \in Nat \ {0}

VARIABLES
    sent,      \* everything the peer sent, in order
    buffer,    \* the buffer of the codec
    given,     \* the lines feed_data returned, in order
    refused    \* feed_data has returned an error

codecVars == <<sent, buffer, given, refused>>

Byte == Text \cup {"cr", "lf", "nul"}
CRLF == <<"cr", "lf">>
CRNUL == <<"cr", "nul">>

CodecInit ==
    /\ sent = <<>>
    /\ buffer = <<>>
    /\ given = <<>>
    /\ refused = FALSE

-----------------------------------------------------------------------------
(* The splitting of the buffer *)

(* Where the delimiter d stands in b. *)
At(d, b) == {i \in 1..(Len(b) - 1) : SubSeq(b, i, i + 1) = d}

(* The delimiter to cut at: the first \r\n of the whole buffer, and only   *)
(* without one the first \r\0; 0 when there is none.                       *)
FirstDelim(b) ==
    IF At(CRLF, b) # {} THEN Min(At(CRLF, b))
    ELSE IF At(CRNUL, b) # {} THEN Min(At(CRNUL, b))
    ELSE 0

(* What split_to leaves behind a delimiter at p. *)
After_OneByte(b, p) ==    \* (mutant) only the \r is taken off
    SubSeq(b, p + 1, Len(b))
After(b, p) == SubSeq(b, p + 2, Len(b))

(* An error keeps neither the lines found before it nor the buffer. *)
Refusal == [ok |-> FALSE, lines |-> <<>>, rest |-> <<>>]

(* One turn of the loop of extract_lines: a line is taken off the front. *)
TakeLine(s) ==
    LET p == FirstDelim(s.rest)
    IN  IF ~s.ok \/ p = 0 THEN s
        ELSE IF p - 1 > MaxLength THEN Refusal
        ELSE [ok |-> TRUE, lines |-> Append(s.lines, SubSeq(s.rest, 1, p - 1)),
              rest |-> After(s.rest, p)]

(* The loop and its end: what is left without a delimiter stays in the     *)
(* buffer if it fits.  No more lines than bytes can be in it.              *)
ExtractLines(b) ==
    LET after[i \in 0..Len(b)] ==
            IF i = 0 THEN [ok |-> TRUE, lines |-> <<>>, rest |-> b]
            ELSE TakeLine(after[i - 1])
        last == after[Len(b)]
    IN  IF Len(last.rest) > MaxLength THEN Refusal ELSE last

(* feed_data on one read. *)
FeedData_KeepBuffer(data) ==   \* (mutant) an error drops the read and not the buffer
    LET result == ExtractLines(buffer \o data) IN
    /\ sent' = sent \o data
    /\ buffer' = IF result.ok THEN result.rest ELSE buffer
    /\ given' = given \o result.lines
    /\ refused' = (refused \/ ~result.ok)
FeedData_LimitsRead(data) ==   \* (mutant) the limit is put on the read, not on a line
    LET result == IF Len(buffer \o data) > MaxLength THEN Refusal
                  ELSE ExtractLines(buffer \o data)
    IN  /\ sent' = sent \o data
        /\ buffer' = result.rest
        /\ given' = given \o result.lines
        /\ refused' = (refused \/ ~result.ok)
FeedData(data) ==
    LET result == ExtractLines(buffer \o data) IN
    /\ sent' = sent \o data
    /\ buffer' = result.rest
    /\ given' = given \o result.lines
    /\ refused' = (refused \/ ~result.ok)

CodecNext ==
    \E n \in 1..MaxRead : \E data \in [1..n -> Byte] :
        /\ Len(sent) + n <= MaxStream
        /\ FeedData(data)

CodecSpec == CodecInit /\ [][CodecNext]_codecVars

-----------------------------------------------------------------------------
(* Properties *)

CodecTypeOK ==
    /\ sent \in Seq(Byte) /\ buffer \in Seq(Byte)
    /\ given \in Seq(Seq(Byte)) /\ refused \in BOOLEAN

(* Bytes of the stream that the first n lines account for. *)
Used(n) ==
    LET upTo[i \in 0..n] == IF i = 0 THEN 0 ELSE upTo[i - 1] + Len(given[i]) + 2
    IN  upTo[n]

(* Where a delimiter stands in the stream.  A peer that ends all its lines *)
(* the same way has one kind of it.                                        *)
Delims == At(CRLF, sent) \cup At(CRNUL, sent)
OneDelimiter == At(CRLF, sent) = {} \/ At(CRNUL, sent) = {}

(* As long as no read failed, the lines handed over, each with a delimiter *)
(* behind it, and then the buffer spell what the peer sent, however the    *)
(* reads cut the stream and whichever delimiters the peer mixes: no byte   *)
(* is lost, doubled or moved by the codec.  A peer that does not mix them  *)
(* gets a line for each, so that its lines do not depend on the reads      *)
(* (feed_data, extract_lines).                                             *)
NothingLost ==
    ~refused =>
        /\ sent = SubSeq(sent, 1, Used(Len(given))) \o buffer
        /\ \A n \in 1..Len(given) :
              /\ SubSeq(sent, Used(n - 1) + 1, Used(n) - 2) = given[n]
              /\ SubSeq(sent, Used(n) - 1, Used(n)) \in {CRLF, CRNUL}
        /\ OneDelimiter => Len(given) = Cardinality(Delims)

(* Two lines of such a peer are never glued to one command, not even       *)
(* across a failed read that dropped a piece of the stream: what is handed *)
(* over stood in one piece in front of a delimiter (buffer.clear()).       *)
NeverGlued ==
    OneDelimiter =>
        \A n \in 1..Len(given) :
            \E i \in Delims :
                LET line == given[n] IN
                /\ Len(line) < i
                /\ line = SubSeq(sent, i - Len(line), i - 1)
                /\ FirstDelim(line) = 0

(* Where the lines of the stream begin, and the length of the one at i. *)
Begins == {1} \cup {i + 2 : i \in Delims}
LineLength(i) ==
    LET ends == {j \in Delims : j >= i}
    IN  IF ends = {} THEN Len(sent) - i + 1 ELSE Min(ends) - i

(* "Limit the length of each logical line, not the size of the read        *)
(* itself" (feed_data): nothing longer is kept or handed over, and a read  *)
(* fails only when the peer has sent a line that reaches the limit.  It    *)
(* need not exceed it: a line of exactly MaxLength bytes whose \r and \n   *)
(* come in two reads is refused as well.                                   *)
LineLimit ==
    /\ Len(buffer) <= MaxLength
    /\ \A n \in 1..Len(given) : Len(given[n]) <= MaxLength
    /\ OneDelimiter /\ refused => \E i \in Begins : LineLength(i) >= MaxLength
=============================================================================
