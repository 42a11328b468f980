---------------------------- MODULE RespParser ----------------------------
(***************************************************************************)
(* ParseRESP (src/protocol/resp/resp_parser.cpp).                          *)
(*                                                                         *)
(* A frame is a sequence of tokens, each counted as one byte: the header   *)
(* of an array or a bulk string with its number, an end of line, and       *)
(* anything else.  Half an end of line is as good as none to every test of *)
(* the parser, and is not a token.  A payload may hold any of them.        *)
(***************************************************************************)
EXTENDS Integers, Sequences, SequencesExt

CONSTANTS
    MaxArrayElements,  \* kMaxArrayElements
    MaxBulkLength      \* kMaxBulkLength

Token(sym, num) == [sym |-> sym, num |-> num]

EOL == Token("eol", 0)

\* ReadLine from offset: the line, and the offset after it; 0 if there is none.
ReadLine(frame, offset) ==
    LET end == SelectInSubSeq(frame, offset + 1, Len(frame), LAMBDA t : t = EOL)
    IN  [line |-> SubSeq(frame, offset + 1, end - 1), offset |-> end]

\* The tests on a line: its first character, ParseNumber, and the limits.
IsHeader(line, sym, min, max) ==
    /\ Len(line) = 1 /\ line[1].sym = sym
    /\ min <= line[1].num /\ line[1].num <= max

\* How a client encodes a command, a list of payloads.
Bulk(payload) == <<Token("$", Len(payload)), EOL>> \o payload \o <<EOL>>

Encode(parts) ==
    <<Token("*", Len(parts)), EOL>> \o FlattenSeq([i \in 1 .. Len(parts) |-> Bulk(parts[i])])

Nothing == [parts |-> << >>, consumed |-> 0]

\* Mistake: the payload ends where the line does.
ParseBulk_ByLine(frame, read) ==
    LET l == ReadLine(frame, read.consumed)
        p == ReadLine(frame, l.offset)
    IN  IF \/ read = Nothing \/ l.offset = 0 \/ ~IsHeader(l.line, "$", 0, MaxBulkLength)
           \/ p.offset = 0
          THEN Nothing
          ELSE [parts |-> Append(read.parts, p.line), consumed |-> p.offset]

\* One turn of the loop, from what the turns before have read.
ParseBulk(frame, read) ==
    LET l == ReadLine(frame, read.consumed)
        length == l.line[1].num
    IN  IF \/ read = Nothing \/ l.offset = 0 \/ ~IsHeader(l.line, "$", 0, MaxBulkLength)
           \/ Len(frame) - l.offset < length + 1 \/ frame[l.offset + length + 1] # EOL
          THEN Nothing
          ELSE [parts |-> Append(read.parts, SubSeq(frame, l.offset + 1, l.offset + length)),
                consumed |-> l.offset + length + 1]

\* Nothing stands for a frame that is incomplete as well as for one that can
\* never be completed.
ParseRESP(frame) ==
    LET l == ReadLine(frame, 0)
    IN  IF l.offset = 0 \/ ~IsHeader(l.line, "*", 1, MaxArrayElements) THEN Nothing
        ELSE FoldLeft(LAMBDA read, i : ParseBulk(frame, read),
                      [parts |-> << >>, consumed |-> l.offset],
                      [i \in 1 .. l.line[1].num |-> i])

=============================================================================
