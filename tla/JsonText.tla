----------------------------- MODULE JsonText -----------------------------
(***************************************************************************)
(* The strings of the benchmark's JSON, byte by byte (bench/               *)
(* cache_bench.cpp): JsonEscapeString, which writes a scenario's name, and *)
(* ParseString with its escapes, which reads one.                          *)
(***************************************************************************)
EXTENDS Integers, Sequences, SequencesExt

Quote == 34
Backslash == 92

\* The bytes with an escape of their own, and the letter of it.
Letters == {<<34, 34>>, <<92, 92>>, <<8, 98>>, <<12, 102>>, <<10, 110>>, <<13, 114>>, <<9, 116>>}

\* kHex.
Digit(n) == IF n < 10 THEN 48 + n ELSE 97 + n - 10

Escape(byte) ==
    CASE \E l \in Letters : l[1] = byte -> <<Backslash, (CHOOSE l \in Letters : l[1] = byte)[2]>>
      [] byte < 32 -> <<Backslash, 117, 48, 48, Digit(byte \div 16), Digit(byte % 16)>>
      [] OTHER -> <<byte>>

JsonEscapeString(input) == FlattenSeq([i \in DOMAIN input |-> Escape(input[i])])

HexValue(ch) ==
    CASE ch \in 48 .. 57 -> ch - 48 [] ch \in 97 .. 102 -> ch - 87 [] ch \in 65 .. 70 -> ch - 55
      [] OTHER -> -1

\* The code unit of the four digits after pos, -1 if they are not four digits.
ParseHex4(input, pos) ==
    LET digits == [i \in 1 .. 4 |-> HexValue(input[pos + i])]
    IN  IF pos + 4 > Len(input) \/ \E i \in 1 .. 4 : digits[i] < 0 THEN -1
        ELSE FoldLeft(LAMBDA value, d : 16 * value + d, 0, digits)

\* A byte that carries the low six bits.
Tail6(bits) == 128 + (bits % 64)

\* AppendUtf8 refuses what is above 10FFFF, which no two surrogates make.
AppendUtf8(codepoint) ==
    CASE codepoint \in 0 .. 127 -> <<codepoint>>
      [] codepoint \in 128 .. 2047 -> <<192 + (codepoint \div 64), Tail6(codepoint)>>
      [] codepoint \in 2048 .. 65535 ->
           <<224 + (codepoint \div 4096), Tail6(codepoint \div 64), Tail6(codepoint)>>
      [] OTHER ->
           <<240 + (codepoint \div 262144), Tail6(codepoint \div 4096), Tail6(codepoint \div 64),
             Tail6(codepoint)>>

\* Where a reader stands: the bytes read so far, and pos_; pos 0 is a failure.
At(out, pos) == [out |-> out, pos |-> pos]

Failed == At(<< >>, 0)

High == 55296 .. 56319
Low == 56320 .. 57343

\* The escape whose u is the byte before pos_.
ParseUnicodeEscape(input, out, pos) ==
    LET unit == ParseHex4(input, pos)
        low == ParseHex4(input, pos + 6)
        pair == 65536 + (unit - 55296) * 1024 + (low - 56320)
    IN  CASE unit < 0 \/ unit \in Low -> Failed
          [] unit \in High ->
               IF \/ pos + 10 > Len(input) \/ input[pos + 5] # Backslash
                  \/ input[pos + 6] # 117 \/ low \notin Low
                 THEN Failed ELSE At(out \o AppendUtf8(pair), pos + 10)
          [] OTHER -> At(out \o AppendUtf8(unit), pos + 4)

\* ParseString after the opening quote; pos counts the bytes behind pos_.
RECURSIVE Scan(_, _, _)
Scan(input, out, pos) ==
    LET ch == input[pos + 1]
        esc == input[pos + 2]
        u == ParseUnicodeEscape(input, out, pos + 2)
        letters == {l \in Letters \cup {<<47, 47>>} : l[2] = esc}
    IN  IF pos >= Len(input) \/ (ch = Backslash /\ pos + 1 >= Len(input)) \/ ch < 32 THEN Failed
        ELSE CASE ch = Quote -> At(out, pos + 1)
               [] ch \notin {Quote, Backslash} -> Scan(input, Append(out, ch), pos + 1)
               [] ch = Backslash /\ esc = 117 -> IF u = Failed THEN Failed ELSE Scan(input, u.out, u.pos)
               [] ch = Backslash /\ esc # 117 ->
                    IF letters = {} THEN Failed
                    ELSE Scan(input, Append(out, (CHOOSE l \in letters : TRUE)[1]), pos + 2)

ParseString(input) ==
    IF input = << >> \/ input[1] # Quote THEN Failed ELSE Scan(input, << >>, 1)

=============================================================================
