--------------------------- MODULE MCSequential ---------------------------
(***************************************************************************)
(* The parts of the system that one thread runs, each on its own: the RESP *)
(* parser, the ring, the server's start, the JSON strings and the main of  *)
(* the benchmark.  part says which of them a behaviour is about; the       *)
(* variables of the others keep their first values.                        *)
(***************************************************************************)
EXTENDS NodeBootstrap, CacheBench, JsonText, RespParser, TLC

CONSTANT Beyond,  \* bound: tokens of a frame after the encodings
         Pieces   \* bound: pieces of a string
CONSTANTS n1, n2, n3

VARIABLES
    part,
    frame,   \* what ParseRESP is given
    text,    \* what ParseString is given, in pieces
    edited   \* whether the document differs from those of Documents

all_vars == <<part, frame, text, edited, vars, node_vars, bench_vars>>

-----------------------------------------------------------------------------
\* Frames: every sequence of tokens that follows some command's encoding up to a
\* point and then goes on in any way for a few tokens.

FrameTokens ==
    {Token("*", n) : n \in 0 .. MaxArrayElements + 1}
        \cup {Token("$", n) : n \in -1 .. MaxBulkLength + 1} \cup {EOL, Token("x", 0)}

\* The commands a client may send: nonempty lists of payloads.
Commands == UNION {[1 .. n -> BoundedSeq(FrameTokens, MaxBulkLength)] : n \in 1 .. MaxArrayElements}

\* Each command with its encoding, computed once.
Encodings == {[parts |-> c, bytes |-> Encode(c)] : c \in Commands}

Beginnings == UNION {{SubSeq(e.bytes, 1, n) : n \in 0 .. Len(e.bytes)} : e \in Encodings}

NextToken ==
    \E t \in FrameTokens :
        /\ frame' = Append(frame, t)
        /\ SubSeq(frame', 1, Len(frame') - Beyond) \in Beginnings

\* The parser finds a command exactly when the frame begins with a command's
\* whole encoding; it then returns that command and consumes that encoding, to
\* the byte, whatever the payloads hold.  Nothing incomplete or malformed is
\* ever taken for a command.
ParsesExactly ==
    LET prefixes == {e \in Encodings : IsPrefix(e.bytes, frame)}
        result == ParseRESP(frame)
    IN  IF prefixes = {} THEN result = Nothing
        ELSE prefixes = {[parts |-> result.parts, bytes |-> SubSeq(frame, 1, result.consumed)]}

-----------------------------------------------------------------------------
\* The ring, with hashes that collide within a node, between nodes and after
\* another attempt.

MCHashes ==
    {[x \in Nodes \X (0 .. MaxVnodes - 1) \X Attempts |-> (first[x[1]] + 2 * x[2] + x[3]) % 7] :
        first \in [Nodes -> {0, 1, 5}]}

-----------------------------------------------------------------------------
\* Command lines of the server: up to two arguments.

MCDefaultNode ==
    [shard_count |-> 4, virtual_nodes |-> 2, max_resp_clients |-> 3, listen_port |-> 5, grpc_port |-> 4,
     metrics_port |-> 0, resp_idle_timeout_ms |-> 1, node_id |-> n1, dry_run |-> FALSE, run_for |-> Unset]

MCArguments ==
    {[flag |-> f[1], value |-> v] : f \in IntFlags, v \in {-1, 0, 1, MaxInt + 1, Unset}}
        \cup {[flag |-> f, value |-> v] : f \in {"--listen-port", "--metrics-port"}, v \in {MaxPort, MaxPort + 1}}
        \cup {[flag |-> f, value |-> v] : f \in {"--run-for-ms", "--resp-idle-timeout-ms"},
                                          v \in {-1, 0, MaxInt, MaxInt + 1}}
        \cup {[flag |-> "--node-id", value |-> v] : v \in {n2, NoNode}}
        \cup {[flag |-> f, value |-> Unset] : f \in {"--dry-run", "--unknown"}}

MCArgvs == BoundedSeq(MCArguments, 2)

-----------------------------------------------------------------------------
\* JSON strings, in pieces: a byte as it stands, an escape with a letter, a code
\* unit in hexadecimal digits, and beginnings that lead nowhere.

Piece(kind, code, bytes) == [kind |-> kind, code |-> code, bytes |-> bytes]

Hex(unit, digit(_)) == [i \in 1 .. 4 |-> digit((unit \div (16 ^ (4 - i))) % 16)]

UpperDigit(n) == IF n < 10 THEN 48 + n ELSE 65 + n - 10

Units == {0, 31, 34, 127, 128, 2047, 2048, 55295, 55296, 56319, 56320, 57343, 57344, 65535}

TextPieces ==
    {Piece("raw", b, <<b>>) : b \in {31, 34, 65}}
        \cup {Piece("plain", l[1], <<Backslash, l[2]>>) : l \in Letters \cup {<<47, 47>>}}
        \cup {Piece("unit", u, <<Backslash, 117>> \o Hex(u, Digit)) : u \in Units}
        \cup {Piece("unit", 43981, <<Backslash, 117>> \o Hex(43981, UpperDigit))}
        \cup {Piece("broken", 0, <<Backslash, 120>>), Piece("broken", 0, <<Backslash, 117, 71>>)}

IsUnit(i, range) == i \in DOMAIN text /\ text[i].kind = "unit" /\ text[i].code \in range

Ended == text # << >> /\ Last(text).kind = "raw" /\ Last(text).code = Quote

NextPiece == ~Ended /\ Len(text) < Pieces /\ \E p \in TextPieces : text' = Append(text, p)

\* What the string says, by JSON: the code points, with the surrogates paired.
Sayable ==
    /\ Ended
    /\ \A i \in DOMAIN text : /\ text[i].kind # "broken"
                              /\ text[i].kind = "raw" => text[i].code >= 32
                              /\ IsUnit(i, High) => IsUnit(i + 1, Low)
                              /\ IsUnit(i, Low) => IsUnit(i - 1, High)

CodePoints ==
    FlattenSeq([i \in 1 .. Len(text) - 1 |->
        CASE IsUnit(i, Low) -> << >>
          [] IsUnit(i, High) -> <<65536 + (text[i].code % 1024) * 1024 + (text[i + 1].code % 1024)>>
          [] OTHER -> <<text[i].code>>])

\* The code points of bytes in UTF-8, in the shortest form.
RECURSIVE Decoded(_)
Decoded(bytes) ==
    LET lead == bytes[1]
        n == CASE lead < 128 -> 1 [] lead \in 192 .. 223 -> 2 [] lead \in 224 .. 239 -> 3
               [] lead \in 240 .. 247 -> 4 [] OTHER -> 0
        high == IF n = 1 THEN lead ELSE lead % (2 ^ (7 - n))
        code == FoldLeft(LAMBDA c, b : 64 * c + (b % 64), high, SubSeq(bytes, 2, n))
        least == <<0, 128, 2048, 65536>>[n]
    IN  IF bytes = << >> THEN << >>
        ELSE IF /\ n \in 1 .. Len(bytes) /\ code >= least
                /\ \A i \in 2 .. n : bytes[i] \in 128 .. 191
               THEN <<code>> \o Decoded(SubSeq(bytes, n + 1, Len(bytes))) ELSE <<-1>>

Quoted(bytes) == <<Quote>> \o bytes \o <<Quote>>

\* A scenario's name is read as JSON has it, escapes and surrogates included,
\* into UTF-8 and to the closing quote; what JSON does not allow is refused.
\* The report then gives the name as it was read.
NamesExact ==
    LET input == <<Quote>> \o FlattenSeq([i \in DOMAIN text |-> text[i].bytes])
        result == ParseString(input)
        again == JsonEscapeString(result.out)
    IN  IF Sayable
          THEN /\ Decoded(result.out) = CodePoints /\ result.pos = Len(input)
               /\ ParseString(Quoted(again)) = At(result.out, Len(again) + 2)
          ELSE result = Failed

-----------------------------------------------------------------------------
\* Scenario matrices, and documents one token away from them.

DocumentTokens ==
    {Mark(m) : m \in {"{", "}", "[", "]", ":", ",", "odd", "word"}}
        \cup {Str(t) : t \in {"scenarios", "name", "requests", "x"}}
        \cup {Num(d) : d \in {<<0, 7>>, <<1, 2>>, <<1, 3>>}}

Member(key, value) == <<Str(key), Mark(":")>> \o value

Bracketed(open, items, close) ==
    <<Mark(open)>>
        \o FlattenSeq([n \in DOMAIN items |-> IF n = 1 THEN items[n] ELSE <<Mark(",")>> \o items[n]])
        \o <<Mark(close)>>

Object(members) == Bracketed("{", members, "}")

Array(values) == Bracketed("[", values, "]")

Matrix(specs) == Object(<<Member("scenarios", Array(specs))>>)

Named == Member("name", <<Str("x")>>)

\* Matrices whose scenarios ask for so many requests, or leave it open.
Weighted ==
    LET spec(w) == Object(<<Named>> \o IF w = << >> THEN << >> ELSE <<Member("requests", <<Num(w)>>)>>)
    IN  {Matrix([i \in DOMAIN ws |-> spec(ws[i])]) :
           ws \in BoundedSeq({<< >>, <<0>>, <<1>>, <<7>>}, 3)}

\* Matrices with members to skip.
Varied ==
    LET inner == Array(<< <<Mark("odd")>>, Object(<<Member("name", <<Mark("word")>>)>>), Array(<< >>)>>)
        specs == {Object(<<Named>>), Object(<<Member("x", inner), Named>>),
                  Object(<<Member("requests", <<Num(<<1, 2>>)>>), Member("name", <<Str("name")>>)>>)}
    IN  {Matrix(list) : list \in BoundedSeq(specs, 2)}
          \cup {Object(<<Member("x", Array(<< >>)), Member("scenarios", Array(<<spec>>))>>) : spec \in specs}

MCDocuments == Weighted \cup Varied \cup {<< >>}

Flag(flag, value) == [flag |-> flag, value |-> value]

MCBenchArguments ==
    {<< >>, <<Flag("--ops", 0)>>, <<Flag("--ops", 3)>>, <<Flag("--ops", 4), Flag("--ops", 2)>>,
     <<Flag("--ops", None)>>, <<Flag("--ops", NotANumber)>>, <<Flag("--ops", 3), Flag("--help", None)>>,
     <<Flag("--keys", 0)>>, <<Flag("--keys", 3), Flag("--read-ratio", 100)>>,
     <<Flag("--read-ratio", 101)>>, <<Flag("--ops", 3), Flag("--read-ratio", 0)>>}

Edit ==
    /\ ~edited /\ pc = "start" /\ args = << >> /\ document \in Varied
    /\ edited' = TRUE
    /\ \/ \E i \in DOMAIN document :
            document' \in {RemoveAt(document, i), SubSeq(document, 1, i - 1)}
                            \cup {ReplaceAt(document, i, t) : t \in DocumentTokens}
       \/ \E i \in 1 .. Len(document) + 1, t \in DocumentTokens : document' = InsertAt(document, i, t)
    /\ UNCHANGED <<args, pc, config, requests, counts, latencies, report>>

\* A document is read as the grammar of JSON has it: the scenarios of its one
\* list, each with its last name and its last or the default number, and nothing
\* at all of a document that is malformed anywhere or asks for more than a
\* size_t holds.  Its names are read, and given again in the report, exactly.
MatrixExact == ParseScenarioMatrix(document, DefaultOps) = Meaning(document, DefaultOps) /\ NamesExact

-----------------------------------------------------------------------------
\* Each part begins with its own inputs.

Mine(p, inputs, other) == IF part = p THEN inputs ELSE {other}

MCInit ==
    /\ part \in {"frame", "ring", "node", "text", "bench"}
    /\ frame = << >> /\ text = << >> /\ edited = FALSE
    /\ hash \in Mine("ring", Hashes, CHOOSE h \in Hashes : TRUE) /\ Init
    /\ argv \in Mine("node", Argvs, << >>) /\ NodeInit
    /\ args \in Mine("bench", Arguments, << >>)
    /\ document \in Mine("bench", Documents, << >>) /\ BenchInit

MCNext ==
    \/ part = "frame" /\ NextToken /\ UNCHANGED <<part, text, edited, vars, node_vars, bench_vars>>
    \/ part = "ring" /\ Next /\ UNCHANGED <<part, frame, text, edited, node_vars, bench_vars>>
    \/ part = "node" /\ (\E k \in Tokens : Start(k)) /\ UNCHANGED <<part, frame, text, edited, bench_vars>>
    \/ part = "text" /\ NextPiece /\ UNCHANGED <<part, frame, edited, vars, node_vars, bench_vars>>
    \/ part = "bench" /\ Edit /\ UNCHANGED <<part, frame, text, vars, node_vars>>
    \/ part = "bench" /\ ~edited /\ BenchNext /\ UNCHANGED <<part, frame, text, edited, vars, node_vars>>

MCSpec == MCInit /\ [][MCNext]_all_vars

=============================================================================
