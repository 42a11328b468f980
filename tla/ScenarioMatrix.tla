-------------------------- MODULE ScenarioMatrix --------------------------
(***************************************************************************)
(* JsonReader and ParseScenarioMatrix (bench/cache_bench.cpp) on tokens.   *)
(*                                                                         *)
(* A token is a mark, a string by what it says (JsonText has its bytes), a *)
(* number with its digits, a number in another form, or a word.  The       *)
(* reader skips white space before every token, and so is there none here. *)
(* A position counts from 1; 0 is a failure, and nothing is there.         *)
(***************************************************************************)
EXTENDS Integers, Sequences, SequencesExt, FiniteSets

CONSTANT MaxSize  \* the largest size_t

Mark(sym) == [sym |-> sym, text |-> "", digits |-> << >>]
Str(text) == [sym |-> "str", text |-> text, digits |-> << >>]
Num(digits) == [sym |-> "num", text |-> "", digits |-> digits]

Sym(s, pos) == IF pos \in DOMAIN s THEN s[pos].sym ELSE "end"

Consume(s, pos, sym) == IF Sym(s, pos) = sym THEN pos + 1 ELSE 0

\* ParseString of a key and the colon after it: where its value begins.
AfterKey(s, pos) == Consume(s, Consume(s, pos, "str"), ":")

\* Mistake: the test leaves the new digit out.
ParseUnsigned_Near(digits) ==
    FoldLeft(LAMBDA value, d : IF value < 0 \/ value > MaxSize \div 10 THEN -1 ELSE 10 * value + d,
             0, digits)

\* -1 for a number that does not fit.
ParseUnsigned(digits) ==
    FoldLeft(LAMBDA value, d : IF value < 0 \/ value > (MaxSize - d) \div 10 THEN -1
                               ELSE 10 * value + d,
             0, digits)

\* SkipValue, and the loops of SkipArray and SkipObject over what is left
\* before the closing mark.
RECURSIVE SkipValue(_, _), SkipItems(_, _, _)
SkipItems(s, pos, close) ==
    LET next == SkipValue(s, IF close = "}" THEN AfterKey(s, pos) ELSE pos)
    IN  CASE Sym(s, next) = close -> next + 1
          [] Sym(s, next) = "," -> SkipItems(s, next + 1, close)
          [] OTHER -> 0

SkipValue(s, pos) ==
    LET close == IF Sym(s, pos) = "{" THEN "}" ELSE "]"
    IN  CASE Sym(s, pos) \in {"str", "num", "odd", "word"} -> pos + 1
          [] Sym(s, pos) \in {"{", "["} ->
               IF Sym(s, pos + 1) = close THEN pos + 2 ELSE SkipItems(s, pos + 1, close)
          [] OTHER -> 0

NoName == "no name"

\* The loop of ParseScenarioObject; spec is what it has found so far.
RECURSIVE ParseFields(_, _, _)
ParseFields(s, pos, spec) ==
    LET at == AfterKey(s, pos)
        key == s[pos].text
        fits == Sym(s, at) = "num" /\ ParseUnsigned(s[at].digits) >= 0
        next == CASE at = 0 -> 0
                  [] at # 0 /\ key = "name" -> Consume(s, at, "str")
                  [] at # 0 /\ key = "requests" -> IF fits THEN at + 1 ELSE 0
                  [] OTHER -> SkipValue(s, at)
        found == CASE key = "name" -> [spec EXCEPT !.name = s[at].text]
                   [] key = "requests" -> [spec EXCEPT !.requests = ParseUnsigned(s[at].digits)]
                   [] OTHER -> spec
    IN  CASE Sym(s, next) = "}" /\ found.name # NoName -> [pos |-> next + 1, spec |-> found]
          [] Sym(s, next) = "," -> ParseFields(s, next + 1, found)
          [] OTHER -> [pos |-> 0, spec |-> spec]

\* The empty object falls to the reading of a key.
ParseScenarioObject(s, pos, default) ==
    ParseFields(s, Consume(s, pos, "{"), [name |-> NoName, requests |-> default])

RECURSIVE ParseElements(_, _, _, _)
ParseElements(s, pos, default, scenarios) ==
    LET object == ParseScenarioObject(s, pos, default)
        read == Append(scenarios, object.spec)
    IN  CASE Sym(s, object.pos) = "]" -> [pos |-> object.pos + 1, scenarios |-> read]
          [] Sym(s, object.pos) = "," -> ParseElements(s, object.pos + 1, default, read)
          [] OTHER -> [pos |-> 0, scenarios |-> << >>]

ParseScenarioArray(s, pos, default) ==
    IF Sym(s, pos) = "[" /\ Sym(s, pos + 1) = "]" THEN [pos |-> pos + 2, scenarios |-> << >>]
    ELSE ParseElements(s, Consume(s, pos, "["), default, << >>)

Again(found, key) == found /\ key = "scenarios"

\* The value of a key: where it ends, and the scenarios it adds.
Section(s, at, key, default) ==
    IF key = "scenarios" THEN ParseScenarioArray(s, at, default)
    ELSE [pos |-> SkipValue(s, at), scenarios |-> << >>]

\* The loop of ParseScenarioMatrix, from a key and after its value; the empty
\* list is a failure throughout.
RECURSIVE ParseSections(_, _, _, _, _), AfterSection(_, _, _, _, _)
AfterSection(s, section, default, found, scenarios) ==
    CASE Sym(s, section.pos) = "}" /\ section.pos = Len(s) -> scenarios \o section.scenarios
      [] Sym(s, section.pos) = "," ->
           ParseSections(s, section.pos + 1, default, found, scenarios \o section.scenarios)
      [] OTHER -> << >>

ParseSections(s, pos, default, found, scenarios) ==
    LET at == AfterKey(s, pos)
        key == s[pos].text
    IN  IF at = 0 \/ Again(found, key) THEN << >>
        ELSE AfterSection(s, Section(s, at, key, default), default,
                          found \/ key = "scenarios", scenarios)

ParseScenarioMatrix(s, default) == ParseSections(s, Consume(s, 1, "{"), default, FALSE, << >>)

-----------------------------------------------------------------------------
\* What a matrix means, by the grammar of JSON: a value is the stretch of tokens
\* from i to j, cut at its commas.

Span(i, j) == [from |-> i, to |-> j]

\* How many brackets opened from i on are open before k.
Depth(s, i, k) ==
    Cardinality({n \in i .. k - 1 : s[n].sym \in {"{", "["}})
        - Cardinality({n \in i .. k - 1 : s[n].sym \in {"}", "]"}})

\* The stretches between the commas of the bracket that encloses i .. j.
Cut(s, i, j) ==
    LET commas == {k \in i .. j : s[k].sym = "," /\ Depth(s, i, k) = 0}
        ends == <<i - 1>> \o SetToSortSeq(commas, <) \o <<j + 1>>
    IN  IF i > j THEN << >> ELSE [n \in 1 .. Len(ends) - 1 |-> Span(ends[n] + 1, ends[n + 1] - 1)]

Between(s, v, open, close) == v.from < v.to /\ s[v.from].sym = open /\ s[v.to].sym = close

Inside(s, v) == Range(Cut(s, v.from + 1, v.to - 1))

RECURSIVE IsValue(_, _)
IsMember(s, m) ==
    /\ m.from + 1 < m.to /\ s[m.from].sym = "str" /\ s[m.from + 1].sym = ":"
    /\ IsValue(s, Span(m.from + 2, m.to))

IsValue(s, v) ==
    \/ v.from = v.to /\ s[v.from].sym \in {"str", "num", "odd", "word"}
    \/ Between(s, v, "[", "]") /\ \A e \in Inside(s, v) : IsValue(s, e)
    \/ Between(s, v, "{", "}") /\ \A m \in Inside(s, v) : IsMember(s, m)

Decimal(digits) == FoldLeft(LAMBDA n, d : 10 * n + d, 0, digits)

\* The members of an object that have this key, in order.
With(s, v, key) == SelectSeq(Cut(s, v.from + 1, v.to - 1), LAMBDA m : s[m.from].text = key)

IsSpec(s, v) ==
    /\ With(s, v, "name") # << >>
    /\ \A m \in Range(With(s, v, "name")) : m.to = m.from + 2 /\ s[m.to].sym = "str"
    /\ \A m \in Range(With(s, v, "requests")) :
         m.to = m.from + 2 /\ s[m.to].sym = "num" /\ Decimal(s[m.to].digits) <= MaxSize

\* The last value a key is given counts.
SpecOf(s, v, default) ==
    LET requests == With(s, v, "requests")
    IN  [name |-> s[Last(With(s, v, "name")).to].text,
         requests |-> IF requests = << >> THEN default ELSE Decimal(s[Last(requests).to].digits)]

Meaning(s, default) ==
    LET all == Span(1, Len(s))
        lists == With(s, all, "scenarios")
        list == Span(lists[1].from + 2, lists[1].to)
        specs == Cut(s, list.from + 1, list.to - 1)
    IN  IF /\ Sym(s, 1) = "{" /\ IsValue(s, all) /\ Len(lists) = 1 /\ Sym(s, list.from) = "["
           /\ \A v \in Range(specs) : Sym(s, v.from) = "{" /\ IsSpec(s, v)
          THEN [n \in DOMAIN specs |-> SpecOf(s, specs[n], default)] ELSE << >>

=============================================================================
