--------------------------- MODULE NoiseStripper ----------------------------
(***************************************************************************)
(* What read_file shows of a source file: its text with the comments        *)
(* blanked (nerd/src/coding/noise_stripper/).  There are 25 hand-written     *)
(* lexers; each is one loop over the bytes with a state.  They differ in     *)
(* what opens a region of text and in how the region ends, so a language is  *)
(* a table of those two things and the loop is written once, one iteration   *)
(* a step.                                                                   *)
(*                                                                          *)
(* A text is a sequence of symbols.  A symbol is one byte, or a word that no *)
(* lexer looks inside ("go:", "=begin").  A character that is not ASCII is   *)
(* two symbols, High and Trail.                                              *)
(***************************************************************************)
EXTENDS Integers, Sequences, FiniteSets

CONSTANTS
    Symbol,         \* the symbols texts are made of
    Files           \* the files read: records [ext |-> ..., text |-> ...]

ASSUME FilesAssumption == \A f \in Files : f.text \in Seq(Symbol)

NL == "\n"
Space == " "
Tab == "\t"
High == "hi"            \* the first byte of a character that is not ASCII
Trail == "trail"        \* its second byte
Mojibake == "moji"      \* what `byte as char` makes of it
Blanks == {Space, Tab, "\r"}
Punctuation == {"(", "[", "{", ",", ";", ":", "=", "!", "?", "&", "|",
                "^", "~", "+", "-", "*", "%", "<", ">"}

-----------------------------------------------------------------------------
(* Regions.  `body` says what becomes of the text inside, `ends` closes it,  *)
(* `quoting` is how its closer can be part of it, `nests` opens one more     *)
(* level, `only` says which closers count.                                   *)

Region(body, ends, quoting) ==
    [body |-> body, ends |-> ends, quoting |-> quoting, nests |-> <<>>, only |-> "any"]

Code == Region("copy", <<>>, "none")
Escaped(ends) == Region("copy", ends, "backslash")
Doubled(ends) == Region("copy", ends, "twice")
Raw(ends) == Region("copy", ends, "none")
LineNoise == Region("blank", <<NL>>, "none")
LineKept == Region("copy", <<NL>>, "none")
BlockNoise(ends) == Region("blank", ends, "none")

Opener(tok, when, region) == [tok |-> tok, put |-> tok, when |-> when, region |-> region]
On(tok, region) == Opener(tok, "always", region)

Dashes == <<"-", "-">>
SlashSlash == <<"/", "/">>
SlashStar == <<"/", "*">>
StarSlash == <<"*", "/">>
Q1 == <<"'">>
Q3 == <<"'", "'", "'">>
D1 == <<"\"">>
D3 == <<"\"", "\"", "\"">>
Brackets == <<"]", "]">>
Tick == <<"tick">>         \* a backquote

SlashComments == <<On(SlashSlash, LineNoise), On(SlashStar, BlockNoise(StarSlash))>>
Quotes == <<On(Q1, Escaped(Q1)), On(D1, Escaped(D1))>>
HashComment == <<On(<<"#">>, LineNoise)>>

Language(opens) ==
    [opens |-> opens, byLine |-> FALSE, scalars |-> FALSE, chars |-> FALSE, raws |-> FALSE,
     fixed |-> FALSE, inline |-> "none"]
LineLanguage(opens) == [Language(opens) EXCEPT !.byLine = TRUE]

-----------------------------------------------------------------------------
(* The languages: what each lexer tries in code, in its order.              *)

CFamily == Language(SlashComments \o <<On(<<"R", "\"">>, Raw(<<")", "\"">>))>> \o Quotes)

CSharp == Language(SlashComments \o <<On(<<"@", "\"">>, Doubled(D1))>> \o Quotes)

Dart == Language(<<On(Q3, Escaped(Q3)), On(D3, Escaped(D3)),
                   On(<<"r", "'">>, Raw(Q1)), On(<<"r", "\"">>, Raw(D1))>>
                 \o SlashComments \o Quotes)

Elixir == Language(<<On(Q3, Raw(Q3)), On(D3, Raw(D3))>> \o HashComment \o Quotes)

Erlang == Language(<<On(<<"%">>, LineNoise)>> \o Quotes)

(* A fixed-form comment keeps its tabs and is blanked by characters, not by  *)
(* bytes; a quote is doubled to stand in its string; no region outlives its  *)
(* line.                                                                     *)
FixedForm == Region("blank but tabs", <<NL>>, "none")
Fortran ==
    [LineLanguage(<<Opener(<<"c">>, "column one", FixedForm), Opener(<<"C">>, "column one", FixedForm),
                    Opener(<<"*">>, "column one", FixedForm), Opener(<<"!">>, "column one", FixedForm),
                    On(<<"!">>, LineNoise), On(Q1, Doubled(Q1)), On(D1, Doubled(D1))>>)
        EXCEPT !.fixed = TRUE]

Go == Language(<<Opener(SlashSlash, "directive", LineKept)>>
               \o SlashComments \o Quotes \o <<On(Tick, Raw(Tick))>>)

GraphQl == Language(<<On(D3, Raw(D3))>> \o HashComment \o <<On(D1, Escaped(D1))>>)

Groovy == Language(<<On(Q3, Raw(Q3)), On(D3, Raw(D3))>> \o SlashComments \o Quotes
                   \o <<Opener(<<"/">>, "operand", Escaped(<<"/">>))>>)

Haskell == Language(<<On(Dashes, LineNoise), On(<<"{", "-">>, BlockNoise(<<"-", "}">>))>> \o Quotes)

(* A bracketed class inside a regular expression may hold a slash.          *)
Regex == [Escaped(<<"/">>) EXCEPT !.nests = <<"[">>]
RegexClass == Escaped(<<"]">>)
JavaScript ==
    [Language(SlashComments \o Quotes \o <<On(Tick, Escaped(Tick)),
                                           Opener(<<"/">>, "operand", Regex)>>)
        EXCEPT !.chars = TRUE]
Jsx == [JavaScript EXCEPT !.inline = "collapse"]
Vue == [JavaScript EXCEPT !.inline = "keep"]

Julia == Language(<<On(<<"#", "=">>, BlockNoise(<<"=", "#">>)), On(D3, Raw(D3))>>
                  \o HashComment \o Quotes)

Kotlin == Language(<<On(D3, Raw(D3))>> \o SlashComments \o Quotes)

Lua == Language(<<On(Dashes \o <<"[", "[">>, BlockNoise(Brackets)), On(Dashes, LineNoise),
                  On(<<"[", "[">>, Raw(Brackets))>> \o Quotes)

Php == Language(<<On(SlashSlash, LineNoise)>> \o HashComment
                \o <<On(SlashStar, BlockNoise(StarSlash))>> \o Quotes)

Python == Language(<<Opener(<<"#">>, "not magic", LineNoise), On(Q3, Raw(Q3)), On(D3, Raw(D3))>>
                   \o Quotes)

RubyBlock == [BlockNoise(<<"=end">>) EXCEPT !.only = "column one"]
Ruby == Language(<<Opener(<<"=begin">>, "line start", RubyBlock),
                   Opener(<<"#">>, "not shebang", LineNoise)>> \o Quotes)

(* The mark of a doc comment belongs to its opener; block comments nest.    *)
Nested == [BlockNoise(StarSlash) EXCEPT !.nests = SlashStar]
Rust ==
    [Language(<<On(SlashSlash \o <<"/">>, LineNoise), On(SlashSlash \o <<"!">>, LineNoise),
                On(SlashSlash, LineNoise),
                On(SlashStar \o <<"*">>, Nested), On(SlashStar \o <<"!">>, Nested),
                On(SlashStar, Nested),
                On(D1, Escaped(D1)), Opener(Q1, "char literal", Escaped(Q1))>>)
        EXCEPT !.raws = TRUE]
RawRust == [Raw(D1) EXCEPT !.only = "hashes"]

Scala == Language(<<On(D3, Raw(D3))>> \o SlashComments \o Quotes)

Shell == Language(<<Opener(<<"#">>, "not shebang", LineNoise), On(Q1, Raw(Q1)),
                    On(D1, Escaped(D1)), On(Tick, Escaped(Tick))>>)

Swift == Language(<<On(D3, Raw(D3))>> \o SlashComments \o Quotes)

Toml == Language(<<On(D3, Escaped(D3)), On(Q3, Raw(Q3))>> \o HashComment
                 \o <<On(D1, Escaped(D1)), On(Q1, Raw(Q1))>>)

(* REM in any case opens a comment and comes out as Rem.                    *)
VbNet ==
    LineLanguage(<<On(Q1, LineNoise), Opener(<<"Rem">>, "rem", LineNoise),
                   [Opener(<<"REM">>, "rem", LineNoise) EXCEPT !.put = <<"Rem">>],
                   On(D1, Doubled(D1))>>)

ScalarText == Region("keep", <<NL>>, "none")
Yaml ==
    [LineLanguage(<<Opener(<<"#">>, "after blank", LineNoise), On(Q1, Doubled(Q1)),
                    On(D1, Escaped(D1))>>)
        EXCEPT !.scalars = TRUE]

(* The language of a file, by its extension; of other files nothing is       *)
(* stripped.                                                                 *)
Unknown == Language(<<>>)
LanguageOf(ext) ==
    CASE ext = "rs" -> Rust                     [] ext \in {"ts", "js"} -> JavaScript
      [] ext \in {"tsx", "jsx"} -> Jsx          [] ext = "vue" -> Vue
      [] ext = "py" -> Python                   [] ext = "php" -> Php
      [] ext = "cs" -> CSharp                   [] ext = "rb" -> Ruby
      [] ext \in {"sh", "bash", "zsh", "ksh"} -> Shell
      [] ext \in {"graphql", "gql"} -> GraphQl
      [] ext \in {"java", "sol", "c", "h", "cc", "cpp", "cxx", "hh", "hpp", "hxx"} -> CFamily
      [] ext \in {"kt", "kts"} -> Kotlin        [] ext = "swift" -> Swift
      [] ext \in {"ex", "exs"} -> Elixir        [] ext \in {"groovy", "gradle"} -> Groovy
      [] ext = "dart" -> Dart                   [] ext = "hs" -> Haskell
      [] ext \in {"erl", "hrl"} -> Erlang
      [] ext \in {"f", "for", "f90", "f95", "f03", "f08"} -> Fortran
      [] ext = "jl" -> Julia                    [] ext = "lua" -> Lua
      [] ext \in {"scala", "sc"} -> Scala       [] ext = "vb" -> VbNet
      [] ext = "go" -> Go                       [] ext = "toml" -> Toml
      [] ext \in {"yaml", "yml"} -> Yaml        [] OTHER -> [Unknown EXCEPT !.chars = TRUE]

-----------------------------------------------------------------------------
(* What the lexers look at around a position.                                *)

Has(t, tok, j) ==
    /\ j + Len(tok) - 1 <= Len(t)
    /\ \A k \in 1..Len(tok) : t[j + k - 1] = tok[k]

ColumnOne(t, j) == j = 1 \/ t[j - 1] = NL
LineStart(t, j) == CHOOSE b \in 1..j : ColumnOne(t, b) /\ \A k \in b..(j - 1) : t[k] # NL
LineEnd(t, j) ==
    CHOOSE e \in j..(Len(t) + 1) :
        (e = Len(t) + 1 \/ t[e] = NL) /\ \A k \in j..(e - 1) : t[k] # NL
OnlyBlanksBefore(t, j, blanks) == \A k \in LineStart(t, j)..(j - 1) : t[k] \in blanks
Rest(t, j) == {t[k] : k \in (j + 1)..(LineEnd(t, j) - 1)}

Directives == {"go:", "+build", "line "}
IsDirective(t, j) ==
    \E k \in (j + 2)..(LineEnd(t, j) - 1) :
        t[k] \in Directives /\ \A b \in (j + 2)..(k - 1) : t[b] \in Blanks

Shebang(t, j) == OnlyBlanksBefore(t, j, Blanks) /\ Has(t, <<"!">>, j + 1)
Encoding(t, j) == OnlyBlanksBefore(t, j, Blanks) /\ "coding:" \in Rest(t, j)

(* A slash begins an operand unless the last thing before it is a value.    *)
Operand(t, j) ==
    \/ \A k \in 1..(j - 1) : t[k] \in Blanks \cup {NL}
    \/ \E k \in 1..(j - 1) : /\ t[k] \in Punctuation
                             /\ \A b \in (k + 1)..(j - 1) : t[b] \in Blanks \cup {NL}

CharLiteral(t, j) ==
    IF Has(t, <<"\\">>, j + 1) THEN Has(t, Q1, j + 3)
    ELSE Has(t, Q1, j + 2) /\ t[j + 1] \notin {"'", NL}

Holds(when, t, j) ==
    CASE when = "always"       -> TRUE
      [] when = "column one"   -> ColumnOne(t, j)
      [] when = "line start"   -> OnlyBlanksBefore(t, j, Blanks)
      [] when = "after blank"  -> j = 1 \/ t[j - 1] \in {NL, Space, Tab}
      [] when = "directive"    -> OnlyBlanksBefore(t, j, Blanks) /\ IsDirective(t, j)
      [] when = "not shebang"  -> ~Shebang(t, j)
      [] when = "not magic"    -> ~Shebang(t, j) /\ ~Encoding(t, j)
      [] when = "operand"      -> Operand(t, j)
      [] when = "char literal" -> CharLiteral(t, j)
      [] when = "rem"          -> /\ OnlyBlanksBefore(t, j, {Space, Tab})
                                  /\ j < Len(t) => t[j + 1] \in {NL, Space, Tab}

(* The first opener of the language that is at j, if any.                   *)
Matching(opens, t, j) ==
    {k \in DOMAIN opens : Has(t, opens[k].tok, j) /\ Holds(opens[k].when, t, j)}
IsFirst(k, ks) == \A m \in ks : k <= m
First(ks) == CHOOSE k \in ks : IsFirst(k, ks)

(* The end of a comment that opens before `from` and closes on its line.    *)
DocEnds(t, from, closer) ==
    {j \in from..Len(t) : Has(t, closer, j) /\ \A k \in from..j : t[k] # NL}

-----------------------------------------------------------------------------
(* YAML's block scalars, decided line by line.                              *)

Indent(t, j) ==
    LET e == CHOOSE e \in j..(Len(t) + 1) :
                 /\ e = Len(t) + 1 \/ t[e] \notin {Space, Tab}
                 /\ \A k \in j..(e - 1) : t[k] \in {Space, Tab}
    IN e - j
BlankLine(t, j) == \A k \in j..(LineEnd(t, j) - 1) : t[k] \in Blanks

(* Whether the line from b opens one: its first | or > outside quotes and    *)
(* comments ends the line but for indicators and a comment.                  *)
QuoteState(t, b) ==
    LET f[j \in b..LineEnd(t, b)] ==
        IF j = b THEN "plain"
        ELSE LET c == t[j - 1] IN
             CASE f[j - 1] = "plain" /\ c \in {"'", "\""} -> c
               [] f[j - 1] = "'" /\ c = "'" -> IF Has(t, Q1, j) THEN "' again" ELSE "plain"
               [] f[j - 1] = "' again" -> "'"
               [] f[j - 1] = "\"" /\ c = "\"" -> "plain"
               [] f[j - 1] = "\"" /\ c = "\\" -> "\" again"
               [] f[j - 1] = "\" again" -> "\""
               [] OTHER -> f[j - 1]
    IN f

OpensScalar(t, b) ==
    LET comment(j) == t[j] = "#" /\ Holds("after blank", t, j)
        plain == {j \in b..(LineEnd(t, b) - 1) :
                     QuoteState(t, b)[j] = "plain" /\ (t[j] \in {"|", ">"} \/ comment(j))}
        rest == {k \in (First(plain) + 1)..(LineEnd(t, b) - 1) :
                     t[k] \notin {Space, Tab, "-", "+", "1"}}
    IN /\ plain # {} /\ ~comment(First(plain))
       /\ rest = {} \/ comment(First(rest))

-----------------------------------------------------------------------------
VARIABLES
    file,       \* the file shown
    i,          \* the next symbol
    region,     \* where the lexer is
    count,      \* open block comments, or # of the raw string
    scalar,     \* the least indent of the open block scalar (0: none)
    out         \* the text shown so far

vars == <<file, i, region, count, scalar, out>>

text == file.text
lang == LanguageOf(file.ext)

Init ==
    /\ file \in Files
    /\ i = 1 /\ region = Code /\ count = 0 /\ scalar = 0
    /\ out = <<>>

Shown(c) == IF c \in {High, Trail} /\ ~lang.chars THEN Mojibake ELSE c
Span(n) == [k \in 1..n |-> Shown(text[i + k - 1])]

AtBreak == lang.byLine /\ text[i] = NL
InScalar ==
    /\ lang.scalars /\ scalar # 0 /\ ColumnOne(text, i)
    /\ BlankLine(text, i) \/ Indent(text, i) >= scalar
ScalarAfter ==
    IF lang.scalars /\ ColumnOne(text, i)
    THEN IF OpensScalar(text, i) THEN Indent(text, i) + 1 ELSE 0
    ELSE scalar

Reading == i <= Len(text) /\ ~InScalar
InCode == Reading /\ ~AtBreak /\ region = Code
Inside == Reading /\ ~AtBreak /\ region # Code

(* Takes n symbols, shows `put`, and is then in region r.                   *)
Move(n, put, r, c) ==
    /\ out' = out \o put
    /\ i' = i + n
    /\ region' = r /\ count' = c
    /\ scalar' = ScalarAfter
    /\ UNCHANGED file

(* A line of a block scalar is shown as it is.                              *)
ScalarLine ==
    /\ i <= Len(text) /\ InScalar
    /\ out' = out \o <<text[i]>> /\ i' = i + 1
    /\ region' = IF text[i] = NL THEN Code ELSE ScalarText
    /\ UNCHANGED <<file, count, scalar>>

LineBreak == Reading /\ AtBreak /\ Move(1, <<NL>>, Code, 0)

JsxComment == <<"{", "/", "*", "*">>
JsxCommentEnds == DocEnds(text, i + 5, StarSlash \o <<"}">>)
DocComment == SlashStar \o <<"*">>
DocCommentEnds == DocEnds(text, i + 3, StarSlash)
AtJsxComment == lang.inline = "collapse" /\ Has(text, JsxComment, i) /\ JsxCommentEnds # {}
AtDocComment == lang.inline # "none" /\ Has(text, DocComment, i) /\ DocCommentEnds # {}

(* JSX comments and the doc comments of a line are collapsed, in Vue kept.  *)
CollapseJsx ==
    /\ InCode /\ AtJsxComment
    /\ \E e \in JsxCommentEnds :
          IsFirst(e, JsxCommentEnds) /\ Move(e + 3 - i, <<"{", "/", "/", "}">>, Code, 0)

CollapseDoc ==
    /\ InCode /\ AtDocComment /\ ~AtJsxComment /\ lang.inline = "collapse"
    /\ \E e \in DocCommentEnds :
          /\ IsFirst(e, DocCommentEnds)
          /\ Move(e + 2 - i, DocComment \o <<Space, ".", Space>> \o StarSlash, Code, 0)

KeepDoc ==
    /\ InCode /\ AtDocComment /\ lang.inline = "keep"
    /\ \E e \in DocCommentEnds :
          IsFirst(e, DocCommentEnds) /\ Move(e + 2 - i, Span(e + 2 - i), Code, 0)

Hash(n) == [k \in 1..n |-> "#"]
RawOpener(p, h) == p \o Hash(h) \o D1
RawPrefixes == {<<"r">>, <<"b", "r">>}
AtRaw ==
    lang.raws /\ \E p \in RawPrefixes, h \in 0..Len(text) : Has(text, RawOpener(p, h), i)

OpenRaw ==
    /\ InCode /\ lang.raws
    /\ \E p \in RawPrefixes, h \in 0..Len(text) :
          /\ Has(text, RawOpener(p, h), i)
          /\ LET n == Len(RawOpener(p, h)) IN Move(n, Span(n), RawRust, h)

Openers == IF AtJsxComment \/ AtDocComment \/ AtRaw THEN {} ELSE Matching(lang.opens, text, i)

OpenRegion ==
    /\ InCode /\ Openers # {}
    /\ \E k \in Openers :
          /\ IsFirst(k, Openers)
          /\ LET o == lang.opens[k] IN Move(Len(o.tok), o.put, o.region, 1)

PlainCode ==
    /\ InCode /\ ~AtJsxComment /\ ~AtDocComment /\ ~AtRaw /\ Openers = {}
    /\ Move(1, Span(1), Code, 0)

(* Mutant: a backslash protects nothing.                                    *)
EscapesNothing == FALSE

Escapes == region.quoting = "backslash" /\ text[i] = "\\"
Repeats == region.quoting = "twice" /\ Has(text, region.ends \o region.ends, i)
Nests == region.nests # <<>> /\ Has(text, region.nests, i)
Closer == region.ends \o (IF region.only = "hashes" THEN Hash(count) ELSE <<>>)
Closes ==
    /\ Has(text, Closer, i)
    /\ region.only = "column one" => ColumnOne(text, i)

EscapeNext ==
    /\ Inside /\ Escapes
    /\ LET next == i < Len(text) /\ ~(lang.byLine /\ text[i + 1] = NL)
           n == IF next THEN 2 ELSE 1
       IN Move(n, Span(n), region, count)

(* Mutant: of two quotes only one is shown.                                 *)
RepeatCloserOnce ==
    /\ Inside /\ ~Escapes /\ Repeats
    /\ LET n == Len(region.ends \o region.ends) IN Move(n, Span(1), region, count)

RepeatCloser ==
    /\ Inside /\ ~Escapes /\ Repeats
    /\ LET n == Len(region.ends \o region.ends) IN Move(n, Span(n), region, count)

Nest ==
    /\ Inside /\ ~Escapes /\ Nests
    /\ IF region = Regex THEN Move(1, Span(1), RegexClass, count)
                         ELSE LET n == Len(region.nests) IN Move(n, Span(n), region, count + 1)

Close ==
    /\ Inside /\ ~Escapes /\ ~Repeats /\ ~Nests /\ Closes
    /\ LET n == Len(Closer) IN
          CASE region = RegexClass -> Move(n, Span(n), Regex, count)
            [] region = Nested /\ count > 1 -> Move(n, Span(n), region, count - 1)
            [] OTHER -> Move(n, Span(n), Code, 0)

(* A symbol inside the region.                                              *)
Remnant(c) ==
    CASE region.body = "copy" -> Shown(c)
      [] region.body = "keep" -> c
      [] region.body = "blank but tabs" /\ c = Tab -> Tab
      [] region.body # "copy" /\ c = NL -> NL
      [] OTHER -> Space

Skipped == lang.fixed /\ region.body = "blank but tabs" /\ text[i] = Trail

Within ==
    /\ Inside /\ ~Escapes /\ ~Repeats /\ ~Nests /\ ~Closes
    /\ Move(1, IF Skipped THEN <<>> ELSE <<Remnant(text[i])>>, region, count)

Next ==
    \/ ScalarLine \/ LineBreak
    \/ CollapseJsx \/ CollapseDoc \/ KeepDoc \/ OpenRaw \/ OpenRegion \/ PlainCode
    \/ EscapeNext \/ RepeatCloser \/ Nest \/ Close \/ Within

Spec == Init /\ [][Next]_vars

-----------------------------------------------------------------------------
Finished == i > Len(text)

(* Column for column the view is the file: every symbol taken has left       *)
(* exactly one, itself or a blank, and line breaks stay where they are       *)
(* ("preserving text shape").  Not so of JSX, whose comments are rewritten   *)
(* to other lengths, and of Fortran with characters that are not ASCII: of   *)
(* one of these a fixed-form comment keeps one blank, every other line both  *)
(* bytes.                                                                    *)
Aligned(f) ==
    /\ LanguageOf(f.ext).inline # "collapse"
    /\ LanguageOf(f.ext).fixed => \A k \in DOMAIN f.text : f.text[k] # Trail
Remains(c, d) ==
    /\ d \in {c, Shown(c), Space} \/ (c = "REM" /\ d = "Rem")
    /\ c = NL <=> d = NL
ShapeKept ==
    Aligned(file) =>
        /\ Len(out) = i - 1
        /\ \A k \in 1..Len(out) : Remains(text[k], out[k])

(* Line k of the view is line k of the file, in JSX too ("Line count is      *)
(* preserved", javascript.rs:23), and patch_file edits by line numbers.      *)
Breaks(t) == Cardinality({k \in DOMAIN t : t[k] = NL})
LinesKept == Finished => Breaks(out) = Breaks(text)

(* The text read region by region.  A region opened at p ends with the first *)
(* closer that no backslash escapes and no twin repeats; a text is a         *)
(* succession of regions and single symbols of code.                         *)
RunBefore(t, c, p, j) ==
    Cardinality({b \in p..(j - 1) : \A k \in b..(j - 1) : t[k] = c})
Ends(t, r, p, j) ==
    /\ Has(t, r.ends, j)
    /\ r.quoting = "backslash" => RunBefore(t, "\\", p, j) % 2 = 0
    /\ r.quoting = "twice" =>
          RunBefore(t, r.ends[1], p, j) % 2 = 0 /\ ~Has(t, r.ends \o r.ends, j)
    /\ r.only = "column one" => ColumnOne(t, j)
EndsOf(t, r, p) == {j \in p..Len(t) : Ends(t, r, p, j)}
Stop(f, p) == IF LanguageOf(f.ext).byLine THEN LineEnd(f.text, p) ELSE Len(f.text) + 1
RegionEnd(f, r, p) ==       \* the place after the region, and after its closer
    LET ends == EndsOf(f.text, r, p)
    IN IF ends # {} /\ First(ends) < Stop(f, p)
       THEN <<First(ends), First(ends) + Len(r.ends)>> ELSE <<Stop(f, p), Stop(f, p)>>

(* The lines of block scalars: below a header, blank or deeper than it.     *)
LineStarts(t) == {b \in 1..Len(t) : ColumnOne(t, b)}
Deep(t, h, b) == BlankLine(t, b) \/ Indent(t, b) > Indent(t, h)
HeaderOf(t, h, b) ==
    /\ h < b /\ OpensScalar(t, h)
    /\ \A c \in LineStarts(t) : h < c /\ c <= b => Deep(t, h, c)
ScalarLines(t) ==
    LET upTo[b \in 0..Len(t)] ==
            IF b = 0 THEN {}
            ELSE IF b \in LineStarts(t) /\ \E h \in LineStarts(t) \ upTo[b - 1] : HeaderOf(t, h, b)
            THEN upTo[b - 1] \cup {b} ELSE upTo[b - 1]
    IN upTo[Len(t)]
InScalarLine(f, j) == LanguageOf(f.ext).scalars /\ LineStart(f.text, j) \in ScalarLines(f.text)

OpenerAt(f, j) ==
    LET opens == LanguageOf(f.ext).opens
        ks == Matching(opens, f.text, j)
    IN IF ks = {} \/ InScalarLine(f, j) THEN {} ELSE {opens[First(ks)]}
After(f, j) ==
    CASE OpenerAt(f, j) = {} -> j + 1
      [] OTHER -> LET o == CHOOSE o \in OpenerAt(f, j) : TRUE
                  IN RegionEnd(f, o.region, j + Len(o.tok))[2]
Boundaries(f) ==
    LET upTo[j \in 0..Len(f.text)] ==
            IF j = 0 THEN {}
            ELSE IF j = 1 \/ \E p \in upTo[j - 1] : After(f, p) = j
            THEN upTo[j - 1] \cup {j} ELSE upTo[j - 1]
    IN upTo[Len(f.text)]
InsideOf(f, o, j) ==
    LET p == j + Len(o.tok)
    IN IF o.region.body \in {"copy", "keep"} THEN {} ELSE p..(RegionEnd(f, o.region, p)[1] - 1)
CommentInsides(f) == UNION {UNION {InsideOf(f, o, j) : o \in OpenerAt(f, j)} : j \in Boundaries(f)}
Plain(f) ==
    /\ Aligned(f) /\ ~LanguageOf(f.ext).raws /\ LanguageOf(f.ext).inline = "none"
    /\ (\E k \in DOMAIN LanguageOf(f.ext).opens : LanguageOf(f.ext).opens[k].region.nests # <<>>)
          => \A k \in DOMAIN f.text : f.text[k] # "["

(* Where the language itself opens no comment although the lexer does: a     *)
(* statement at column one of free-form Fortran, the mark of a continuation  *)
(* in column six of fixed form, a word of the shell with a hash in it, an     *)
(* attribute of PHP, a character literal, an operator of Haskell with dashes *)
(* in it.  (Here-documents are not looked for.)                              *)
FreeForm == {"f90", "f95", "f03", "f08"}
WordBreaks == {NL, Space, Tab, ";", "&", "|", "(", ")", "<", ">"}
OperatorSigns == {"!", "#", "$", "%", "&", "*", "+", ".", "/", "<", "=", ">", "?", "@", "\\", "^",
                  "|", "~", ":"}
Before(t, j) == IF j = 1 THEN NL ELSE t[j - 1]
InOperator(t, j) ==
    \/ Before(t, j) \in OperatorSigns
    \/ \E e \in (j + 2)..Len(t) : t[e] \in OperatorSigns /\ \A k \in j..(e - 1) : t[k] = "-"
Misread(f, o, j) ==
    \/ f.ext \in FreeForm /\ o.tok \in {<<"c">>, <<"C">>, <<"*">>}
    \/ f.ext \in {"f", "for"} /\ o.tok = <<"!">> /\ j = LineStart(f.text, j) + 5
    \/ /\ f.ext \in {"sh", "bash", "zsh", "ksh"} /\ o.tok = <<"#">>
       /\ Before(f.text, j) \notin WordBreaks
    \/ f.ext = "php" /\ Has(f.text, <<"#", "[">>, j)
    \/ f.ext \in {"rb", "ex", "exs"} /\ o.tok = <<"#">> /\ Before(f.text, j) = "?"
    \/ f.ext \in {"erl", "hrl"} /\ o.tok = <<"%">> /\ Before(f.text, j) = "$"
    \/ f.ext = "hs" /\ o.tok = Dashes /\ InOperator(f.text, j)
AsMeant(f) == \A j \in Boundaries(f) : \A o \in OpenerAt(f, j) : ~Misread(f, o, j)

(* Exactly the insides of comments are blanked: what is code or a string     *)
(* stands in the view as the lexer writes it, and of a comment nothing is    *)
(* left but its delimiters.  (Where regions do not nest, and the language    *)
(* opens a comment where the lexer does.)                                    *)
OnlyCommentsAreBlanked ==
    Finished /\ Plain(file) /\ AsMeant(file) =>
        LET insides == CommentInsides(file) IN
        \A k \in DOMAIN text :
            IF k \in insides THEN out[k] \in {Space, NL, Tab}
            ELSE out[k] \in {text[k], Shown(text[k])} \/ text[k] = "REM"

(* Of code nothing is blanked: what follows a sign that only the lexer takes *)
(* for a comment stands in the view ("Strip comments from Fortran source").  *)
CodeStands ==
    Finished /\ Plain(file) =>
        \A j \in Boundaries(file) : \A o \in OpenerAt(file, j) :
            Misread(file, o, j) =>
                \A k \in InsideOf(file, o, j) : out[k] \in {text[k], Shown(text[k])}

=============================================================================
