------------------------ MODULE NoiseStripperProofs -------------------------
(***************************************************************************)
(* The view of a file has the file's shape, for every text, whatever the    *)
(* symbols it is made of, and every language but JSX; and where regions do   *)
(* not nest it blanks the insides of comments and nothing else.              *)
(*                                                                          *)
(* The tables come first: every opener of every language is shown as it was  *)
(* matched (but for REM), and none but Rust's opens a region that nests, but *)
(* for the classes of a regular expression.  The loop's invariant is that    *)
(* what was taken and what was shown have the same length, symbol against    *)
(* symbol; each step takes n symbols that are there and shows n that they    *)
(* may become.                                                              *)
(*                                                                          *)
(* That only comments are blanked is about how the text is divided into      *)
(* regions, which the property defines without the loop, by what opens and   *)
(* what ends each.  The lexer counts no backslashes and looks back at no     *)
(* line: it skips what a backslash protects and keeps the indent of one      *)
(* scalar.  So the invariant relates the two: the lexer is at a place where  *)
(* the reference has a region begin, or inside of the region it has there,   *)
(* an even number of escapes after its opener; and the scalar it keeps is    *)
(* that of the one header whose lines have not ended.                        *)
(***************************************************************************)
EXTENDS NoiseStripper, SequenceTheorems, FiniteSetTheorems, WellFoundedInduction, TLAPS

-----------------------------------------------------------------------------
(* What the tables are made of.                                             *)

Delimiter == {"\n", "'", "\"", "/", "*", "-", "[", "]", "tick", "#", "R", ")", "@", "r", "b", "%",
              "c", "C", "!", "{", "}", "=", "=begin", "=end", "Rem", "REM"}
Token == Seq(Delimiter)
RegionType ==
    [body : {"copy", "blank", "blank but tabs", "keep"}, ends : Token,
     quoting : {"none", "backslash", "twice"}, nests : Token,
     only : {"any", "hashes", "column one"}]
When == {"always", "column one", "line start", "after blank", "directive", "not shebang",
         "not magic", "operand", "char literal", "rem"}
OpenerType == [tok : Token, put : Token, when : When, region : RegionType]
Faithful == {o \in OpenerType : o.put = o.tok \/ (o.tok = <<"REM">> /\ o.put = <<"Rem">>)}

LEMMA TokenTypes ==
    /\ <<>> \in Token
    /\ \A a \in Delimiter : <<a>> \in Token
    /\ \A a, b \in Delimiter : <<a, b>> \in Token
    /\ \A a, b, c \in Delimiter : <<a, b, c>> \in Token
    /\ \A s, t \in Token : s \o t \in Token
  BY DEF Token

LEMMA Tokens ==
    /\ {SlashSlash, SlashStar, StarSlash, Dashes, Brackets} \subseteq Token
    /\ {Q1, D1, Tick, <<NL>>} \subseteq Token
    /\ {Q3, D3} \subseteq Token
  <1>1. {SlashSlash, SlashStar, StarSlash, Dashes, Brackets} \subseteq Token
    BY DEF Token, Delimiter, SlashSlash, SlashStar, StarSlash, Dashes, Brackets
  <1>2. {Q1, D1, Tick, <<NL>>} \subseteq Token
    BY DEF Token, Delimiter, Q1, D1, Tick, NL
  <1>3. {Q3, D3} \subseteq Token
    BY DEF Token, Delimiter, Q3, D3
  <1> QED BY <1>1, <1>2, <1>3

LEMMA Regions ==
    /\ Code \in RegionType /\ LineNoise \in RegionType /\ LineKept \in RegionType
    /\ FixedForm \in RegionType /\ ScalarText \in RegionType
    /\ \A e \in Token : /\ Escaped(e) \in RegionType /\ Doubled(e) \in RegionType
                        /\ Raw(e) \in RegionType /\ BlockNoise(e) \in RegionType
  BY TokenTypes, Tokens
  DEF RegionType, Region, Code, LineNoise, LineKept, FixedForm, ScalarText, Escaped, Doubled, Raw,
      BlockNoise

LEMMA SpecialRegions ==
    /\ Regex \in RegionType /\ RegexClass \in RegionType /\ Nested \in RegionType
    /\ RawRust \in RegionType /\ RubyBlock \in RegionType
  <1>1. /\ <<"/">> \in Token /\ <<"[">> \in Token /\ <<"]">> \in Token /\ <<"=end">> \in Token
    BY DEF Token, Delimiter
  <1>2. /\ Escaped(<<"/">>) \in RegionType /\ RegexClass \in RegionType
        /\ BlockNoise(StarSlash) \in RegionType /\ Raw(D1) \in RegionType
        /\ BlockNoise(<<"=end">>) \in RegionType
    BY <1>1, Regions, Tokens DEF RegexClass
  <1> QED BY <1>1, <1>2, Tokens DEF Regex, Nested, RawRust, RubyBlock, RegionType

(* What the regions and openers of all languages but Rust have in common.     *)
Mark == Seq(Delimiter \ {"\n"}) \ {<<>>, <<"]">>}
Tame ==
    {r \in RegionType :
        /\ r.ends \in Mark \cup {<<NL>>} /\ r.nests \in {<<>>, <<"[">>}
        /\ r.body # "keep" /\ r.only # "hashes"
        /\ r.quoting # "none" => r.body = "copy"
        /\ r.quoting = "twice" => Len(r.ends) = 1 /\ r.only = "any"}
Simple == {o \in Faithful : o.tok \in Mark /\ o.region \in Tame}

LEMMA Marks ==
    /\ {SlashSlash, SlashStar, StarSlash, Dashes, Brackets} \subseteq Mark
    /\ {Q1, D1, Tick} \subseteq Mark /\ Len(Q1) = 1 /\ Len(D1) = 1
    /\ {Q3, D3} \subseteq Mark
    /\ Mark \subseteq Token
  <1>1. {SlashSlash, SlashStar, StarSlash, Dashes, Brackets} \subseteq Mark
    BY DEF Mark, Delimiter, SlashSlash, SlashStar, StarSlash, Dashes, Brackets
  <1>2. {Q1, D1, Tick} \subseteq Mark /\ Len(Q1) = 1 /\ Len(D1) = 1
    BY DEF Mark, Delimiter, Q1, D1, Tick
  <1>3. {Q3, D3} \subseteq Mark
    BY DEF Mark, Delimiter, Q3, D3
  <1>4. Mark \subseteq Token
    BY DEF Mark, Token
  <1> QED BY <1>1, <1>2, <1>3, <1>4

LEMMA MarksJoined ==
    ASSUME NEW s \in Mark, NEW t \in Mark PROVE s \o t \in Mark
  <1> DEFINE D == Delimiter \ {"\n"}
  <1>1. s \in Seq(D) /\ t \in Seq(D) /\ s # <<>> /\ t # <<>>
    BY DEF Mark
  <1> HIDE DEF D
  <1>2. Len(s) \in Nat \ {0} /\ Len(t) \in Nat \ {0}
    BY <1>1, EmptySeq, LenProperties
  <1>3. s \o t \in Seq(D) /\ Len(s \o t) = Len(s) + Len(t)
    BY <1>1, ConcatProperties
  <1>4. Len(<<>>) = 0 /\ Len(<<"]">>) = 1
    OBVIOUS
  <1>5. s \o t # <<>> /\ s \o t # <<"]">>
    BY <1>2, <1>3, <1>4
  <1> QED BY <1>3, <1>5 DEF Mark, D

LEMMA TameRegions ==
    /\ LineNoise \in Tame /\ LineKept \in Tame /\ FixedForm \in Tame
    /\ \A e \in Mark : Escaped(e) \in Tame /\ Raw(e) \in Tame /\ BlockNoise(e) \in Tame
    /\ \A e \in Mark : Len(e) = 1 => Doubled(e) \in Tame
  <1>1. LineNoise \in Tame /\ LineKept \in Tame /\ FixedForm \in Tame
    BY Regions DEF Tame, Region, LineNoise, LineKept, FixedForm
  <1>2. \A e \in Mark : Escaped(e) \in Tame /\ Raw(e) \in Tame /\ BlockNoise(e) \in Tame
    BY Regions, Marks DEF Tame, Region, Escaped, Raw, BlockNoise
  <1>3. \A e \in Mark : Len(e) = 1 => Doubled(e) \in Tame
    BY Regions, Marks DEF Tame, Region, Doubled
  <1> QED BY <1>1, <1>2, <1>3

LEMMA TameSpecials == Regex \in Tame /\ RubyBlock \in Tame
  <1>1. <<"/">> \in Mark /\ <<"=end">> \in Mark
    BY DEF Mark, Delimiter
  <1>2. Escaped(<<"/">>) \in Tame /\ BlockNoise(<<"=end">>) \in Tame
    BY <1>1, TameRegions
  <1>3. Regex \in Tame
    BY <1>2, SpecialRegions DEF Regex, Tame, Region, Escaped
  <1>4. RubyBlock \in Tame
    BY <1>2, SpecialRegions DEF RubyBlock, Tame, Region, BlockNoise
  <1> QED BY <1>3, <1>4

LEMMA Opening ==
    ASSUME NEW t \in Token, NEW w \in When, NEW r \in RegionType
    PROVE  Opener(t, w, r) \in Faithful
  BY DEF Opener, Faithful, OpenerType

LEMMA SimpleOpening ==
    ASSUME NEW t \in Mark, NEW w \in When, NEW r \in Tame
    PROVE  Opener(t, w, r) \in Simple
  <1>1. Opener(t, w, r) \in Faithful
    BY Opening, Marks DEF Tame
  <1>2. Opener(t, w, r).tok = t /\ Opener(t, w, r).region = r
    BY DEF Opener
  <1> QED BY <1>1, <1>2 DEF Simple

LEMMA Plainly ==
    ASSUME NEW t \in Mark, NEW r \in Tame PROVE On(t, r) \in Simple
  BY SimpleOpening DEF On, When

LEMMA RustPlainly ==
    ASSUME NEW t \in Token, NEW r \in RegionType PROVE On(t, r) \in Faithful
  BY Opening DEF On, When

LEMMA Concatenated ==
    ASSUME NEW s \in Seq(Simple), NEW t \in Seq(Simple) PROVE s \o t \in Seq(Simple)
  OBVIOUS

LEMMA Several ==
    /\ \A a \in Simple : <<a>> \in Seq(Simple)
    /\ \A a, b \in Simple : <<a, b>> \in Seq(Simple)
    /\ \A a, b, c \in Simple : <<a, b, c>> \in Seq(Simple)
    /\ \A a, b, c, d \in Simple : <<a, b, c, d>> \in Seq(Simple)
    /\ \A a, b, c, d, e, f, g \in Simple : <<a, b, c, d, e, f, g>> \in Seq(Simple)
    /\ \A a, b, c, d, e, f, g, h \in Simple : <<a, b, c, d, e, f, g, h>> \in Seq(Simple)
  OBVIOUS

LEMMA CommonOpeners ==
    /\ SlashComments \in Seq(Simple)
    /\ Quotes \in Seq(Simple)
    /\ HashComment \in Seq(Simple)
  <1>1. SlashComments \in Seq(Simple)
    <2>1. On(SlashSlash, LineNoise) \in Simple /\ On(SlashStar, BlockNoise(StarSlash)) \in Simple
      BY Plainly, TameRegions, Marks
    <2> QED BY <2>1 DEF SlashComments
  <1>2. Quotes \in Seq(Simple)
    <2>1. On(Q1, Escaped(Q1)) \in Simple /\ On(D1, Escaped(D1)) \in Simple
      BY Plainly, TameRegions, Marks
    <2> QED BY <2>1 DEF Quotes
  <1>3. HashComment \in Seq(Simple)
    <2>1. <<"#">> \in Mark
      BY DEF Mark, Delimiter
    <2>2. On(<<"#">>, LineNoise) \in Simple
      BY <2>1, Plainly, TameRegions
    <2> QED BY <2>2 DEF HashComment
  <1> QED BY <1>1, <1>2, <1>3

-----------------------------------------------------------------------------
(* The languages.                                                           *)

LEMMA CFamilyTable == CFamily.opens \in Seq(Simple)
  <1>1. <<"R", "\"">> \in Mark /\ <<")", "\"">> \in Mark
    BY DEF Mark, Delimiter
  <1>2. /\ On(<<"R", "\"">>, Raw(<<")", "\"">>)) \in Simple
    BY <1>1, Plainly, SimpleOpening, TameRegions, TameSpecials, Marks DEF When
  <1>3. <<On(<<"R", "\"">>, Raw(<<")", "\"">>))>>
        \in Seq(Simple)
    BY <1>2, Several
  <1> QED
    BY <1>3, CommonOpeners, Concatenated DEF CFamily, Language

LEMMA CSharpTable == CSharp.opens \in Seq(Simple)
  <1>1. <<"@", "\"">> \in Mark
    BY DEF Mark, Delimiter
  <1>2. /\ On(<<"@", "\"">>, Doubled(D1)) \in Simple
    BY <1>1, Plainly, SimpleOpening, TameRegions, TameSpecials, Marks DEF When
  <1>3. <<On(<<"@", "\"">>, Doubled(D1))>>
        \in Seq(Simple)
    BY <1>2, Several
  <1> QED
    BY <1>3, CommonOpeners, Concatenated DEF CSharp, Language

LEMMA DartTable == Dart.opens \in Seq(Simple)
  <1>1. <<"r", "'">> \in Mark /\ <<"r", "\"">> \in Mark
    BY DEF Mark, Delimiter
  <1>2. /\ On(Q3, Escaped(Q3)) \in Simple
        /\ On(D3, Escaped(D3)) \in Simple
        /\ On(<<"r", "'">>, Raw(Q1)) \in Simple
    BY <1>1, Plainly, SimpleOpening, TameRegions, TameSpecials, Marks DEF When
  <1>3. /\ On(<<"r", "\"">>, Raw(D1)) \in Simple
    BY <1>1, Plainly, SimpleOpening, TameRegions, TameSpecials, Marks DEF When
  <1>4. <<On(Q3, Escaped(Q3)), On(D3, Escaped(D3)),
            On(<<"r", "'">>, Raw(Q1)), On(<<"r", "\"">>, Raw(D1))>>
        \in Seq(Simple)
    BY <1>2, <1>3, Several
  <1> QED
    BY <1>4, CommonOpeners, Concatenated DEF Dart, Language

LEMMA ElixirTable == Elixir.opens \in Seq(Simple)
  <1>1. /\ On(Q3, Raw(Q3)) \in Simple
        /\ On(D3, Raw(D3)) \in Simple
    BY Plainly, SimpleOpening, TameRegions, TameSpecials, Marks DEF When
  <1> QED
    BY <1>1, CommonOpeners, Concatenated DEF Elixir, Language

LEMMA ErlangTable == Erlang.opens \in Seq(Simple)
  <1>1. <<"%">> \in Mark
    BY DEF Mark, Delimiter
  <1>2. /\ On(<<"%">>, LineNoise) \in Simple
    BY <1>1, Plainly, SimpleOpening, TameRegions, TameSpecials, Marks DEF When
  <1> QED
    BY <1>2, CommonOpeners, Concatenated DEF Erlang, Language

LEMMA FortranTable == Fortran.opens \in Seq(Simple)
  <1>1. <<"c">> \in Mark /\ <<"C">> \in Mark /\ <<"*">> \in Mark /\ <<"!">> \in Mark
    BY DEF Mark, Delimiter
  <1>2. /\ Opener(<<"c">>, "column one", FixedForm) \in Simple
        /\ Opener(<<"C">>, "column one", FixedForm) \in Simple
        /\ Opener(<<"*">>, "column one", FixedForm) \in Simple
    BY <1>1, Plainly, SimpleOpening, TameRegions, TameSpecials, Marks DEF When
  <1>3. /\ Opener(<<"!">>, "column one", FixedForm) \in Simple
        /\ On(<<"!">>, LineNoise) \in Simple
        /\ On(Q1, Doubled(Q1)) \in Simple
    BY <1>1, Plainly, SimpleOpening, TameRegions, TameSpecials, Marks DEF When
  <1>4. /\ On(D1, Doubled(D1)) \in Simple
    BY <1>1, Plainly, SimpleOpening, TameRegions, TameSpecials, Marks DEF When
  <1>5. <<Opener(<<"c">>, "column one", FixedForm), Opener(<<"C">>, "column one", FixedForm),
            Opener(<<"*">>, "column one", FixedForm), Opener(<<"!">>, "column one", FixedForm),
            On(<<"!">>, LineNoise), On(Q1, Doubled(Q1)), On(D1, Doubled(D1))>>
        \in Seq(Simple)
    BY <1>2, <1>3, <1>4, Several
  <1> QED
    BY <1>5, CommonOpeners, Concatenated DEF Fortran, LineLanguage, Language

LEMMA GoTable == Go.opens \in Seq(Simple)
  <1>1. /\ Opener(SlashSlash, "directive", LineKept) \in Simple
        /\ On(Tick, Raw(Tick)) \in Simple
    BY Plainly, SimpleOpening, TameRegions, TameSpecials, Marks DEF When
  <1> QED
    BY <1>1, CommonOpeners, Concatenated DEF Go, Language

LEMMA GraphQlTable == GraphQl.opens \in Seq(Simple)
  <1>1. /\ On(D3, Raw(D3)) \in Simple
        /\ On(D1, Escaped(D1)) \in Simple
    BY Plainly, SimpleOpening, TameRegions, TameSpecials, Marks DEF When
  <1> QED
    BY <1>1, CommonOpeners, Concatenated DEF GraphQl, Language

LEMMA GroovyTable == Groovy.opens \in Seq(Simple)
  <1>1. <<"/">> \in Mark
    BY DEF Mark, Delimiter
  <1>2. /\ On(Q3, Raw(Q3)) \in Simple
        /\ On(D3, Raw(D3)) \in Simple
        /\ Opener(<<"/">>, "operand", Escaped(<<"/">>)) \in Simple
    BY <1>1, Plainly, SimpleOpening, TameRegions, TameSpecials, Marks DEF When
  <1> QED
    BY <1>2, CommonOpeners, Concatenated DEF Groovy, Language

LEMMA HaskellTable == Haskell.opens \in Seq(Simple)
  <1>1. <<"{", "-">> \in Mark /\ <<"-", "}">> \in Mark
    BY DEF Mark, Delimiter
  <1>2. /\ On(Dashes, LineNoise) \in Simple
        /\ On(<<"{", "-">>, BlockNoise(<<"-", "}">>)) \in Simple
    BY <1>1, Plainly, SimpleOpening, TameRegions, TameSpecials, Marks DEF When
  <1>3. <<On(Dashes, LineNoise), On(<<"{", "-">>, BlockNoise(<<"-", "}">>))>>
        \in Seq(Simple)
    BY <1>2, Several
  <1> QED
    BY <1>3, CommonOpeners, Concatenated DEF Haskell, Language

LEMMA JavaScriptTable == JavaScript.opens \in Seq(Simple)
  <1>1. <<"/">> \in Mark
    BY DEF Mark, Delimiter
  <1>2. /\ On(Tick, Escaped(Tick)) \in Simple
        /\ Opener(<<"/">>, "operand", Regex) \in Simple
    BY <1>1, Plainly, SimpleOpening, TameRegions, TameSpecials, Marks DEF When
  <1> QED
    BY <1>2, CommonOpeners, Concatenated DEF JavaScript, Language

LEMMA JuliaTable == Julia.opens \in Seq(Simple)
  <1>1. <<"#", "=">> \in Mark /\ <<"=", "#">> \in Mark
    BY DEF Mark, Delimiter
  <1>2. /\ On(<<"#", "=">>, BlockNoise(<<"=", "#">>)) \in Simple
        /\ On(D3, Raw(D3)) \in Simple
    BY <1>1, Plainly, SimpleOpening, TameRegions, TameSpecials, Marks DEF When
  <1> QED
    BY <1>2, CommonOpeners, Concatenated DEF Julia, Language

LEMMA KotlinTable == Kotlin.opens \in Seq(Simple)
  <1>1. /\ On(D3, Raw(D3)) \in Simple
    BY Plainly, SimpleOpening, TameRegions, TameSpecials, Marks DEF When
  <1> QED
    BY <1>1, CommonOpeners, Concatenated DEF Kotlin, Language

LEMMA LuaTable == Lua.opens \in Seq(Simple)
  <1>1. <<"[", "[">> \in Mark
    BY DEF Mark, Delimiter
  <1>2. Dashes \o <<"[", "[">> \in Mark
    BY <1>1, Marks, MarksJoined
  <1>3. /\ On(Dashes \o <<"[", "[">>, BlockNoise(Brackets)) \in Simple
        /\ On(Dashes, LineNoise) \in Simple
        /\ On(<<"[", "[">>, Raw(Brackets)) \in Simple
    BY <1>1, <1>2, Plainly, SimpleOpening, TameRegions, TameSpecials, Marks DEF When
  <1> QED
    BY <1>3, CommonOpeners, Concatenated DEF Lua, Language

LEMMA PhpTable == Php.opens \in Seq(Simple)
  <1>1. /\ On(SlashSlash, LineNoise) \in Simple
        /\ On(SlashStar, BlockNoise(StarSlash)) \in Simple
    BY Plainly, SimpleOpening, TameRegions, TameSpecials, Marks DEF When
  <1> QED
    BY <1>1, CommonOpeners, Concatenated DEF Php, Language

LEMMA PythonTable == Python.opens \in Seq(Simple)
  <1>1. <<"#">> \in Mark
    BY DEF Mark, Delimiter
  <1>2. /\ Opener(<<"#">>, "not magic", LineNoise) \in Simple
        /\ On(Q3, Raw(Q3)) \in Simple
        /\ On(D3, Raw(D3)) \in Simple
    BY <1>1, Plainly, SimpleOpening, TameRegions, TameSpecials, Marks DEF When
  <1>3. <<Opener(<<"#">>, "not magic", LineNoise), On(Q3, Raw(Q3)), On(D3, Raw(D3))>>
        \in Seq(Simple)
    BY <1>2, Several
  <1> QED
    BY <1>3, CommonOpeners, Concatenated DEF Python, Language

LEMMA RubyTable == Ruby.opens \in Seq(Simple)
  <1>1. <<"=begin">> \in Mark /\ <<"#">> \in Mark
    BY DEF Mark, Delimiter
  <1>2. /\ Opener(<<"=begin">>, "line start", RubyBlock) \in Simple
        /\ Opener(<<"#">>, "not shebang", LineNoise) \in Simple
    BY <1>1, Plainly, SimpleOpening, TameRegions, TameSpecials, Marks DEF When
  <1>3. <<Opener(<<"=begin">>, "line start", RubyBlock),
            Opener(<<"#">>, "not shebang", LineNoise)>>
        \in Seq(Simple)
    BY <1>2, Several
  <1> QED
    BY <1>3, CommonOpeners, Concatenated DEF Ruby, Language

LEMMA RustTable == Rust.opens \in Seq(Faithful)
  <1>1. <<"/">> \in Token /\ <<"!">> \in Token /\ <<"*">> \in Token
    BY DEF Token, Delimiter
  <1>2. /\ SlashSlash \o <<"/">> \in Token /\ SlashSlash \o <<"!">> \in Token
        /\ SlashStar \o <<"*">> \in Token /\ SlashStar \o <<"!">> \in Token
    BY <1>1, Tokens, TokenTypes
  <1>3. /\ On(SlashSlash \o <<"/">>, LineNoise) \in Faithful
        /\ On(SlashSlash \o <<"!">>, LineNoise) \in Faithful
        /\ On(SlashSlash, LineNoise) \in Faithful
    BY <1>1, <1>2, RustPlainly, Opening, Regions, SpecialRegions, Tokens DEF When
  <1>4. /\ On(SlashStar \o <<"*">>, Nested) \in Faithful
        /\ On(SlashStar \o <<"!">>, Nested) \in Faithful
        /\ On(SlashStar, Nested) \in Faithful
    BY <1>1, <1>2, RustPlainly, Opening, Regions, SpecialRegions, Tokens DEF When
  <1>5. /\ On(D1, Escaped(D1)) \in Faithful
        /\ Opener(Q1, "char literal", Escaped(Q1)) \in Faithful
    BY <1>1, <1>2, RustPlainly, Opening, Regions, SpecialRegions, Tokens DEF When
  <1>6. <<On(SlashSlash \o <<"/">>, LineNoise), On(SlashSlash \o <<"!">>, LineNoise),
            On(SlashSlash, LineNoise),
            On(SlashStar \o <<"*">>, Nested), On(SlashStar \o <<"!">>, Nested),
            On(SlashStar, Nested),
            On(D1, Escaped(D1)), Opener(Q1, "char literal", Escaped(Q1))>>
        \in Seq(Faithful)
    <2>1. \A a, b, c, d, e, f, g, h \in Faithful : <<a, b, c, d, e, f, g, h>> \in Seq(Faithful)
      OBVIOUS
    <2> QED BY <2>1, <1>3, <1>4, <1>5
  <1> QED
    BY <1>6 DEF Rust, Language

LEMMA ScalaTable == Scala.opens \in Seq(Simple)
  <1>1. /\ On(D3, Raw(D3)) \in Simple
    BY Plainly, SimpleOpening, TameRegions, TameSpecials, Marks DEF When
  <1> QED
    BY <1>1, CommonOpeners, Concatenated DEF Scala, Language

LEMMA ShellTable == Shell.opens \in Seq(Simple)
  <1>1. <<"#">> \in Mark
    BY DEF Mark, Delimiter
  <1>2. /\ Opener(<<"#">>, "not shebang", LineNoise) \in Simple
        /\ On(Q1, Raw(Q1)) \in Simple
        /\ On(D1, Escaped(D1)) \in Simple
    BY <1>1, Plainly, SimpleOpening, TameRegions, TameSpecials, Marks DEF When
  <1>3. /\ On(Tick, Escaped(Tick)) \in Simple
    BY <1>1, Plainly, SimpleOpening, TameRegions, TameSpecials, Marks DEF When
  <1>4. <<Opener(<<"#">>, "not shebang", LineNoise), On(Q1, Raw(Q1)), On(D1, Escaped(D1)),
            On(Tick, Escaped(Tick))>>
        \in Seq(Simple)
    BY <1>2, <1>3, Several
  <1> QED
    BY <1>4, CommonOpeners, Concatenated DEF Shell, Language

LEMMA SwiftTable == Swift.opens \in Seq(Simple)
  <1>1. /\ On(D3, Raw(D3)) \in Simple
    BY Plainly, SimpleOpening, TameRegions, TameSpecials, Marks DEF When
  <1> QED
    BY <1>1, CommonOpeners, Concatenated DEF Swift, Language

LEMMA TomlTable == Toml.opens \in Seq(Simple)
  <1>1. /\ On(D3, Escaped(D3)) \in Simple
        /\ On(Q3, Raw(Q3)) \in Simple
        /\ On(D1, Escaped(D1)) \in Simple
    BY Plainly, SimpleOpening, TameRegions, TameSpecials, Marks DEF When
  <1>2. /\ On(Q1, Raw(Q1)) \in Simple
    BY Plainly, SimpleOpening, TameRegions, TameSpecials, Marks DEF When
  <1> QED
    BY <1>1, <1>2, CommonOpeners, Concatenated DEF Toml, Language

LEMMA VbNetTable == VbNet.opens \in Seq(Simple)
  <1>1. <<"Rem">> \in Mark /\ <<"REM">> \in Mark
    BY DEF Mark, Delimiter
  <1>2. /\ On(Q1, LineNoise) \in Simple
        /\ Opener(<<"Rem">>, "rem", LineNoise) \in Simple
        /\ Opener(<<"REM">>, "rem", LineNoise) \in Simple
    BY <1>1, Plainly, SimpleOpening, TameRegions, TameSpecials, Marks DEF When
  <1>4. [Opener(<<"REM">>, "rem", LineNoise) EXCEPT !.put = <<"Rem">>] \in Simple
    <2>1. PICK o : o = [Opener(<<"REM">>, "rem", LineNoise) EXCEPT !.put = <<"Rem">>]
      OBVIOUS
    <2>2. o.tok = <<"REM">> /\ o.put = <<"Rem">> /\ o.region = LineNoise /\ o.when = "rem"
      BY <2>1 DEF Opener
    <2>3. o \in OpenerType
      BY <1>1, <1>2, <2>1, Marks DEF Simple, Faithful, OpenerType, Opener
    <2> QED BY <1>1, <2>1, <2>2, <2>3, TameRegions DEF Simple, Faithful
  <1>3. /\ On(D1, Doubled(D1)) \in Simple
    BY <1>1, Plainly, SimpleOpening, TameRegions, TameSpecials, Marks DEF When
  <1> QED
    BY <1>2, <1>3, <1>4, CommonOpeners, Concatenated DEF VbNet, LineLanguage, Language

LEMMA YamlTable == Yaml.opens \in Seq(Simple)
  <1>1. <<"#">> \in Mark
    BY DEF Mark, Delimiter
  <1>2. /\ Opener(<<"#">>, "after blank", LineNoise) \in Simple
        /\ On(Q1, Doubled(Q1)) \in Simple
        /\ On(D1, Escaped(D1)) \in Simple
    BY <1>1, Plainly, SimpleOpening, TameRegions, TameSpecials, Marks DEF When
  <1>3. <<Opener(<<"#">>, "after blank", LineNoise), On(Q1, Doubled(Q1)), On(D1, Escaped(D1))>>
        \in Seq(Simple)
    BY <1>2, Several
  <1> QED
    BY <1>3, CommonOpeners, Concatenated DEF Yaml, LineLanguage, Language

LEMMA SimpleTables ==
    \A ext : LanguageOf(ext) = Rust \/ LanguageOf(ext).opens \in Seq(Simple)
  <1>1. /\ Unknown.opens \in Seq(Simple)
        /\ [Unknown EXCEPT !.chars = TRUE].opens \in Seq(Simple)
    BY DEF Unknown, Language
  <1>2. Jsx.opens \in Seq(Simple) /\ Vue.opens \in Seq(Simple)
    BY JavaScriptTable DEF Jsx, Vue, JavaScript, Language
  <1> DEFINE Known(l) == l = Rust \/ l.opens \in Seq(Simple)
  <1>3. /\ Known(CFamily) /\ Known(CSharp) /\ Known(Dart) /\ Known(Elixir) /\ Known(Erlang)
        /\ Known(Fortran) /\ Known(Go) /\ Known(GraphQl) /\ Known(Groovy) /\ Known(Haskell)
        /\ Known(JavaScript) /\ Known(Jsx) /\ Known(Vue) /\ Known(Julia) /\ Known(Kotlin)
        /\ Known(Lua) /\ Known(Php) /\ Known(Python) /\ Known(Ruby) /\ Known(Rust)
        /\ Known(Scala) /\ Known(Shell) /\ Known(Swift) /\ Known(Toml) /\ Known(VbNet)
        /\ Known(Yaml) /\ Known([Unknown EXCEPT !.chars = TRUE])
    BY <1>1, <1>2, CFamilyTable, CSharpTable, DartTable, ElixirTable, ErlangTable, FortranTable,
       GoTable, GraphQlTable, GroovyTable, HaskellTable, JavaScriptTable, JuliaTable, KotlinTable,
       LuaTable, PhpTable, PythonTable, RubyTable, ScalaTable, ShellTable, SwiftTable,
       TomlTable, VbNetTable, YamlTable
  <1> HIDE DEF Known
  <1>4. \A ext : Known(LanguageOf(ext))
    BY <1>3 DEF LanguageOf
  <1> QED BY <1>4 DEF Known

LEMMA Tables == \A ext : LanguageOf(ext).opens \in Seq(Faithful)
  <1>1. Seq(Simple) \subseteq Seq(Faithful)
    BY DEF Simple
  <1> QED BY <1>1, SimpleTables, RustTable

-----------------------------------------------------------------------------
(* The least of a set of numbers, and induction over them.                  *)
LEMMA LeastOf ==
    ASSUME NEW ks, ks \subseteq Nat, ks # {}
    PROVE  First(ks) \in ks /\ IsFirst(First(ks), ks)
  <1>1. PICK x \in ks : \A y \in ks : <<y, x>> \notin OpToRel(<, Nat)
    BY WFMin, NatLessThanWellFounded, Zenon
  <1>2. \A y \in ks : x <= y
    <2> SUFFICES ASSUME NEW y \in ks PROVE x <= y
      OBVIOUS
    <2>1. ~(y < x)
      BY <1>1 DEF OpToRel
    <2> QED BY <2>1
  <1>3. \E k \in ks : IsFirst(k, ks)
    BY <1>2 DEF IsFirst
  <1> QED BY <1>3, Zenon DEF First

LEMMA FirstIs ==
    ASSUME NEW ks, ks \subseteq Nat, NEW k \in ks, IsFirst(k, ks)
    PROVE  First(ks) = k
  <1>1. First(ks) \in ks /\ IsFirst(First(ks), ks)
    BY LeastOf
  <1>2. PICK m \in ks : m = First(ks)
    BY <1>1
  <1>3. m <= k /\ k <= m /\ m \in Nat /\ k \in Nat
    BY <1>1, <1>2 DEF IsFirst
  <1> QED BY <1>2, <1>3

LEMMA Induction ==
    ASSUME NEW S, 0 \in S, \A n \in Nat : n \in S => n + 1 \in S
    PROVE  Nat \subseteq S
  <1> SUFFICES ASSUME Nat \ S # {} PROVE FALSE
    OBVIOUS
  <1>1. PICK x : x \in Nat \ S /\ IsFirst(x, Nat \ S)
    BY LeastOf
  <1>2. x # 0 /\ x - 1 \in Nat /\ x - 1 < x
    BY <1>1
  <1>3. x - 1 \notin S
    BY <1>1, <1>2
  <1> QED BY <1>1, <1>2, <1>3 DEF IsFirst

-----------------------------------------------------------------------------
(* Lines                                                                    *)

LEMMA LineEndIs ==
    ASSUME NEW t, Len(t) \in Nat, NEW j \in 1..(Len(t) + 1)
    PROVE  /\ LineEnd(t, j) \in j..(Len(t) + 1)
           /\ LineEnd(t, j) = Len(t) + 1 \/ t[LineEnd(t, j)] = NL
           /\ \A k \in j..(LineEnd(t, j) - 1) : t[k] # NL
  <1> DEFINE ks == {e \in j..(Len(t) + 1) : e = Len(t) + 1 \/ t[e] = NL}
  <1>1. ks \subseteq Nat /\ Len(t) + 1 \in ks
    OBVIOUS
  <1>2. PICK e \in ks : IsFirst(e, ks)
    BY <1>1, LeastOf
  <1>3. \A k \in j..(e - 1) : t[k] # NL
    <2> SUFFICES ASSUME NEW k \in j..(e - 1), t[k] = NL PROVE FALSE
      OBVIOUS
    <2>1. k \in ks /\ k < e
      OBVIOUS
    <2> QED BY <1>2, <2>1 DEF IsFirst
  <1>4. \E x \in j..(Len(t) + 1) :
           (x = Len(t) + 1 \/ t[x] = NL) /\ \A k \in j..(x - 1) : t[k] # NL
    BY <1>2, <1>3
  <1> DEFINE P(x) == (x = Len(t) + 1 \/ t[x] = NL) /\ \A k \in j..(x - 1) : t[k] # NL
  <1>5. LineEnd(t, j) = CHOOSE x \in j..(Len(t) + 1) : P(x)
    BY DEF LineEnd
  <1>6. \E x \in j..(Len(t) + 1) : P(x)
    BY <1>4
  <1> HIDE DEF P
  <1>7. LineEnd(t, j) \in j..(Len(t) + 1) /\ P(LineEnd(t, j))
    BY <1>5, <1>6, Zenon
  <1> QED BY <1>7 DEF P

LEMMA LineStartIs ==
    ASSUME NEW t, Len(t) \in Nat, NEW j \in 1..Len(t)
    PROVE  /\ LineStart(t, j) \in 1..j /\ ColumnOne(t, LineStart(t, j))
           /\ \A k \in LineStart(t, j)..(j - 1) : t[k] # NL
  <1> DEFINE ks == {d \in 0..(j - 1) : ColumnOne(t, j - d)}
  <1>1. ks \subseteq Nat /\ j - 1 \in ks
    BY DEF ColumnOne
  <1>2. PICK d \in ks : IsFirst(d, ks)
    BY <1>1, LeastOf
  <1>3. \A k \in (j - d)..(j - 1) : t[k] # NL
    <2> SUFFICES ASSUME NEW k \in (j - d)..(j - 1), t[k] = NL PROVE FALSE
      OBVIOUS
    <2>1. PICK e \in 0..(j - 1) : e = j - k - 1
      OBVIOUS
    <2>2. j - e = k + 1 /\ (k + 1) - 1 = k /\ e < d
      BY <2>1
    <2>3. e \in ks
      BY <2>2 DEF ColumnOne
    <2>4. d <= e
      BY <1>2, <2>3 DEF IsFirst
    <2> QED BY <2>2, <2>4
  <1> DEFINE P(b) == ColumnOne(t, b) /\ \A k \in b..(j - 1) : t[k] # NL
  <1>4. j - d \in 1..j /\ P(j - d)
    BY <1>2, <1>3
  <1>5. LineStart(t, j) = CHOOSE b \in 1..j : P(b)
    BY DEF LineStart
  <1> HIDE DEF P
  <1>6. LineStart(t, j) \in 1..j /\ P(LineStart(t, j))
    BY <1>4, <1>5, Zenon
  <1> QED BY <1>6 DEF P

(* A line has one start.                                                    *)
LEMMA LineStartOf ==
    ASSUME NEW t, Len(t) \in Nat, NEW j \in 1..Len(t), NEW b \in 1..j, ColumnOne(t, b),
           \A k \in b..(j - 1) : t[k] # NL
    PROVE  LineStart(t, j) = b
  <1>1. PICK c : c = LineStart(t, j)
    OBVIOUS
  <1>2. c \in 1..j /\ ColumnOne(t, c) /\ \A k \in c..(j - 1) : t[k] # NL
    BY <1>1, LineStartIs
  <1>3. ~(c < b)
    <2> SUFFICES ASSUME c < b PROVE FALSE
      OBVIOUS
    <2>1. b - 1 \in c..(j - 1) /\ b # 1
      BY <1>2
    <2> QED BY <1>2, <2>1 DEF ColumnOne
  <1>4. ~(b < c)
    <2> SUFFICES ASSUME b < c PROVE FALSE
      OBVIOUS
    <2>1. c - 1 \in b..(j - 1) /\ c # 1
      BY <1>2
    <2> QED BY <1>2, <2>1 DEF ColumnOne
  <1> QED BY <1>1, <1>2, <1>3, <1>4

LEMMA IndentIs ==
    ASSUME NEW t, Len(t) \in Nat, NEW j \in 1..Len(t)
    PROVE  Indent(t, j) \in Nat
  <1> DEFINE P(e) == /\ e = Len(t) + 1 \/ t[e] \notin {Space, Tab}
                     /\ \A k \in j..(e - 1) : t[k] \in {Space, Tab}
             ks == {e \in j..(Len(t) + 1) : e = Len(t) + 1 \/ t[e] \notin {Space, Tab}}
  <1>1. ks \subseteq Nat /\ Len(t) + 1 \in ks
    OBVIOUS
  <1>2. PICK e \in ks : IsFirst(e, ks)
    BY <1>1, LeastOf
  <1>3. \A k \in j..(e - 1) : t[k] \in {Space, Tab}
    <2> SUFFICES ASSUME NEW k \in j..(e - 1), t[k] \notin {Space, Tab} PROVE FALSE
      OBVIOUS
    <2>1. k \in ks /\ k < e
      OBVIOUS
    <2> QED BY <1>2, <2>1 DEF IsFirst
  <1>4. e \in j..(Len(t) + 1) /\ P(e)
    BY <1>2, <1>3
  <1>5. Indent(t, j) = (CHOOSE x \in j..(Len(t) + 1) : P(x)) - j
    BY DEF Indent
  <1> HIDE DEF P
  <1>6. PICK x : x = CHOOSE y \in j..(Len(t) + 1) : P(y)
    OBVIOUS
  <1>7. x \in j..(Len(t) + 1)
    BY <1>4, <1>6, Zenon
  <1> QED BY <1>5, <1>6, <1>7

-----------------------------------------------------------------------------
(* Whether an even number of c stand before j, back to p at most.           *)
Even(t, c, p, j) == RunBefore(t, c, p, j) % 2 = 0

LEMMA Parity ==
    ASSUME NEW t, NEW c, NEW p \in Nat, NEW j \in Nat, p <= j
    PROVE  /\ Even(t, c, p, p)
           /\ t[j] # c => Even(t, c, p, j + 1)
           /\ t[j] = c => (Even(t, c, p, j + 1) <=> ~Even(t, c, p, j))
  <1> DEFINE S(x) == {b \in p..(x - 1) : \A k \in b..(x - 1) : t[k] = c}
  <1>1. \A x : RunBefore(t, c, p, x) = Cardinality(S(x))
    BY DEF RunBefore
  <1>2. Even(t, c, p, p)
    <2>1. S(p) = {}
      OBVIOUS
    <2>2. RunBefore(t, c, p, p) = 0
      BY <2>1, <1>1, FS_EmptySet
    <2> QED BY <2>2 DEF Even
  <1>3. ASSUME t[j] # c PROVE Even(t, c, p, j + 1)
    <2>1. S(j + 1) = {}
      <3> SUFFICES ASSUME NEW b \in S(j + 1) PROVE FALSE
        OBVIOUS
      <3>1. j \in b..(j + 1 - 1)
        OBVIOUS
      <3> QED BY <1>3, <3>1
    <2>2. RunBefore(t, c, p, j + 1) = 0
      BY <2>1, <1>1, FS_EmptySet
    <2> QED BY <2>2 DEF Even
  <1>4. ASSUME t[j] = c PROVE Even(t, c, p, j + 1) <=> ~Even(t, c, p, j)
    <2>1. S(j + 1) = S(j) \cup {j}
      <3>1. ASSUME NEW b \in p..j
            PROVE  (\A k \in b..(j + 1 - 1) : t[k] = c) <=> b = j \/ \A k \in b..(j - 1) : t[k] = c
        BY <1>4
      <3> QED BY <3>1
    <2>2. j \notin S(j)
      OBVIOUS
    <2>3. IsFiniteSet(S(j))
      <3>1. IsFiniteSet(p..(j - 1)) /\ S(j) \subseteq p..(j - 1)
        BY FS_Interval
      <3> HIDE DEF S
      <3> QED BY <3>1, FS_Subset
    <2> HIDE DEF S
    <2>4. Cardinality(S(j + 1)) = Cardinality(S(j)) + 1 /\ Cardinality(S(j)) \in Nat
      BY <2>1, <2>2, <2>3, FS_AddElement, FS_CardinalityType
    <2>5. PICK m \in Nat : m = RunBefore(t, c, p, j) /\ m + 1 = RunBefore(t, c, p, j + 1)
      BY <1>1, <2>4
    <2>6. (m + 1) % 2 = 0 <=> ~(m % 2 = 0)
      OBVIOUS
    <2> QED BY <2>5, <2>6 DEF Even
  <1> QED BY <1>2, <1>3, <1>4

-----------------------------------------------------------------------------
(* The two sets the reference reads off a text grow from left to right: the   *)
(* places where a region or a symbol of code begins, and the lines of block   *)
(* scalars.  Each is the last of a recursive function, which is chosen; so    *)
(* first there is one.                                                      *)
Grown(what, f, s, j) ==
    CASE what = "boundaries" ->
            IF j = 1 \/ \E p \in s : After(f, p) = j THEN s \cup {j} ELSE s
      [] what = "scalars" ->
            IF j \in LineStarts(f.text) /\ \E h \in LineStarts(f.text) \ s : HeaderOf(f.text, h, j)
            THEN s \cup {j} ELSE s
Grows(what, f, u, n) == u = [j \in 0..n |-> IF j = 0 THEN {} ELSE Grown(what, f, u[j - 1], j)]

LEMMA GrowsStep ==
    ASSUME NEW what, NEW f, NEW n \in Nat, NEW u, Grows(what, f, u, n)
    PROVE  \E v : Grows(what, f, v, n + 1)
<1> DEFINE Of(w, j) == IF j = 0 THEN {} ELSE Grown(what, f, w[j - 1], j)
           e == [j \in 0..n |-> Of(u, j)]
           v == [j \in 0..(n + 1) |-> IF j = n + 1 THEN Grown(what, f, u[n], n + 1) ELSE u[j]]
           h == [j \in 0..(n + 1) |-> Of(v, j)]
<1>1. u = e
    BY DEF Grows
<1>2. \A j \in 0..n : e[j] = Of(u, j)
    OBVIOUS
<1>3. \A j \in 0..n : u[j] = Of(u, j)
    BY ONLY <1>1, <1>2
<1>4. ASSUME NEW j \in 0..(n + 1)
      PROVE  v[j] = h[j]
    <2>1. h[j] = Of(v, j)
        OBVIOUS
    <2>2. CASE j = n + 1
        <3>1. j - 1 = n /\ j # 0 /\ n \in 0..(n + 1) /\ n # n + 1
            BY <2>2
        <3>2. v[j] = Grown(what, f, u[n], j) /\ v[n] = u[n]
            BY <2>2, <3>1
        <3> HIDE DEF v, h
        <3> QED
            BY <2>1, <3>1, <3>2
    <2>3. CASE j = 0
        <3>1. v[j] = u[j] /\ j \in 0..n
            BY <2>3
        <3> HIDE DEF v, h
        <3> QED
            BY <1>3, <2>1, <2>3, <3>1
    <2>4. CASE j # n + 1 /\ j # 0
        <3>1. j - 1 \in 0..n /\ j \in 0..n /\ j - 1 # n + 1 /\ j - 1 \in 0..(n + 1)
            BY <2>4
        <3>2. v[j - 1] = u[j - 1] /\ v[j] = u[j]
            BY <2>4, <3>1
        <3> HIDE DEF v, h
        <3> QED
            BY <1>3, <2>1, <2>4, <3>1, <3>2
    <2> QED
        BY <2>2, <2>3, <2>4
<1>5. v = h
    <2>1. v = [j \in 0..(n + 1) |-> v[j]] /\ h = [j \in 0..(n + 1) |-> h[j]]
        OBVIOUS
    <2> HIDE DEF v, h
    <2> QED
        BY <1>4, <2>1
<1>6. Grows(what, f, v, n + 1)
    BY <1>5 DEF Grows
<1> QED
    BY <1>6

LEMMA GrowsExists == \A what, f : \A n \in Nat : \E u : Grows(what, f, u, n)
<1> TAKE what, f
<1> DEFINE Ns == {n \in Nat : \E u : Grows(what, f, u, n)}
<1>1. 0 \in Ns
    <2> DEFINE u == [j \in 0..0 |-> {}]
    <2>1. \A j \in 0..0 : j = 0
        OBVIOUS
    <2>2. Grows(what, f, u, 0)
        BY <2>1 DEF Grows
    <2> QED
        BY <2>2
<1>2. \A n \in Nat : n \in Ns => n + 1 \in Ns
    BY GrowsStep
<1> HIDE DEF Ns
<1>3. Nat \subseteq Ns
    BY <1>1, <1>2, Induction
<1> QED
    BY <1>3 DEF Ns

(* What was there at j stays, and only j is put in at j.                    *)
LEMMA Growing ==
    ASSUME NEW what \in {"boundaries", "scalars"}, NEW f, NEW n \in Nat
    PROVE  LET u == CHOOSE u : Grows(what, f, u, n) IN
           /\ u[n] \subseteq 1..n
           /\ \A j \in 1..n : j \in u[n] <=> j \in Grown(what, f, u[n] \cap 1..(j - 1), j)
<1>1. PICK u : u = CHOOSE w : Grows(what, f, w, n)
    OBVIOUS
<1>2. Grows(what, f, u, n)
    BY <1>1, GrowsExists, Zenon
<1>3. u[0] = {} /\ \A j \in 1..n : u[j] = Grown(what, f, u[j - 1], j)
    <2> DEFINE e == [j \in 0..n |-> IF j = 0 THEN {} ELSE Grown(what, f, u[j - 1], j)]
    <2>1. e[0] = {} /\ \A j \in 1..n : e[j] = Grown(what, f, u[j - 1], j)
        OBVIOUS
    <2>2. u = e
        BY <1>2 DEF Grows
    <2> QED
        BY ONLY <2>1, <2>2
<1>4. \A s, j : Grown(what, f, s, j) = s \/ Grown(what, f, s, j) = s \cup {j}
    BY DEF Grown
<1> DEFINE Ns == {m \in Nat : m \in 0..n => /\ u[m] \subseteq 1..m
                                            /\ \A k \in 0..m : u[k] = u[m] \cap 1..k}
<1>5. 0 \in Ns
    BY <1>3
<1>6. ASSUME NEW m \in Nat, m \in Ns PROVE m + 1 \in Ns
    <2> SUFFICES ASSUME m + 1 \in 0..n
                 PROVE  /\ u[m + 1] \subseteq 1..(m + 1)
                        /\ \A k \in 0..(m + 1) : u[k] = u[m + 1] \cap 1..k
        OBVIOUS
    <2>1. m + 1 \in 1..n /\ m \in 0..n /\ (m + 1) - 1 = m
        OBVIOUS
    <2>2. u[m] \subseteq 1..m /\ \A k \in 0..m : u[k] = u[m] \cap 1..k
        BY <1>6, <2>1
    <2>3. u[m + 1] = u[m] \/ u[m + 1] = u[m] \cup {m + 1}
        BY <1>3, <1>4, <2>1
    <2>4. u[m + 1] \subseteq 1..(m + 1)
        BY <2>2, <2>3
    <2>5. ASSUME NEW k \in 0..(m + 1) PROVE u[k] = u[m + 1] \cap 1..k
        <3>1. CASE k = m + 1
            BY <2>4, <3>1
        <3>2. CASE k # m + 1
            <4>1. k \in 0..m /\ m + 1 \notin 1..k
                BY <3>2
            <4> QED
                BY <2>2, <2>3, <4>1
        <3> QED
            BY <3>1, <3>2
    <2> QED
        BY <2>4, <2>5
<1> HIDE DEF Ns
<1>7. Nat \subseteq Ns
    BY <1>5, <1>6, Induction
<1>8. u[n] \subseteq 1..n /\ \A k \in 0..n : u[k] = u[n] \cap 1..k
    <2>1. n \in Ns /\ n \in 0..n
        BY <1>7
    <2> QED
        BY <2>1 DEF Ns
<1>9. ASSUME NEW j \in 1..n
      PROVE  j \in u[n] <=> j \in Grown(what, f, u[n] \cap 1..(j - 1), j)
    <2>1. j - 1 \in 0..n /\ j \in 0..n /\ j \in 1..j
        OBVIOUS
    <2>2. u[j] = Grown(what, f, u[n] \cap 1..(j - 1), j)
        BY <1>3, <1>8, <2>1
    <2>3. j \in u[n] <=> j \in u[j]
        BY <1>8, <2>1
    <2> QED
        BY <2>2, <2>3
<1> QED
    BY <1>1, <1>8, <1>9

LEMMA BoundariesAre ==
    ASSUME NEW f, Len(f.text) \in Nat
    PROVE  /\ Boundaries(f) \subseteq 1..Len(f.text)
           /\ \A j \in 1..Len(f.text) :
                 j \in Boundaries(f) <=> j = 1 \/ \E p \in Boundaries(f) : p < j /\ After(f, p) = j
<1>1. PICK n \in Nat : n = Len(f.text)
    OBVIOUS
<1>2. PICK u : u = CHOOSE w : Grows("boundaries", f, w, n)
    OBVIOUS
<1>3. Boundaries(f) = u[n]
    BY <1>1, <1>2 DEF Boundaries, Grows, Grown
<1>4. /\ u[n] \subseteq 1..n
      /\ \A j \in 1..n : j \in u[n] <=> j \in Grown("boundaries", f, u[n] \cap 1..(j - 1), j)
    BY <1>2, Growing
<1>5. ASSUME NEW j \in 1..n
      PROVE  j \in Grown("boundaries", f, u[n] \cap 1..(j - 1), j)
                <=> j = 1 \/ \E p \in u[n] : p < j /\ After(f, p) = j
    <2>1. j \notin u[n] \cap 1..(j - 1) /\ \A p \in u[n] : p \in 1..(j - 1) <=> p < j
        BY <1>4
    <2> QED
        BY <2>1 DEF Grown
<1> QED
    BY <1>1, <1>3, <1>4, <1>5

LEMMA ScalarLinesAre ==
    ASSUME NEW t, Len(t) \in Nat
    PROVE  \A b \in LineStarts(t) :
              b \in ScalarLines(t) <=> \E h \in LineStarts(t) \ ScalarLines(t) : HeaderOf(t, h, b)
<1>1. PICK n \in Nat : n = Len(t)
    OBVIOUS
<1> DEFINE f == [text |-> t]
<1>2. f.text = t
    OBVIOUS
<1> HIDE DEF f
<1>3. PICK u : u = CHOOSE w : Grows("scalars", f, w, n)
    OBVIOUS
<1>4. ScalarLines(t) = u[n]
    BY <1>1, <1>2, <1>3 DEF ScalarLines, Grows, Grown
<1>5. /\ u[n] \subseteq 1..n
      /\ \A j \in 1..n : j \in u[n] <=> j \in Grown("scalars", f, u[n] \cap 1..(j - 1), j)
    BY <1>3, Growing
<1>6. \A b \in LineStarts(t) : b \in 1..n
    BY <1>1 DEF LineStarts
<1>7. ASSUME NEW b \in LineStarts(t)
      PROVE  b \in Grown("scalars", f, u[n] \cap 1..(b - 1), b)
                <=> \E h \in LineStarts(t) \ u[n] : HeaderOf(t, h, b)
    <2>1. b \in 1..n /\ b \notin u[n] \cap 1..(b - 1)
        BY <1>6
    <2>2. \A h \in LineStarts(t) : HeaderOf(t, h, b) => h \in 1..(b - 1)
        BY <1>6, <2>1 DEF HeaderOf
    <2> QED
        BY <1>2, <2>1, <2>2 DEF Grown
<1> QED
    BY <1>4, <1>5, <1>6, <1>7

-----------------------------------------------------------------------------
(* Openers and regions of a text                                            *)

LEMMA TextIs ==
    ASSUME NEW f \in Files
    PROVE  /\ f.text \in Seq(Symbol) /\ Len(f.text) \in Nat /\ DOMAIN f.text = 1..Len(f.text)
  BY FilesAssumption, LenProperties

LEMMA MarkIs ==
    ASSUME NEW m \in Mark
    PROVE  Len(m) \in Nat \ {0} /\ \A k \in 1..Len(m) : m[k] # NL /\ m[k] # "\\"
  <1>1. m \in Seq(Delimiter \ {"\n"}) /\ m # <<>>
    BY DEF Mark
  <1>2. Len(m) \in Nat \ {0}
    BY <1>1, EmptySeq, LenProperties
  <1>3. \A k \in 1..Len(m) : m[k] \in Delimiter \ {"\n"}
    BY <1>1, ElementOfSeq
  <1>4. NL \notin Delimiter \ {"\n"} /\ "\\" \notin Delimiter
    BY DEF Delimiter, NL
  <1> QED BY <1>2, <1>3, <1>4

LEMMA MarkHere ==
    ASSUME NEW t, NEW m \in Mark, NEW j \in Nat, Len(t) \in Nat, Has(t, m, j)
    PROVE  /\ Len(m) \in Nat \ {0} /\ j + Len(m) - 1 <= Len(t)
           /\ \A k \in j..(j + Len(m) - 1) : t[k] # NL /\ t[k] # "\\"
  <1>1. Len(m) \in Nat \ {0} /\ \A k \in 1..Len(m) : m[k] # NL /\ m[k] # "\\"
    BY MarkIs
  <1>2. ASSUME NEW k \in j..(j + Len(m) - 1) PROVE t[k] # NL /\ t[k] # "\\"
    <2>1. PICK x \in 1..Len(m) : x = k - j + 1
      BY <1>1
    <2>2. t[j + x - 1] = m[x] /\ j + x - 1 = k
      BY <2>1, <1>1 DEF Has
    <2> QED BY <1>1, <2>1, <2>2
  <1> QED BY <1>1, <1>2 DEF Has

LEMMA TameIs ==
    ASSUME NEW r \in Tame
    PROVE  /\ r \in RegionType /\ r # Code /\ r # RegexClass /\ r # Nested /\ r # ScalarText
           /\ r.ends \in Mark \cup {<<NL>>} /\ Len(r.ends) \in Nat \ {0}
           /\ r.body \in {"copy", "blank", "blank but tabs"}
  <1>1. /\ r \in RegionType /\ r.ends \in Mark \cup {<<NL>>} /\ r.nests \in {<<>>, <<"[">>}
        /\ r.body # "keep"
    BY DEF Tame
  <1>2. Len(r.ends) \in Nat \ {0}
    <2>1. CASE r.ends \in Mark
      BY <2>1, MarkIs
    <2>2. CASE r.ends = <<NL>>
      BY <2>2
    <2> QED BY <1>1, <2>1, <2>2
  <1>3. r # Code
    BY <1>2 DEF Code, Region
  <1>4. r # RegexClass
    <2>1. <<"]">> \notin Mark /\ <<"]">> # <<NL>>
      BY DEF Mark, NL
    <2> QED BY <1>1, <2>1 DEF RegexClass, Escaped, Region
  <1>5. r # Nested
    <2>1. Nested.nests = SlashStar
      BY DEF Nested, BlockNoise, Region
    <2>2. SlashStar # <<>> /\ SlashStar # <<"[">>
      BY DEF SlashStar
    <2> QED BY <1>1, <2>1, <2>2
  <1>6. r # ScalarText
    BY <1>1 DEF ScalarText, Region
  <1>7. r.body \in {"copy", "blank", "blank but tabs"}
    BY <1>1 DEF RegionType
  <1> QED BY <1>1, <1>2, <1>3, <1>4, <1>5, <1>6, <1>7

LEMMA PlainOpens ==
    ASSUME NEW f \in Files, Plain(f)
    PROVE  LanguageOf(f.ext).opens \in Seq(Simple)
  <1>1. LanguageOf(f.ext) # Rust
    BY DEF Plain, Rust, Language
  <1> QED BY <1>1, SimpleTables

(* The first opener that matches.                                           *)
LEMMA OpenerIs ==
    ASSUME NEW f \in Files, Plain(f), NEW j \in 1..Len(f.text), NEW o \in OpenerAt(f, j)
    PROVE  /\ OpenerAt(f, j) = {o} /\ ~InScalarLine(f, j)
           /\ o \in Simple /\ Len(o.tok) \in Nat \ {0} /\ j + Len(o.tok) \in (j + 1)..(Len(f.text) + 1)
           /\ \A k \in j..(j + Len(o.tok) - 1) : f.text[k] # NL
  <1> DEFINE opens == LanguageOf(f.ext).opens
             ks == Matching(opens, f.text, j)
  <1>1. /\ opens \in Seq(Simple) /\ Len(f.text) \in Nat
        /\ Len(opens) \in Nat /\ DOMAIN opens = 1..Len(opens)
    BY PlainOpens, TextIs, LenProperties
  <1>2. ks # {} /\ ~InScalarLine(f, j) /\ o = opens[First(ks)] /\ OpenerAt(f, j) = {o}
    BY DEF OpenerAt
  <1>3. ks \subseteq 1..Len(opens)
    BY <1>1 DEF Matching
  <1>4. First(ks) \in ks
    <2> HIDE DEF ks
    <2>1. ks \subseteq Nat
      BY <1>3
    <2> QED BY <2>1, <1>2, LeastOf
  <1>5. o \in Simple
    <2>1. First(ks) \in 1..Len(opens)
      BY <1>3, <1>4
    <2> HIDE DEF opens, ks
    <2> QED BY <1>1, <1>2, <2>1, ElementOfSeq
  <1>6. Has(f.text, o.tok, j)
    BY <1>2, <1>4 DEF Matching
  <1>7. o.tok \in Mark
    BY <1>5 DEF Simple
  <1>8. /\ Len(o.tok) \in Nat \ {0} /\ j + Len(o.tok) - 1 <= Len(f.text)
        /\ \A k \in j..(j + Len(o.tok) - 1) : f.text[k] # NL
    BY <1>1, <1>6, <1>7, MarkHere
  <1>9. j + Len(o.tok) \in (j + 1)..(Len(f.text) + 1)
    BY <1>1, <1>8
  <1> QED BY <1>2, <1>5, <1>8, <1>9

-----------------------------------------------------------------------------
(* Where a region ends                                                      *)

LEMMA StopIs ==
    ASSUME NEW f \in Files, NEW p \in 1..(Len(f.text) + 1)
    PROVE  /\ Stop(f, p) \in p..(Len(f.text) + 1)
           /\ \A k \in p..(Stop(f, p) - 1) : LanguageOf(f.ext).byLine => f.text[k] # NL
           /\ Stop(f, p) = Len(f.text) + 1
                \/ (LanguageOf(f.ext).byLine /\ f.text[Stop(f, p)] = NL)
  <1>1. Len(f.text) \in Nat
    BY TextIs
  <1>2. CASE LanguageOf(f.ext).byLine
    <2>1. Stop(f, p) = LineEnd(f.text, p)
      BY <1>2 DEF Stop
    <2>2. /\ LineEnd(f.text, p) \in p..(Len(f.text) + 1)
          /\ LineEnd(f.text, p) = Len(f.text) + 1 \/ f.text[LineEnd(f.text, p)] = NL
          /\ \A k \in p..(LineEnd(f.text, p) - 1) : f.text[k] # NL
      BY <1>1, LineEndIs
    <2>3. /\ Stop(f, p) \in p..(Len(f.text) + 1)
          /\ Stop(f, p) = Len(f.text) + 1 \/ f.text[Stop(f, p)] = NL
          /\ \A k \in p..(Stop(f, p) - 1) : f.text[k] # NL
      BY <2>1, <2>2
    <2> QED BY <1>2, <2>3, Zenon
  <1>3. CASE ~LanguageOf(f.ext).byLine
    <2>1. Stop(f, p) = Len(f.text) + 1
      BY <1>3 DEF Stop
    <2>2. Stop(f, p) \in p..(Len(f.text) + 1)
      BY <1>1, <2>1
    <2> QED BY <1>3, <2>1, <2>2, Zenon
  <1> QED BY <1>2, <1>3

LEMMA RegionEndIs ==
    ASSUME NEW f \in Files, NEW r \in Tame, NEW p \in 1..(Len(f.text) + 1)
    PROVE  /\ RegionEnd(f, r, p)[1] \in p..(Len(f.text) + 1)
           /\ RegionEnd(f, r, p)[2] \in RegionEnd(f, r, p)[1]..(Len(f.text) + 1)
  <1> DEFINE ends == EndsOf(f.text, r, p)
  <1>1. Len(f.text) \in Nat /\ Stop(f, p) \in p..(Len(f.text) + 1) /\ Len(r.ends) \in Nat \ {0}
    BY TextIs, StopIs, TameIs
  <1>2. ends \subseteq Nat /\ \A j \in ends : j \in p..Len(f.text) /\ j + Len(r.ends) - 1 <= Len(f.text)
    <2>1. ASSUME NEW j \in ends
          PROVE  j \in p..Len(f.text) /\ j + Len(r.ends) - 1 <= Len(f.text)
      <3>1. j \in p..Len(f.text) /\ Ends(f.text, r, p, j)
        BY DEF EndsOf
      <3>2. Has(f.text, r.ends, j)
        BY <3>1 DEF Ends
      <3> QED BY <3>1, <3>2 DEF Has
    <2>2. ends \subseteq Nat
      <3> HIDE DEF ends
      <3> QED BY <2>1, <1>1
    <2> QED BY <2>1, <2>2
  <1>3. CASE ends # {} /\ First(ends) < Stop(f, p)
    <2>1. First(ends) \in ends
      <3> HIDE DEF ends
      <3> QED BY <1>2, <1>3, LeastOf
    <2>2. PICK e \in ends : e = First(ends)
      BY <2>1
    <2>3. RegionEnd(f, r, p) = <<e, e + Len(r.ends)>>
      BY <1>3, <2>2 DEF RegionEnd
    <2>4. e \in p..(Len(f.text) + 1) /\ e + Len(r.ends) \in e..(Len(f.text) + 1)
      BY <1>1, <1>2, <2>2
    <2> QED BY <2>3, <2>4
  <1>4. CASE ~(ends # {} /\ First(ends) < Stop(f, p))
    <2>1. RegionEnd(f, r, p) = <<Stop(f, p), Stop(f, p)>>
      BY <1>4 DEF RegionEnd
    <2> QED BY <1>1, <2>1
  <1> QED BY <1>3, <1>4

(* No region ends before a closer or, in a language read by lines, a break.   *)
LEMMA NotBefore ==
    ASSUME NEW f \in Files, NEW r \in Tame, NEW p \in 1..(Len(f.text) + 1),
           NEW x \in p..(Len(f.text) + 1),
           \A k \in p..(x - 1) : /\ ~Ends(f.text, r, p, k)
                                 /\ LanguageOf(f.ext).byLine => f.text[k] # NL
    PROVE  x <= RegionEnd(f, r, p)[1] /\ x <= Stop(f, p)
  <1> DEFINE ends == EndsOf(f.text, r, p)
  <1>1. Len(f.text) \in Nat /\ Stop(f, p) \in p..(Len(f.text) + 1)
    BY TextIs, StopIs
  <1>2. x <= Stop(f, p)
    <2> SUFFICES ASSUME Stop(f, p) < x PROVE FALSE
      BY <1>1
    <2>1. Stop(f, p) \in p..(x - 1) /\ Stop(f, p) # Len(f.text) + 1
      BY <1>1
    <2> QED BY <2>1, StopIs
  <1>3. ends \subseteq Nat /\ \A e \in ends : x <= e
    <2>1. \A e \in ends : e \in p..Len(f.text) /\ Ends(f.text, r, p, e)
      BY DEF EndsOf
    <2> QED BY <2>1
  <1>4. CASE ends # {} /\ First(ends) < Stop(f, p)
    <2>1. First(ends) \in ends
      <3> HIDE DEF ends
      <3> QED BY <1>3, <1>4, LeastOf
    <2>2. RegionEnd(f, r, p)[1] = First(ends)
      BY <1>4 DEF RegionEnd
    <2> QED BY <1>2, <1>3, <2>1, <2>2
  <1>5. CASE ~(ends # {} /\ First(ends) < Stop(f, p))
    <2>1. RegionEnd(f, r, p)[1] = Stop(f, p)
      BY <1>5 DEF RegionEnd
    <2> QED BY <1>2, <2>1
  <1> QED BY <1>4, <1>5

LEMMA ClosedAt ==
    ASSUME NEW f \in Files, NEW r \in Tame, NEW p \in 1..(Len(f.text) + 1), NEW x \in p..Len(f.text),
           \A k \in p..(x - 1) : /\ ~Ends(f.text, r, p, k)
                                 /\ LanguageOf(f.ext).byLine => f.text[k] # NL,
           Ends(f.text, r, p, x), LanguageOf(f.ext).byLine => f.text[x] # NL
    PROVE  RegionEnd(f, r, p) = <<x, x + Len(r.ends)>>
  <1> DEFINE ends == EndsOf(f.text, r, p)
  <1>1. Len(f.text) \in Nat /\ Stop(f, p) \in p..(Len(f.text) + 1)
    BY TextIs, StopIs
  <1>2. x < Stop(f, p)
    <2>1. x <= Stop(f, p)
      BY <1>1, NotBefore
    <2>2. x # Stop(f, p)
      BY <1>1, StopIs
    <2> QED BY <1>1, <2>1, <2>2
  <1>3. x \in ends /\ ends \subseteq Nat
    BY DEF EndsOf
  <1>4. IsFirst(x, ends)
    <2> SUFFICES ASSUME NEW e \in ends PROVE x <= e
      BY DEF IsFirst
    <2>1. e \in p..Len(f.text) /\ Ends(f.text, r, p, e)
      BY DEF EndsOf
    <2> QED BY <2>1
  <1>5. First(ends) = x
    <2> HIDE DEF ends
    <2> QED BY <1>3, <1>4, FirstIs
  <1> QED BY <1>2, <1>3, <1>5 DEF RegionEnd

LEMMA StoppedAt ==
    ASSUME NEW f \in Files, NEW r \in Tame, NEW p \in 1..(Len(f.text) + 1), NEW x \in p..Len(f.text),
           \A k \in p..(x - 1) : /\ ~Ends(f.text, r, p, k)
                                 /\ LanguageOf(f.ext).byLine => f.text[k] # NL,
           LanguageOf(f.ext).byLine, f.text[x] = NL
    PROVE  RegionEnd(f, r, p) = <<x, x>>
  <1> DEFINE ends == EndsOf(f.text, r, p)
  <1>1. Len(f.text) \in Nat /\ Stop(f, p) \in p..(Len(f.text) + 1)
    BY TextIs, StopIs
  <1>2. x = Stop(f, p)
    <2>1. x <= Stop(f, p)
      BY <1>1, NotBefore
    <2>2. ~(x < Stop(f, p))
      BY <1>1, StopIs
    <2> QED BY <1>1, <2>1, <2>2
  <1>3. ends \subseteq Nat /\ \A e \in ends : x <= e
    <2>1. \A e \in ends : e \in p..Len(f.text) /\ Ends(f.text, r, p, e)
      BY DEF EndsOf
    <2> QED BY <2>1
  <1>4. ~(ends # {} /\ First(ends) < Stop(f, p))
    <2> SUFFICES ASSUME ends # {}, First(ends) < Stop(f, p) PROVE FALSE
      OBVIOUS
    <2>1. First(ends) \in ends
      <3> HIDE DEF ends
      <3> QED BY <1>3, LeastOf
    <2>2. PICK e \in ends : e = First(ends)
      BY <2>1
    <2> QED BY <1>2, <1>3, <2>2
  <1> QED BY <1>2, <1>4 DEF RegionEnd

-----------------------------------------------------------------------------
(* A text is a succession of cells: from a boundary to what comes after.     *)
At(f, j) == j \in Boundaries(f) \cup {Len(f.text) + 1}

LEMMA AfterIs ==
    ASSUME NEW f \in Files, Plain(f), NEW j \in 1..Len(f.text)
    PROVE  /\ After(f, j) \in (j + 1)..(Len(f.text) + 1)
           /\ OpenerAt(f, j) = {} => After(f, j) = j + 1
           /\ \A o \in OpenerAt(f, j) :
                 /\ After(f, j) = RegionEnd(f, o.region, j + Len(o.tok))[2]
                 /\ RegionEnd(f, o.region, j + Len(o.tok))[1] <= After(f, j)
                 /\ j + Len(o.tok) <= RegionEnd(f, o.region, j + Len(o.tok))[1]
                 /\ RegionEnd(f, o.region, j + Len(o.tok))[1] \in Nat
  <1>1. Len(f.text) \in Nat
    BY TextIs
  <1>2. CASE OpenerAt(f, j) = {}
    <2>1. After(f, j) = j + 1
      BY <1>2 DEF After
    <2> QED BY <1>1, <1>2, <2>1
  <1>3. ASSUME NEW o \in OpenerAt(f, j)
        PROVE  /\ After(f, j) \in (j + 1)..(Len(f.text) + 1)
               /\ After(f, j) = RegionEnd(f, o.region, j + Len(o.tok))[2]
               /\ RegionEnd(f, o.region, j + Len(o.tok))[1] <= After(f, j)
               /\ j + Len(o.tok) <= RegionEnd(f, o.region, j + Len(o.tok))[1]
               /\ RegionEnd(f, o.region, j + Len(o.tok))[1] \in Nat
    <2>1. /\ OpenerAt(f, j) = {o} /\ o.region \in Tame
          /\ Len(o.tok) \in Nat \ {0} /\ j + Len(o.tok) \in (j + 1)..(Len(f.text) + 1)
      BY OpenerIs DEF Simple
    <2>2. After(f, j) = RegionEnd(f, o.region, j + Len(o.tok))[2]
      <3>1. (CHOOSE x \in OpenerAt(f, j) : TRUE) = o
        BY <2>1
      <3> QED BY <2>1, <3>1 DEF After
    <2>3. PICK p \in 1..(Len(f.text) + 1) : p = j + Len(o.tok)
      BY <2>1
    <2>4. /\ RegionEnd(f, o.region, p)[1] \in p..(Len(f.text) + 1)
          /\ RegionEnd(f, o.region, p)[2] \in RegionEnd(f, o.region, p)[1]..(Len(f.text) + 1)
      BY <2>1, RegionEndIs
    <2> QED BY <1>1, <2>1, <2>2, <2>3, <2>4
  <1> QED BY <1>2, <1>3

LEMMA AtAfter ==
    ASSUME NEW f \in Files, Plain(f), NEW j \in Boundaries(f)
    PROVE  j \in 1..Len(f.text) /\ At(f, After(f, j))
  <1>1. Len(f.text) \in Nat /\ j \in 1..Len(f.text)
    BY TextIs, BoundariesAre
  <1>2. After(f, j) \in (j + 1)..(Len(f.text) + 1)
    BY <1>1, AfterIs
  <1>3. CASE After(f, j) = Len(f.text) + 1
    BY <1>1, <1>3 DEF At
  <1>4. CASE After(f, j) # Len(f.text) + 1
    <2>1. PICK x \in 1..Len(f.text) : x = After(f, j) /\ j < x
      BY <1>1, <1>2, <1>4
    <2>2. x \in Boundaries(f)
      BY <1>1, <2>1, BoundariesAre
    <2> QED BY <1>1, <2>1, <2>2 DEF At
  <1> QED BY <1>3, <1>4

LEMMA Apart ==
    ASSUME NEW f \in Files, Plain(f), NEW a \in Boundaries(f), NEW b \in Boundaries(f), a < b
    PROVE  After(f, a) <= b
  <1> DEFINE Bad == {k \in Boundaries(f) : \E j \in Boundaries(f) : j < k /\ k < After(f, j)}
  <1>1. /\ Len(f.text) \in Nat /\ Boundaries(f) \subseteq 1..Len(f.text)
        /\ \A j \in Boundaries(f) : After(f, j) \in Nat
    <2>1. Len(f.text) \in Nat /\ Boundaries(f) \subseteq 1..Len(f.text)
      BY TextIs, BoundariesAre
    <2>2. ASSUME NEW j \in Boundaries(f) PROVE After(f, j) \in Nat
      <3>1. After(f, j) \in (j + 1)..(Len(f.text) + 1)
        BY <2>1, AfterIs
      <3> QED BY <2>1, <3>1
    <2> QED BY <2>1, <2>2
  <1>2. ASSUME Bad # {} PROVE FALSE
    <2>1. Bad \subseteq Nat
      BY <1>1
    <2>2. PICK k \in Bad : IsFirst(k, Bad)
      <3> HIDE DEF Bad
      <3> QED BY <1>2, <2>1, LeastOf
    <2>3. PICK j \in Boundaries(f) : j < k /\ k < After(f, j)
      OBVIOUS
    <2>4. k \in 1..Len(f.text) /\ j \in 1..Len(f.text) /\ k # 1
      BY <1>1, <2>3
    <2>5. PICK p \in Boundaries(f) : p < k /\ After(f, p) = k
      BY <1>1, <2>4, BoundariesAre
    <2>6. \A m \in Bad : k <= m
      BY <2>2 DEF IsFirst
    <2>7. CASE p = j
      BY <1>1, <2>3, <2>5, <2>7
    <2>8. CASE j < p
      <3>1. p \in Bad
        BY <1>1, <2>3, <2>4, <2>5, <2>8
      <3> QED BY <1>1, <2>4, <2>5, <2>6, <3>1
    <2>9. CASE p < j
      <3>1. j \in Bad
        BY <1>1, <2>3, <2>4, <2>5, <2>9
      <3> QED BY <1>1, <2>3, <2>4, <2>6, <3>1
    <2> QED BY <1>1, <2>4, <2>5, <2>7, <2>8, <2>9
  <1>3. a \in 1..Len(f.text) /\ b \in 1..Len(f.text)
    BY <1>1
  <1>4. b \notin Bad
    BY <1>2
  <1> QED BY <1>1, <1>3, <1>4

(* What is in a cell is inside of a comment when it is inside of its own.    *)
LEMMA Cells ==
    ASSUME NEW f \in Files, Plain(f), NEW j \in Boundaries(f), NEW k \in j..(After(f, j) - 1)
    PROVE  k \in CommentInsides(f) <=> \E o \in OpenerAt(f, j) : k \in InsideOf(f, o, j)
  <1>1. Len(f.text) \in Nat /\ Boundaries(f) \subseteq 1..Len(f.text)
    BY TextIs, BoundariesAre
  <1>2. ASSUME NEW b \in Boundaries(f), NEW o \in OpenerAt(f, b), k \in InsideOf(f, o, b)
        PROVE  b = j
    <2>1. /\ After(f, b) \in (b + 1)..(Len(f.text) + 1) /\ After(f, j) \in (j + 1)..(Len(f.text) + 1)
          /\ b \in 1..Len(f.text) /\ j \in 1..Len(f.text) /\ k \in Nat
      BY <1>1, AfterIs
    <2>2. PICK p : p = b + Len(o.tok)
      OBVIOUS
    <2>3. PICK e : e = RegionEnd(f, o.region, p)[1]
      OBVIOUS
    <2>4. e \in Nat /\ e <= After(f, b) /\ p \in Nat /\ b < p
      <3>1. e \in Nat /\ e <= After(f, b)
        BY <2>1, <2>2, <2>3, AfterIs
      <3>2. Len(o.tok) \in Nat \ {0}
        BY <2>1, OpenerIs
      <3> QED BY <2>1, <2>2, <3>1, <3>2
    <2>5. k \in p..(e - 1)
      BY <1>2, <2>2, <2>3 DEF InsideOf
    <2>6. b < k /\ k < After(f, b) /\ j <= k /\ k < After(f, j)
      BY <2>1, <2>4, <2>5
    <2>7. ~(b < j)
      <3> SUFFICES ASSUME b < j PROVE FALSE
        OBVIOUS
      <3>1. After(f, b) <= j
        BY Apart
      <3> QED BY <2>1, <2>6, <3>1
    <2>8. ~(j < b)
      <3> SUFFICES ASSUME j < b PROVE FALSE
        OBVIOUS
      <3>1. After(f, j) <= b
        BY Apart
      <3> QED BY <2>1, <2>6, <3>1
    <2> QED BY <2>1, <2>7, <2>8
  <1>3. k \in CommentInsides(f)
          <=> \E b \in Boundaries(f) : \E o \in OpenerAt(f, b) : k \in InsideOf(f, o, b)
    BY DEF CommentInsides
  <1> QED BY <1>2, <1>3

LEMMA CodeCell ==
    ASSUME NEW f \in Files, Plain(f), NEW j \in Boundaries(f), OpenerAt(f, j) = {}
    PROVE  j \notin CommentInsides(f) /\ After(f, j) = j + 1
  <1>1. j \in 1..Len(f.text)
    BY AtAfter
  <1>2. After(f, j) = j + 1
    BY <1>1, AfterIs
  <1>3. j \in j..(After(f, j) - 1)
    BY <1>1, <1>2
  <1> QED BY <1>2, <1>3, Cells

LEMMA RegionCell ==
    ASSUME NEW f \in Files, Plain(f), NEW j \in Boundaries(f), NEW o \in OpenerAt(f, j),
           NEW p, p = j + Len(o.tok), NEW k \in j..(After(f, j) - 1)
    PROVE  k \in CommentInsides(f)
              <=> o.region.body # "copy" /\ p <= k /\ k < RegionEnd(f, o.region, p)[1]
  <1>1. j \in 1..Len(f.text)
    BY AtAfter
  <1>2. OpenerAt(f, j) = {o} /\ o.region \in Tame /\ Len(o.tok) \in Nat
    BY <1>1, OpenerIs DEF Simple
  <1>3. o.region.body # "keep"
    BY <1>2 DEF Tame
  <1>4. k \in CommentInsides(f) <=> k \in InsideOf(f, o, j)
    BY <1>2, Cells
  <1>5. RegionEnd(f, o.region, p)[1] \in Nat /\ p \in Nat /\ k \in Nat
    <2>1. RegionEnd(f, o.region, j + Len(o.tok))[1] \in Nat
      BY <1>1, AfterIs
    <2> QED BY <1>1, <1>2, <2>1
  <1>6. CASE o.region.body = "copy"
    BY <1>4, <1>6 DEF InsideOf
  <1>7. CASE o.region.body # "copy"
    <2>1. InsideOf(f, o, j) = p..(RegionEnd(f, o.region, p)[1] - 1)
      BY <1>3, <1>7 DEF InsideOf
    <2> QED BY <1>4, <1>5, <1>7, <2>1
  <1> QED BY <1>6, <1>7

-----------------------------------------------------------------------------
(* The block scalar the lexer takes to be open at x, by its header.          *)
Header(t, h, x) ==
    /\ h \in LineStarts(t) \ ScalarLines(t) /\ h < x /\ OpensScalar(t, h)
    /\ \A c \in LineStarts(t) : h < c /\ c < x => Deep(t, h, c)
Tracks(t, s, x) ==
    /\ s \in Nat
    /\ s = 0 => \A h : ~Header(t, h, x)
    /\ s # 0 => \E h : Header(t, h, x) /\ s = Indent(t, h) + 1

LEMMA OneHeader ==
    ASSUME NEW t, Len(t) \in Nat, NEW x \in Nat, NEW h, NEW g, Header(t, h, x), Header(t, g, x)
    PROVE  h = g
  <1>1. h \in Nat /\ g \in Nat /\ h \in LineStarts(t) /\ g \in LineStarts(t)
    BY DEF Header, LineStarts
  <1>2. ASSUME NEW a, NEW b, Header(t, a, x), Header(t, b, x), a \in Nat, b \in Nat, a < b
        PROVE  FALSE
    <2>1. \A c \in LineStarts(t) : a < c /\ c <= b => Deep(t, a, c)
      <3> SUFFICES ASSUME NEW c \in LineStarts(t), a < c, c <= b PROVE Deep(t, a, c)
        OBVIOUS
      <3>1. c \in Nat /\ b < x
        BY <1>2 DEF Header, LineStarts
      <3>2. c < x
        BY <1>2, <3>1
      <3> QED BY <1>2, <3>2 DEF Header
    <2>2. a \in LineStarts(t) \ ScalarLines(t) /\ b \in LineStarts(t) \ ScalarLines(t)
      BY <1>2 DEF Header
    <2>3. HeaderOf(t, a, b)
      BY <1>2, <2>1 DEF HeaderOf, Header
    <2> QED BY <2>2, <2>3, ScalarLinesAre
  <1>3. ~(h < g) /\ ~(g < h)
    BY <1>1, <1>2
  <1> QED BY <1>1, <1>3

LEMMA Decides ==
    ASSUME NEW t, Len(t) \in Nat, NEW b \in LineStarts(t), NEW s, Tracks(t, s, b)
    PROVE  b \in ScalarLines(t) <=> s # 0 /\ (BlankLine(t, b) \/ Indent(t, b) >= s)
  <1>1. b \in 1..Len(t)
    BY DEF LineStarts
  <1>2. ASSUME NEW h, Header(t, h, b)
        PROVE  /\ HeaderOf(t, h, b) <=> Deep(t, h, b)
               /\ h \in LineStarts(t) \ ScalarLines(t) /\ h \in 1..Len(t)
    <2>1. ASSUME Deep(t, h, b), NEW c \in LineStarts(t), h < c, c <= b PROVE Deep(t, h, c)
      <3>1. c \in Nat
        BY DEF LineStarts
      <3>2. c = b \/ c < b
        BY <1>1, <2>1, <3>1
      <3> QED BY <1>2, <2>1, <3>2 DEF Header
    <2>2. h < b /\ OpensScalar(t, h) /\ h \in LineStarts(t) \ ScalarLines(t)
      BY <1>2 DEF Header
    <2>3. Deep(t, h, b) => HeaderOf(t, h, b)
      BY <2>1, <2>2 DEF HeaderOf
    <2>4. HeaderOf(t, h, b) => Deep(t, h, b)
      BY <1>1, <2>2 DEF HeaderOf
    <2> QED BY <2>2, <2>3, <2>4 DEF LineStarts
  <1>3. ASSUME NEW h \in LineStarts(t) \ ScalarLines(t), HeaderOf(t, h, b)
        PROVE  Header(t, h, b)
    <2>1. ASSUME NEW c \in LineStarts(t), h < c, c < b PROVE Deep(t, h, c)
      <3>1. c \in Nat
        BY DEF LineStarts
      <3>2. c <= b
        BY <1>1, <2>1, <3>1
      <3> QED BY <1>3, <2>1, <3>2 DEF HeaderOf
    <2> QED BY <1>3, <2>1 DEF Header, HeaderOf
  <1>4. b \in ScalarLines(t) <=> \E h : Header(t, h, b) /\ Deep(t, h, b)
    <2>1. b \in ScalarLines(t) <=> \E h \in LineStarts(t) \ ScalarLines(t) : HeaderOf(t, h, b)
      BY ScalarLinesAre
    <2> QED BY <1>2, <1>3, <2>1
  <1>5. CASE s = 0
    BY <1>4, <1>5 DEF Tracks
  <1>6. CASE s # 0
    <2>1. PICK h : Header(t, h, b) /\ s = Indent(t, h) + 1
      BY <1>6 DEF Tracks
    <2>2. b \in ScalarLines(t) <=> Deep(t, h, b)
      BY <1>1, <1>4, <2>1, OneHeader
    <2>3. Indent(t, h) \in Nat /\ Indent(t, b) \in Nat
      BY <1>1, <1>2, <2>1, IndentIs
    <2>4. Indent(t, b) > Indent(t, h) <=> Indent(t, b) >= s
      BY <2>1, <2>3
    <2> QED BY <1>6, <2>2, <2>4 DEF Deep
  <1> QED BY <1>5, <1>6

(* On the way through a line nothing changes.                               *)
LEMMA TracksOn ==
    ASSUME NEW t, NEW y \in Nat, NEW x \in Nat, y <= x, NEW s, Tracks(t, s, y),
           \A c \in LineStarts(t) : c < x => c < y
    PROVE  Tracks(t, s, x)
  <1>1. \A h : Header(t, h, y) <=> Header(t, h, x)
    <2>1. \A c \in LineStarts(t) : c \in Nat
      BY DEF LineStarts
    <2>2. \A c \in LineStarts(t) : c < x <=> c < y
      BY <2>1
    <2> QED BY <2>2 DEF Header
  <1> QED BY <1>1 DEF Tracks

LEMMA TracksIn ==
    ASSUME NEW t, Len(t) \in Nat, NEW b \in LineStarts(t), NEW x \in Nat, b < x, NEW s,
           Tracks(t, s, b), b \in ScalarLines(t), \A c \in LineStarts(t) : c < x => c <= b
    PROVE  Tracks(t, s, x)
  <1>1. \A c \in LineStarts(t) : c \in Nat /\ (c < x <=> c <= b)
    BY DEF LineStarts
  <1>2. s # 0
    BY Decides
  <1>3. PICK h : Header(t, h, b) /\ s = Indent(t, h) + 1
    BY <1>2 DEF Tracks
  <1>4. Deep(t, h, b)
    <2>1. PICK g \in LineStarts(t) \ ScalarLines(t) : HeaderOf(t, g, b)
      BY ScalarLinesAre
    <2>2. Header(t, g, b)
      BY <1>1, <2>1 DEF HeaderOf, Header
    <2>3. g = h
      BY <1>1, <1>3, <2>2, OneHeader
    <2> QED BY <1>1, <2>1, <2>3 DEF HeaderOf
  <1>5. Header(t, h, x)
    <2>1. h < b /\ h \in LineStarts(t)
      BY <1>3 DEF Header
    <2>2. h < x
      BY <1>1, <2>1
    <2>3. ASSUME NEW c \in LineStarts(t), h < c, c < x PROVE Deep(t, h, c)
      <3>1. c = b \/ c < b
        BY <1>1, <2>3
      <3> QED BY <1>3, <1>4, <2>3, <3>1 DEF Header
    <2> QED BY <1>3, <2>2, <2>3 DEF Header
  <1> QED BY <1>2, <1>3, <1>5 DEF Tracks

LEMMA TracksOut ==
    ASSUME NEW t, Len(t) \in Nat, NEW b \in LineStarts(t), NEW x \in Nat, b < x, NEW s,
           Tracks(t, s, b), b \notin ScalarLines(t), \A c \in LineStarts(t) : c < x => c <= b
    PROVE  Tracks(t, IF OpensScalar(t, b) THEN Indent(t, b) + 1 ELSE 0, x)
  <1>1. \A c \in LineStarts(t) : c \in Nat /\ (c < x <=> c <= b)
    BY DEF LineStarts
  <1>2. CASE OpensScalar(t, b)
    <2>1. Indent(t, b) \in Nat
      BY IndentIs DEF LineStarts
    <2>2. Header(t, b, x)
      <3>1. \A c \in LineStarts(t) : ~(b < c /\ c < x)
        BY <1>1
      <3> QED BY <1>2, <3>1 DEF Header
    <2>3. Indent(t, b) + 1 \in Nat /\ Indent(t, b) + 1 # 0
      BY <2>1
    <2> QED BY <1>2, <2>2, <2>3 DEF Tracks
  <1>3. CASE ~OpensScalar(t, b)
    <2>1. ASSUME NEW h, Header(t, h, x) PROVE FALSE
      <3>1. h \in LineStarts(t) \ ScalarLines(t) /\ h < x /\ OpensScalar(t, h)
        BY <2>1 DEF Header
      <3>2. h < b
        <4>1. h # b /\ h <= b /\ h \in Nat /\ b \in Nat
          BY <1>1, <1>3, <3>1
        <4> QED BY <4>1
      <3>3. \A c \in LineStarts(t) : h < c /\ c <= b => Deep(t, h, c)
        BY <1>1, <2>1 DEF Header
      <3>4. HeaderOf(t, h, b)
        BY <3>1, <3>2, <3>3 DEF HeaderOf
      <3> QED BY <3>1, <3>4, ScalarLinesAre
    <2> QED BY <1>3, <2>1 DEF Tracks
  <1> QED BY <1>2, <1>3

-----------------------------------------------------------------------------
(* The loop.                                                                *)

Glyph == Symbol \cup Delimiter \cup {Mojibake, Space, Tab}
Reach ==
    /\ out \in Seq(Glyph)
    /\ ShapeKept
IInv ==
    /\ file \in Files
    /\ i \in Nat \ {0}
    /\ region \in RegionType
    /\ count \in Nat
    /\ Aligned(file) => Reach

LEMMA Texts == ASSUME IInv PROVE text \in Seq(Symbol) /\ Len(text) \in Nat
  BY FilesAssumption DEF IInv, text

(* Every symbol may stay as it is, and may be shown as the lexer shows it.  *)
LEMMA ShownRemains ==
    ASSUME NEW c \in Symbol
    PROVE  /\ Remains(c, Shown(c)) /\ Shown(c) \in Glyph
           /\ Remains(c, c)
           /\ c # NL => Remains(c, Space)
  BY DEF Remains, Shown, Glyph, Mojibake, High, Trail, NL, Space

LEMMA Spans ==
    ASSUME IInv, Reach, NEW n \in Nat, i + n - 1 <= Len(text)
    PROVE  /\ Span(n) \in Seq(Glyph) /\ Len(Span(n)) = n
           /\ \A k \in 1..n : Remains(text[i + k - 1], Span(n)[k])
  <1>1. \A k \in 1..n : text[i + k - 1] \in Symbol
    BY Texts DEF IInv
  <1>2. \A k \in 1..n : Shown(text[i + k - 1]) \in Glyph
    BY <1>1, ShownRemains
  <1>3. Span(n) \in Seq(Glyph) /\ Len(Span(n)) = n
    BY <1>2 DEF Span
  <1>4. \A k \in 1..n : Span(n)[k] = Shown(text[i + k - 1])
    BY DEF Span
  <1> QED BY <1>1, <1>3, <1>4, ShownRemains

(* A step that takes n symbols and shows n that they may become keeps the   *)
(* shape.                                                                   *)
LEMMA MoveKeeps ==
    ASSUME IInv, NEW n \in Nat, NEW put, NEW r \in RegionType, NEW c \in Nat,
           Move(n, put, r, c),
           Aligned(file) =>
              /\ put \in Seq(Glyph) /\ Len(put) = n /\ i + n - 1 <= Len(text)
              /\ \A k \in 1..n : Remains(text[i + k - 1], put[k])
    PROVE  IInv'
  <1>1. file' = file /\ text' = text /\ lang' = lang /\ i' \in Nat \ {0}
    BY DEF Move, text, lang, IInv
  <1>4. Aligned(file)' <=> Aligned(file)
    BY <1>1
  <1>2. \A a, b : Remains(a, b)' <=> Remains(a, b)
    BY <1>1 DEF Remains, Shown
  <1>3. ASSUME Aligned(file) PROVE Reach'
    <2>1. i \in Nat \ {0} /\ out \in Seq(Glyph) /\ Len(out) = i - 1
      BY <1>3 DEF IInv, Reach, ShapeKept
    <2>2. i' = i + n /\ out' = out \o put
      BY DEF Move
    <2>3. i' \in Nat \ {0} /\ out' \in Seq(Glyph) /\ Len(out') = i' - 1
      <3>1. put \in Seq(Glyph) /\ Len(put) = n
        BY <1>3
      <3>2. out \o put \in Seq(Glyph) /\ Len(out \o put) = Len(out) + n
        BY <2>1, <3>1
      <3> QED BY <2>1, <2>2, <3>2
    <2>4. ASSUME NEW k \in 1..Len(out') PROVE Remains(text[k], out'[k])
      <3>1. CASE k <= Len(out)
        <4>1. out'[k] = out[k] /\ k \in 1..Len(out)
          BY <1>3, <2>1, <2>2, <2>4, <3>1
        <4> QED BY <1>3, <4>1 DEF IInv, Reach, ShapeKept
      <3>2. CASE k > Len(out)
        <4>1. k - Len(out) \in 1..n /\ out'[k] = put[k - Len(out)] /\ k = i + (k - Len(out)) - 1
          BY <1>3, <2>1, <2>2, <2>4, <3>2
        <4> QED BY <1>3, <4>1
      <3> QED BY <2>1, <2>4, <3>1, <3>2
    <2> QED BY <1>1, <1>2, <2>3, <2>4 DEF Reach, ShapeKept
  <1> QED BY <1>1, <1>3, <1>4 DEF IInv, Move

-----------------------------------------------------------------------------
(* One lemma per action.                                                    *)

LEMMA Starting == ASSUME Init PROVE IInv
  <1>1. region \in RegionType /\ count \in Nat /\ file \in Files
    BY Regions DEF Init
  <1>2. out \in Seq(Glyph) /\ Len(out) = i - 1 /\ i \in Nat \ {0}
    BY DEF Init
  <1>3. 1..Len(out) = {}
    BY DEF Init
  <1> QED BY <1>1, <1>2, <1>3 DEF IInv, Reach, ShapeKept

LEMMA SpanMove ==
    ASSUME IInv, NEW n \in Nat, NEW r \in RegionType, NEW c \in Nat,
           i + n - 1 <= Len(text), Move(n, Span(n), r, c)
    PROVE  IInv'
  <1>1. Aligned(file) => Reach
    BY DEF IInv
  <1>2. Aligned(file) =>
           /\ Span(n) \in Seq(Glyph) /\ Len(Span(n)) = n
           /\ \A k \in 1..n : Remains(text[i + k - 1], Span(n)[k])
    BY <1>1, Spans
  <1> QED BY <1>2, MoveKeeps

(* One symbol, shown as the glyph d.                                        *)
LEMMA OneMove ==
    ASSUME IInv, NEW r \in RegionType, NEW c \in Nat, NEW d, Move(1, <<d>>, r, c), Reading,
           Aligned(file) => d \in Glyph /\ Remains(text[i], d)
    PROVE  IInv'
  <1>1. ASSUME Aligned(file)
        PROVE  /\ <<d>> \in Seq(Glyph) /\ Len(<<d>>) = 1 /\ i + 1 - 1 <= Len(text)
               /\ \A k \in 1..1 : Remains(text[i + k - 1], <<d>>[k])
    <2>1. i \in Nat /\ i <= Len(text)
      BY DEF IInv, Reading
    <2>2. \A k \in 1..1 : k = 1 /\ i + k - 1 = i /\ <<d>>[k] = d
      BY <2>1
    <2>3. d \in Glyph /\ Remains(text[i], d)
      BY <1>1
    <2>4. <<d>> \in Seq(Glyph) /\ Len(<<d>>) = 1
      BY <2>3
    <2> QED BY <2>1, <2>2, <2>3, <2>4, Texts
  <1> QED BY <1>1, MoveKeeps

LEMMA AtHand ==
    ASSUME IInv, Reading
    PROVE  /\ i \in Nat \ {0} /\ i <= Len(text) /\ text[i] \in Symbol
  BY Texts DEF IInv, Reading

LEMMA LineBreakKeeps == ASSUME IInv, LineBreak PROVE IInv'
  <1>1. Reading /\ text[i] = NL /\ Move(1, <<NL>>, Code, 0)
    BY DEF LineBreak, AtBreak
  <1>2. Aligned(file) => NL \in Glyph /\ Remains(text[i], NL)
    BY <1>1, AtHand, ShownRemains DEF Glyph
  <1> QED BY <1>1, <1>2, OneMove, Regions

LEMMA ScalarLineKeeps == ASSUME IInv, ScalarLine PROVE IInv'
  <1>1. /\ file' = file /\ count' = count /\ i' = i + 1 /\ i <= Len(text)
        /\ out' = out \o <<text[i]>> /\ region' \in RegionType
    BY Regions DEF ScalarLine
  <1>2. text' = text /\ lang' = lang /\ i \in Nat \ {0} /\ text[i] \in Symbol
    BY <1>1, Texts DEF text, lang, IInv
  <1>5. Aligned(file)' <=> Aligned(file)
    BY <1>1
  <1>3. \A a, b : Remains(a, b)' <=> Remains(a, b)
    BY <1>2 DEF Remains, Shown
  <1>4. ASSUME Aligned(file) PROVE Reach'
    <2>1. out \in Seq(Glyph) /\ Len(out) = i - 1 /\ text[i] \in Glyph
      BY <1>2, <1>4 DEF IInv, Reach, ShapeKept, Glyph
    <2>2. out' \in Seq(Glyph) /\ Len(out') = i' - 1
      BY <1>1, <1>2, <2>1
    <2>3. ASSUME NEW k \in 1..Len(out') PROVE Remains(text[k], out'[k])
      <3>1. CASE k <= Len(out)
        BY <1>1, <1>4, <2>1, <3>1 DEF IInv, Reach, ShapeKept
      <3>2. CASE k > Len(out)
        <4>1. k = i /\ out'[k] = text[i]
          BY <1>1, <1>2, <2>1, <2>2, <2>3, <3>2
        <4> QED BY <1>2, <4>1, ShownRemains
      <3> QED BY <2>1, <2>3, <3>1, <3>2
    <2> QED BY <1>2, <1>3, <2>2, <2>3 DEF Reach, ShapeKept
  <1> QED BY <1>1, <1>2, <1>4, <1>5 DEF IInv

LEMMA PlainCodeKeeps == ASSUME IInv, PlainCode PROVE IInv'
  <1>1. Reading /\ Move(1, Span(1), Code, 0)
    BY DEF PlainCode, InCode
  <1>2. i + 1 - 1 <= Len(text)
    BY <1>1, AtHand
  <1> QED BY <1>1, <1>2, SpanMove, Regions

LEMMA CollapseKeeps == ASSUME IInv, CollapseJsx \/ CollapseDoc PROVE IInv'
  <1>1. PICK n, put : n \in Nat /\ lang.inline = "collapse" /\ Move(n, put, Code, 0)
    <2>1. CASE CollapseJsx
      <3>1. PICK e \in JsxCommentEnds : Move(e + 3 - i, <<"{", "/", "/", "}">>, Code, 0)
        BY <2>1 DEF CollapseJsx
      <3>2. e + 3 - i \in Nat /\ lang.inline = "collapse"
        <4>1. e \in (i + 5)..Len(text) /\ i \in Nat
          BY DEF JsxCommentEnds, DocEnds, IInv
        <4>2. e + 3 - i \in Nat
          BY <4>1, Texts
        <4>3. lang.inline = "collapse"
          BY <2>1 DEF CollapseJsx, AtJsxComment
        <4> QED BY <4>2, <4>3
      <3> QED BY <3>1, <3>2
    <2>2. CASE CollapseDoc
      <3>1. PICK e \in DocCommentEnds :
               Move(e + 2 - i, DocComment \o <<Space, ".", Space>> \o StarSlash, Code, 0)
        BY <2>2 DEF CollapseDoc
      <3>2. e + 2 - i \in Nat /\ lang.inline = "collapse"
        BY <2>2, Texts DEF CollapseDoc, DocCommentEnds, DocEnds, IInv
      <3> QED BY <3>1, <3>2
    <2> QED BY <2>1, <2>2
  <1>2. ~Aligned(file)
    BY <1>1 DEF Aligned, lang
  <1> QED BY <1>1, <1>2, MoveKeeps, Regions

LEMMA KeepDocKeeps == ASSUME IInv, KeepDoc PROVE IInv'
  <1>1. PICK e \in DocCommentEnds : Move(e + 2 - i, Span(e + 2 - i), Code, 0)
    BY DEF KeepDoc
  <1>2. /\ e \in (i + 3)..Len(text) /\ e + Len(StarSlash) - 1 <= Len(text)
        /\ Len(StarSlash) = 2
    BY DEF DocCommentEnds, DocEnds, Has, StarSlash
  <1>3. e + 2 - i \in Nat /\ i + (e + 2 - i) - 1 <= Len(text)
    BY <1>2, Texts DEF IInv
  <1> QED BY <1>1, <1>3, SpanMove, Regions

LEMMA Hashes == \A n \in Nat : Hash(n) \in Token
  <1>1. "#" \in Delimiter
    BY DEF Delimiter
  <1> QED BY <1>1 DEF Hash, Token

LEMMA RawOpeners ==
    ASSUME NEW p \in RawPrefixes, NEW h \in Nat PROVE Len(RawOpener(p, h)) \in Nat
  <1>1. p \in Token /\ Hash(h) \in Token
    <2>1. <<"r">> \in Token /\ <<"b", "r">> \in Token
      BY DEF Token, Delimiter
    <2> QED BY <2>1, Hashes DEF RawPrefixes
  <1>2. RawOpener(p, h) \in Token
    BY <1>1, TokenTypes, Tokens DEF RawOpener
  <1> QED BY <1>2 DEF Token

LEMMA OpenRawKeeps == ASSUME IInv, OpenRaw PROVE IInv'
  <1>1. PICK p \in RawPrefixes, h \in 0..Len(text) :
           /\ Has(text, RawOpener(p, h), i)
           /\ Move(Len(RawOpener(p, h)), Span(Len(RawOpener(p, h))), RawRust, h)
    BY DEF OpenRaw
  <1>2. h \in Nat /\ Len(RawOpener(p, h)) \in Nat
    BY Texts, RawOpeners
  <1> QED BY <1>1, <1>2, SpanMove, SpecialRegions DEF Has

LEMMA OpenRegionKeeps == ASSUME IInv, OpenRegion PROVE IInv'
  <1>1. PICK k \in Openers :
           Move(Len(lang.opens[k].tok), lang.opens[k].put, lang.opens[k].region, 1)
    BY DEF OpenRegion
  <1> DEFINE o == lang.opens[k]
  <1>2. lang.opens \in Seq(Faithful) /\ k \in DOMAIN lang.opens /\ Has(text, o.tok, i)
    BY <1>1, Tables DEF lang, Openers, Matching
  <1>3. o \in Faithful
    BY <1>2
  <1>4. o.tok \in Token /\ o.put \in Token /\ o.region \in RegionType
    BY <1>3 DEF Faithful, OpenerType
  <1>5. o.put = o.tok \/ (o.tok = <<"REM">> /\ o.put = <<"Rem">>)
    BY <1>3 DEF Faithful
  <1> HIDE DEF o
  <1>6. /\ Len(o.tok) \in Nat /\ o.put \in Seq(Glyph) /\ Len(o.put) = Len(o.tok)
    <2>1. o.put \in Seq(Glyph) /\ Len(o.tok) \in Nat
      BY <1>4 DEF Token, Glyph
    <2> QED BY <2>1, <1>5
  <1>7. \A j \in 1..Len(o.tok) : Remains(text[i + j - 1], o.put[j])
    <2>1. \A j \in 1..Len(o.tok) : text[i + j - 1] = o.tok[j]
      BY <1>2 DEF Has
    <2>2. CASE o.put = o.tok
      BY <2>1, <2>2 DEF Remains
    <2>3. CASE o.tok = <<"REM">> /\ o.put = <<"Rem">>
      BY <2>1, <2>3 DEF Remains, NL
    <2> QED BY <1>5, <2>2, <2>3
  <1>8. i + Len(o.tok) - 1 <= Len(text)
    BY <1>2 DEF Has
  <1>9. Move(Len(o.tok), o.put, o.region, 1)
    BY <1>1 DEF o
  <1> QED BY <1>4, <1>6, <1>7, <1>8, <1>9, MoveKeeps

LEMMA RegionTokens ==
    ASSUME IInv
    PROVE  /\ region.ends \in Token /\ region.nests \in Token
           /\ Len(region.ends \o region.ends) \in Nat /\ Len(region.nests) \in Nat
           /\ Len(Closer) \in Nat
  <1>1. region.ends \in Token /\ region.nests \in Token /\ count \in Nat
    BY DEF IInv, RegionType
  <1>2. Hash(count) \in Token
    BY <1>1, Hashes
  <1>3. Closer \in Token
    BY <1>1, <1>2, TokenTypes DEF Closer
  <1> QED BY <1>1, <1>3 DEF Token

LEMMA EscapeNextKeeps == ASSUME IInv, EscapeNext PROVE IInv'
  <1>1. PICK n \in {1, 2} : (n = 2 => i < Len(text)) /\ Move(n, Span(n), region, count)
    BY DEF EscapeNext
  <1>2. Reading /\ region \in RegionType /\ count \in Nat
    BY DEF EscapeNext, Inside, IInv
  <1>3. n \in Nat /\ i + n - 1 <= Len(text)
    BY <1>1, <1>2, AtHand, Texts
  <1> QED BY <1>1, <1>2, <1>3, SpanMove

LEMMA RepeatCloserKeeps == ASSUME IInv, RepeatCloser PROVE IInv'
  <1> DEFINE n == Len(region.ends \o region.ends)
  <1>1. Move(n, Span(n), region, count) /\ i + n - 1 <= Len(text)
    BY DEF RepeatCloser, Repeats, Has
  <1>2. n \in Nat /\ region \in RegionType /\ count \in Nat
    BY RegionTokens DEF IInv
  <1> HIDE DEF n
  <1> QED BY <1>1, <1>2, SpanMove

LEMMA NestKeeps == ASSUME IInv, Nest PROVE IInv'
  <1> DEFINE n == Len(region.nests)
  <1>1. Reading /\ i + n - 1 <= Len(text) /\ n \in Nat /\ count \in Nat /\ region \in RegionType
    BY RegionTokens DEF Nest, Inside, Nests, Has, IInv
  <1>2. Move(1, Span(1), RegexClass, count) \/ Move(n, Span(n), region, count + 1)
    BY DEF Nest
  <1>3. i + 1 - 1 <= Len(text)
    BY <1>1, AtHand
  <1> HIDE DEF n
  <1> QED BY <1>1, <1>2, <1>3, SpanMove, SpecialRegions

LEMMA CloseKeeps == ASSUME IInv, Close PROVE IInv'
  <1> DEFINE n == Len(Closer)
  <1>1. i + n - 1 <= Len(text) /\ n \in Nat /\ count \in Nat /\ region \in RegionType
    BY RegionTokens DEF Close, Closes, Has, IInv
  <1>2. \/ Move(n, Span(n), Regex, count)
        \/ count > 1 /\ Move(n, Span(n), region, count - 1)
        \/ Move(n, Span(n), Code, 0)
    BY DEF Close
  <1>3. count > 1 => count - 1 \in Nat
    BY <1>1
  <1> HIDE DEF n
  <1> QED BY <1>1, <1>2, <1>3, SpanMove, Regions, SpecialRegions

(* No byte is passed over where the columns stay.                           *)
LEMMA NothingSkipped == ASSUME IInv, Aligned(file), Reading PROVE ~Skipped
  <1>1. i \in DOMAIN file.text /\ text = file.text /\ lang = LanguageOf(file.ext)
    BY Texts DEF IInv, Reading, text, lang
  <1> QED BY <1>1 DEF Skipped, Aligned

LEMMA WithinKeeps == ASSUME IInv, Within PROVE IInv'
  <1>1. Reading /\ Move(1, IF Skipped THEN <<>> ELSE <<Remnant(text[i])>>, region, count)
    BY DEF Within, Inside
  <1>2. region \in RegionType /\ count \in Nat
    BY DEF IInv
  <1>3. text[i] \in Symbol
    BY <1>1, AtHand
  <1>4. Remnant(text[i]) \in Glyph /\ Remains(text[i], Remnant(text[i]))
    BY <1>3, ShownRemains DEF Remnant, Glyph, Remains, NL, Tab, Space
  <1>5. CASE Aligned(file)
    <2>1. Move(1, <<Remnant(text[i])>>, region, count)
      BY <1>1, <1>5, NothingSkipped
    <2> QED BY <1>1, <1>2, <1>4, <2>1, OneMove
  <1>6. CASE ~Aligned(file)
    BY <1>1, <1>2, <1>6, MoveKeeps
  <1> QED BY <1>5, <1>6

LEMMA Stutters == ASSUME IInv, UNCHANGED vars PROVE IInv'
  BY DEF IInv, Reach, ShapeKept, Remains, Shown, lang, text, vars

LEMMA Inductive == IInv /\ [Next]_vars => IInv'
  <1> SUFFICES ASSUME IInv, [Next]_vars PROVE IInv'
    OBVIOUS
  <1>1. CASE ScalarLine           BY <1>1, ScalarLineKeeps
  <1>2. CASE LineBreak            BY <1>2, LineBreakKeeps
  <1>3. CASE CollapseJsx          BY <1>3, CollapseKeeps
  <1>4. CASE CollapseDoc          BY <1>4, CollapseKeeps
  <1>5. CASE KeepDoc              BY <1>5, KeepDocKeeps
  <1>6. CASE OpenRaw              BY <1>6, OpenRawKeeps
  <1>7. CASE OpenRegion           BY <1>7, OpenRegionKeeps
  <1>8. CASE PlainCode            BY <1>8, PlainCodeKeeps
  <1>9. CASE EscapeNext           BY <1>9, EscapeNextKeeps
  <1>10. CASE RepeatCloser        BY <1>10, RepeatCloserKeeps
  <1>11. CASE Nest                BY <1>11, NestKeeps
  <1>12. CASE Close               BY <1>12, CloseKeeps
  <1>13. CASE Within              BY <1>13, WithinKeeps
  <1>14. CASE UNCHANGED vars      BY <1>14, Stutters
  <1> QED
    BY <1>1, <1>2, <1>3, <1>4, <1>5, <1>6, <1>7, <1>8, <1>9, <1>10, <1>11, <1>12, <1>13, <1>14
    DEF Next

(* In every reachable state, for every set of symbols and of texts, and for  *)
(* every language but JSX and, of Fortran, texts with a character that is not *)
(* ASCII, what was shown so far has the shape of what was read: the same      *)
(* length, and position for position the same symbol, a blank where there is  *)
(* no line break, or Rem for REM (strip_noise).                              *)
THEOREM ShapeIsKept == Spec => []ShapeKept
  <1>1. IInv => ShapeKept
    BY DEF IInv, Reach, ShapeKept
  <1> QED BY <1>1, Starting, Inductive, PTL DEF Spec

-----------------------------------------------------------------------------
(* Whose lines may be lines of block scalars is read line by line.          *)
LEMMA ByLines == \A ext : LanguageOf(ext).scalars => LanguageOf(ext).byLine
  <1> DEFINE Known(l) == l.scalars => l.byLine
  <1>1. \A o : Known(Language(o)) /\ Known(LineLanguage(o))
    BY DEF Language, LineLanguage
  <1>2. /\ Known(CFamily) /\ Known(CSharp) /\ Known(Dart) /\ Known(Elixir) /\ Known(Erlang)
        /\ Known(Go) /\ Known(GraphQl) /\ Known(Groovy) /\ Known(Haskell)
        /\ Known(Julia) /\ Known(Kotlin) /\ Known(Lua) /\ Known(Php) /\ Known(Python)
        /\ Known(Ruby) /\ Known(Scala) /\ Known(Shell) /\ Known(Swift) /\ Known(Toml)
        /\ Known(VbNet)
    <2> HIDE DEF Known
    <2> QED
      BY <1>1 DEF CFamily, CSharp, Dart, Elixir, Erlang, Go, GraphQl, Groovy, Haskell, Julia,
        Kotlin, Lua, Php, Python, Ruby, Scala, Shell, Swift, Toml, VbNet
  <1>3. Known(JavaScript) /\ Known(Jsx) /\ Known(Vue)
    BY DEF JavaScript, Jsx, Vue, Language
  <1>4. Known(Rust) /\ Known([Unknown EXCEPT !.chars = TRUE])
    BY DEF Rust, Unknown, Language
  <1>5. Known(Yaml) /\ Known(Fortran)
    BY DEF Yaml, Fortran, LineLanguage, Language
  <1> HIDE DEF Known
  <1>6. \A ext : Known(LanguageOf(ext))
    BY <1>2, <1>3, <1>4, <1>5 DEF LanguageOf
  <1> QED BY <1>6 DEF Known

(* What the lexer knows at x of the line it is in: s is the scalar it takes  *)
(* to be open, r the region it is in.                                       *)
Holding(f, s, r, x) ==
    LanguageOf(f.ext).scalars =>
        /\ Tracks(f.text, s, x)
        /\ x \in LineStarts(f.text) => r = Code
        /\ x \in (1..Len(f.text)) \ LineStarts(f.text) => (r = ScalarText <=> InScalarLine(f, x))
ScalarGoesOn(t, s, x) == s # 0 /\ ColumnOne(t, x) /\ (BlankLine(t, x) \/ Indent(t, x) >= s)
NextScalar(t, s, x) ==
    IF ColumnOne(t, x) THEN IF OpensScalar(t, x) THEN Indent(t, x) + 1 ELSE 0 ELSE s

LEMMA StartOfLine ==
    ASSUME NEW t, Len(t) \in Nat, NEW b \in LineStarts(t)
    PROVE  b \in 1..Len(t) /\ LineStart(t, b) = b
  <1>1. b \in 1..Len(t) /\ ColumnOne(t, b) /\ b \in 1..b /\ b..(b - 1) = {}
    BY DEF LineStarts
  <1> QED BY <1>1, LineStartOf

(* A line is one of a block scalar when the lexer takes it for one.          *)
LEMMA Taken ==
    ASSUME NEW f \in Files, LanguageOf(f.ext).scalars, NEW s, NEW r, NEW x \in 1..Len(f.text),
           Holding(f, s, r, x)
    PROVE  /\ ScalarGoesOn(f.text, s, x) => InScalarLine(f, x) /\ r = Code
           /\ ~ScalarGoesOn(f.text, s, x) => (InScalarLine(f, x) <=> r = ScalarText)
  <1>1. Len(f.text) \in Nat
    BY TextIs
  <1>2. CASE x \in LineStarts(f.text)
    <2>1. LineStart(f.text, x) = x /\ ColumnOne(f.text, x)
      BY <1>1, <1>2, StartOfLine DEF LineStarts
    <2>2. InScalarLine(f, x) <=> x \in ScalarLines(f.text)
      BY <2>1 DEF InScalarLine
    <2>3. Tracks(f.text, s, x) /\ r = Code /\ Code # ScalarText
      BY <1>2 DEF Holding, Code, ScalarText, Region
    <2>4. x \in ScalarLines(f.text) <=> ScalarGoesOn(f.text, s, x)
      BY <1>1, <1>2, <2>1, <2>3, Decides DEF ScalarGoesOn
    <2> QED BY <2>2, <2>3, <2>4
  <1>3. CASE x \notin LineStarts(f.text)
    <2>1. ~ColumnOne(f.text, x)
      BY <1>3 DEF LineStarts
    <2> QED BY <1>3, <2>1 DEF Holding, ScalarGoesOn
  <1> QED BY <1>2, <1>3

(* n symbols further on, in the same line.                                  *)
LEMMA SameLine ==
    ASSUME NEW t, Len(t) \in Nat, NEW x \in 1..Len(t), NEW n \in Nat \ {0}, x + n - 1 <= Len(t),
           \A k \in x..(x + n - 1) : t[k] # NL
    PROVE  /\ x + n \notin LineStarts(t)
           /\ \A c \in LineStarts(t) : c < x + n => c <= x
           /\ x + n <= Len(t) => LineStart(t, x + n) = LineStart(t, x)
  <1>1. ASSUME NEW c \in LineStarts(t), x < c PROVE x + n < c
    <2>1. c \in 1..Len(t) /\ c # 1 /\ t[c - 1] = NL
      BY <1>1 DEF LineStarts, ColumnOne
    <2>2. c - 1 \notin x..(x + n - 1)
      BY <2>1
    <2> QED BY <1>1, <2>1, <2>2
  <1>2. ASSUME x + n <= Len(t) PROVE LineStart(t, x + n) = LineStart(t, x)
    <2>1. PICK b \in 1..x : b = LineStart(t, x)
      BY LineStartIs
    <2>2. ColumnOne(t, b) /\ \A k \in b..(x - 1) : t[k] # NL
      BY <2>1, LineStartIs
    <2>3. PICK y \in 1..Len(t) : y = x + n
      BY <1>2
    <2>4. b \in 1..y /\ \A k \in b..(y - 1) : t[k] # NL
      <3>1. ASSUME NEW k \in b..(y - 1) PROVE t[k] # NL
        <4>1. k \in b..(x - 1) \/ k \in x..(x + n - 1)
          BY <2>3
        <4> QED BY <2>2, <4>1
      <3> QED BY <2>3, <3>1
    <2>5. LineStart(t, y) = b
      BY <2>2, <2>4, LineStartOf
    <2> QED BY <2>1, <2>3, <2>5
  <1>3. x + n \notin LineStarts(t)
    BY <1>1
  <1>4. \A c \in LineStarts(t) : c < x + n => c <= x
    BY <1>1 DEF LineStarts
  <1> QED BY <1>2, <1>3, <1>4

(* What becomes of the scalar when a symbol at x is taken in a line that is   *)
(* not one of it, up to y, which is in the same line or starts the next.     *)
LEMMA Tracking ==
    ASSUME NEW t, Len(t) \in Nat, NEW x \in 1..Len(t), NEW y \in Nat, x < y, NEW s, Tracks(t, s, x),
           ~ScalarGoesOn(t, s, x), \A c \in LineStarts(t) : c < y => c <= x
    PROVE  Tracks(t, NextScalar(t, s, x), y)
  <1>1. CASE ColumnOne(t, x)
    <2>1. x \in LineStarts(t)
      BY <1>1 DEF LineStarts
    <2>2. x \notin ScalarLines(t)
      BY <1>1, <2>1, Decides DEF ScalarGoesOn
    <2>3. Tracks(t, IF OpensScalar(t, x) THEN Indent(t, x) + 1 ELSE 0, y)
      BY <2>1, <2>2, TracksOut
    <2> QED BY <1>1, <2>3 DEF NextScalar
  <1>2. CASE ~ColumnOne(t, x)
    <2>1. \A c \in LineStarts(t) : c < y => c < x
      <3>1. x \notin LineStarts(t) /\ \A c \in LineStarts(t) : c \in Nat
        BY <1>2 DEF LineStarts
      <3> QED BY <3>1
    <2>2. Tracks(t, s, y)
      BY <2>1, TracksOn
    <2> QED BY <1>2, <2>2 DEF NextScalar
  <1> QED BY <1>1, <1>2

LEMMA HoldingOn ==
    ASSUME NEW f \in Files, NEW s, NEW r, NEW q, NEW x \in 1..Len(f.text), NEW n \in Nat \ {0},
           x + n - 1 <= Len(f.text), Holding(f, s, r, x),
           LanguageOf(f.ext).scalars =>
              /\ ~ScalarGoesOn(f.text, s, x) /\ \A k \in x..(x + n - 1) : f.text[k] # NL
              /\ r = ScalarText <=> q = ScalarText
    PROVE  Holding(f, IF LanguageOf(f.ext).scalars THEN NextScalar(f.text, s, x) ELSE s, q, x + n)
  <1> SUFFICES ASSUME LanguageOf(f.ext).scalars
               PROVE  /\ Tracks(f.text, NextScalar(f.text, s, x), x + n)
                      /\ x + n \in LineStarts(f.text) => q = Code
                      /\ x + n \in (1..Len(f.text)) \ LineStarts(f.text)
                           => (q = ScalarText <=> InScalarLine(f, x + n))
    BY DEF Holding
  <1>1. Len(f.text) \in Nat /\ Tracks(f.text, s, x)
    BY TextIs DEF Holding
  <1>2. /\ x + n \notin LineStarts(f.text)
        /\ \A c \in LineStarts(f.text) : c < x + n => c <= x
        /\ x + n <= Len(f.text) => LineStart(f.text, x + n) = LineStart(f.text, x)
    BY <1>1, SameLine
  <1>3. Tracks(f.text, NextScalar(f.text, s, x), x + n)
    <2>1. x + n \in Nat /\ x < x + n
      BY <1>1
    <2> QED BY <1>1, <1>2, <2>1, Tracking
  <1>4. InScalarLine(f, x) <=> r = ScalarText
    BY Taken
  <1>5. x + n <= Len(f.text) => (InScalarLine(f, x + n) <=> InScalarLine(f, x))
    BY <1>2 DEF InScalarLine
  <1>6. x + n \in 1..Len(f.text) => x + n <= Len(f.text)
    BY <1>1
  <1> QED BY <1>2, <1>3, <1>4, <1>5, <1>6

(* Over a line break.                                                       *)
LEMMA HoldingOver ==
    ASSUME NEW f \in Files, NEW s, NEW r, NEW x \in 1..Len(f.text), f.text[x] = NL, Holding(f, s, r, x),
           LanguageOf(f.ext).scalars => ~ScalarGoesOn(f.text, s, x)
    PROVE  Holding(f, IF LanguageOf(f.ext).scalars THEN NextScalar(f.text, s, x) ELSE s, Code, x + 1)
  <1> SUFFICES ASSUME LanguageOf(f.ext).scalars
               PROVE  /\ Tracks(f.text, NextScalar(f.text, s, x), x + 1)
                      /\ x + 1 \notin (1..Len(f.text)) \ LineStarts(f.text)
    BY DEF Holding
  <1>1. Len(f.text) \in Nat /\ Tracks(f.text, s, x)
    BY TextIs DEF Holding
  <1>2. \A c \in LineStarts(f.text) : c < x + 1 => c <= x
    BY DEF LineStarts
  <1>3. Tracks(f.text, NextScalar(f.text, s, x), x + 1)
    <2>1. x + 1 \in Nat /\ x < x + 1
      BY <1>1
    <2> QED BY <1>1, <1>2, <2>1, Tracking
  <1>4. ColumnOne(f.text, x + 1)
    BY <1>1 DEF ColumnOne
  <1> QED BY <1>3, <1>4 DEF LineStarts

(* Into a line of the block scalar.                                         *)
LEMMA HoldingInto ==
    ASSUME NEW f \in Files, LanguageOf(f.ext).scalars, NEW s, NEW r, NEW x \in 1..Len(f.text),
           Holding(f, s, r, x), ScalarGoesOn(f.text, s, x)
    PROVE  Holding(f, s, IF f.text[x] = NL THEN Code ELSE ScalarText, x + 1)
  <1>1. Len(f.text) \in Nat /\ Tracks(f.text, s, x) /\ x \in LineStarts(f.text)
    BY TextIs DEF Holding, ScalarGoesOn, LineStarts
  <1>2. x \in ScalarLines(f.text)
    BY <1>1, Decides DEF ScalarGoesOn
  <1>3. Tracks(f.text, s, x + 1)
    <2>1. x + 1 \in Nat /\ x < x + 1 /\ \A c \in LineStarts(f.text) : c < x + 1 => c <= x
      BY <1>1 DEF LineStarts
    <2> QED BY <1>1, <1>2, <2>1, TracksIn
  <1>4. CASE f.text[x] = NL
    <2>1. ColumnOne(f.text, x + 1)
      BY <1>1, <1>4 DEF ColumnOne
    <2> QED BY <1>3, <1>4, <2>1 DEF Holding, LineStarts
  <1>5. CASE f.text[x] # NL
    <2>1. /\ x + 1 \notin LineStarts(f.text)
          /\ x + 1 <= Len(f.text) => LineStart(f.text, x + 1) = LineStart(f.text, x)
      <3>1. x + 1 - 1 <= Len(f.text) /\ 1 \in Nat \ {0} /\ \A k \in x..(x + 1 - 1) : f.text[k] # NL
        BY <1>1, <1>5
      <3> QED BY <1>1, <3>1, SameLine
    <2>2. LineStart(f.text, x) = x
      BY <1>1, StartOfLine
    <2>3. x + 1 \in 1..Len(f.text) => InScalarLine(f, x + 1)
      BY <1>1, <1>2, <2>1, <2>2 DEF InScalarLine
    <2> QED BY <1>3, <1>5, <2>1, <2>3 DEF Holding
  <1> QED BY <1>4, <1>5

-----------------------------------------------------------------------------
(* A region that opened at p and has not ended before x; but at the end of    *)
(* the text or of a line that stops it, x is not in the middle of an escape.  *)
Live(f, x) == x <= Len(f.text) /\ (LanguageOf(f.ext).byLine => f.text[x] # NL)
Untouched(f, r, p, x) ==
    /\ p \in 1..(Len(f.text) + 1) /\ x \in p..(Len(f.text) + 1)
    /\ \A k \in p..(x - 1) :
          ~Ends(f.text, r, p, k) /\ (LanguageOf(f.ext).byLine => f.text[k] # NL)
    /\ Live(f, x) /\ r.quoting = "backslash" => Even(f.text, "\\", p, x)
    /\ Live(f, x) /\ r.quoting = "twice" => Even(f.text, r.ends[1], p, x)

LEMMA Fresh ==
    ASSUME NEW f \in Files, NEW r, NEW p \in 1..(Len(f.text) + 1)
    PROVE  Untouched(f, r, p, p)
  <1>1. Len(f.text) \in Nat /\ p \in Nat /\ p \in p..(Len(f.text) + 1) /\ p..(p - 1) = {}
    BY TextIs
  <1>2. \A c : Even(f.text, c, p, p)
    BY <1>1, Parity
  <1> QED BY <1>1, <1>2 DEF Untouched

(* Two symbols are taken, or one.                                           *)
LEMMA UntouchedBy ==
    ASSUME NEW f \in Files, NEW r, NEW p, NEW x, Untouched(f, r, p, x), NEW n \in {1, 2},
           x + n - 1 <= Len(f.text),
           \A k \in x..(x + n - 1) :
              ~Ends(f.text, r, p, k) /\ (LanguageOf(f.ext).byLine => f.text[k] # NL),
           Live(f, x + n) /\ r.quoting = "backslash" => Even(f.text, "\\", p, x + n),
           Live(f, x + n) /\ r.quoting = "twice" => Even(f.text, r.ends[1], p, x + n)
    PROVE  Untouched(f, r, p, x + n)
  <1>1. Len(f.text) \in Nat /\ p \in 1..(Len(f.text) + 1) /\ x \in p..(Len(f.text) + 1)
    BY TextIs DEF Untouched
  <1>2. x + n \in p..(Len(f.text) + 1)
    BY <1>1
  <1>3. ASSUME NEW k \in p..(x + n - 1)
        PROVE  ~Ends(f.text, r, p, k) /\ (LanguageOf(f.ext).byLine => f.text[k] # NL)
    <2>1. k \in p..(x - 1) \/ k \in x..(x + n - 1)
      BY <1>1
    <2> QED BY <2>1 DEF Untouched
  <1> QED BY <1>1, <1>2, <1>3 DEF Untouched

LEMMA Passing ==
    ASSUME NEW f \in Files, NEW r \in Tame, NEW p, NEW x, Untouched(f, r, p, x), Live(f, x),
           ~Ends(f.text, r, p, x),
           r.quoting = "backslash" => f.text[x] # "\\",
           r.quoting = "twice" => f.text[x] # r.ends[1]
    PROVE  Untouched(f, r, p, x + 1)
  <1>1. /\ Len(f.text) \in Nat /\ p \in Nat /\ x \in Nat /\ p <= x /\ x <= Len(f.text)
        /\ LanguageOf(f.ext).byLine => f.text[x] # NL
    BY TextIs DEF Untouched, Live
  <1>2. r.quoting = "backslash" => Even(f.text, "\\", p, x + 1)
    BY <1>1, Parity DEF Untouched
  <1>3. ASSUME r.quoting = "twice" PROVE Even(f.text, r.ends[1], p, x + 1)
    <2>1. PICK c : c = r.ends[1]
      OBVIOUS
    <2>2. f.text[x] # c
      BY <1>3, <2>1
    <2>3. Even(f.text, c, p, x)
      BY <1>3, <2>1 DEF Untouched
    <2>4. Even(f.text, c, p, x + 1)
      BY <1>1, <2>2, <2>3, Parity
    <2> QED BY <2>1, <2>4
  <1>4. \A k \in x..(x + 1 - 1) : k = x
    BY <1>1
  <1>5. x + 1 - 1 <= Len(f.text) /\ 1 \in {1, 2}
    BY <1>1
  <1>6. \A k \in x..(x + 1 - 1) :
           ~Ends(f.text, r, p, k) /\ (LanguageOf(f.ext).byLine => f.text[k] # NL)
    BY <1>1, <1>4
  <1> QED BY <1>2, <1>3, <1>5, <1>6, UntouchedBy

LEMMA Beginning ==
    ASSUME NEW t, NEW r \in Tame, NEW x, Has(t, r.ends, x), x \in Nat
    PROVE  t[x] = r.ends[1] /\ t[x] # "\\"
  <1>1. Len(r.ends) \in Nat \ {0} /\ r.ends \in Mark \cup {<<NL>>}
    BY TameIs
  <1>2. 1 \in 1..Len(r.ends) /\ x + 1 - 1 = x
    BY <1>1
  <1>3. t[x] = r.ends[1]
    BY <1>2 DEF Has
  <1>4. r.ends[1] # "\\"
    <2>1. CASE r.ends \in Mark
      BY <1>2, <2>1, MarkIs
    <2>2. CASE r.ends = <<NL>>
      BY <2>2 DEF NL
    <2> QED BY <1>1, <2>1, <2>2
  <1> QED BY <1>3, <1>4

LEMMA Escaping ==
    ASSUME NEW f \in Files, NEW r \in Tame, NEW p, NEW x, Untouched(f, r, p, x), Live(f, x),
           r.quoting = "backslash", f.text[x] = "\\", NEW n \in {1, 2},
           n = 2 <=> x < Len(f.text) /\ ~(LanguageOf(f.ext).byLine /\ f.text[x + 1] = NL)
    PROVE  Untouched(f, r, p, x + n)
  <1>1. /\ Len(f.text) \in Nat /\ p \in Nat /\ x \in Nat /\ p <= x /\ x <= Len(f.text)
        /\ x + 1 \in Nat /\ p <= x + 1
        /\ LanguageOf(f.ext).byLine => f.text[x] # NL
    BY TextIs DEF Untouched, Live
  <1>2. Even(f.text, "\\", p, x) /\ ~Even(f.text, "\\", p, x + 1)
    BY <1>1, Parity DEF Untouched
  <1>3. ~Ends(f.text, r, p, x) /\ ~Ends(f.text, r, p, x + 1)
    <2>1. ~Has(f.text, r.ends, x)
      BY <1>1, Beginning
    <2> QED BY <1>2, <2>1 DEF Ends, Even
  <1>4. r.quoting # "twice"
    OBVIOUS
  <1>5. CASE n = 1
    <2>1. ~Live(f, x + 1)
      <3>1. x + 1 > Len(f.text) \/ (LanguageOf(f.ext).byLine /\ f.text[x + 1] = NL)
        BY <1>1, <1>5
      <3> QED BY <1>1, <3>1 DEF Live
    <2>2. \A k \in x..(x + 1 - 1) : k = x
      BY <1>1
    <2>3. x + 1 - 1 <= Len(f.text)
      BY <1>1
    <2>4. \A k \in x..(x + 1 - 1) :
             ~Ends(f.text, r, p, k) /\ (LanguageOf(f.ext).byLine => f.text[k] # NL)
      BY <1>1, <1>3, <2>2
    <2>5. Untouched(f, r, p, x + 1)
      BY <2>1, <2>3, <2>4, UntouchedBy
    <2> QED BY <1>5, <2>5
  <1>6. CASE n = 2
    <2>1. x + 1 <= Len(f.text) /\ (LanguageOf(f.ext).byLine => f.text[x + 1] # NL)
      BY <1>1, <1>6
    <2>2. Even(f.text, "\\", p, x + 2)
      <3>1. x + 1 + 1 = x + 2
        BY <1>1
      <3>2. CASE f.text[x + 1] = "\\"
        <4>1. Even(f.text, "\\", p, x + 1 + 1)
          BY <1>1, <1>2, <3>2, Parity
        <4> QED BY <3>1, <4>1
      <3>3. CASE f.text[x + 1] # "\\"
        <4>1. Even(f.text, "\\", p, x + 1 + 1)
          BY <1>1, <3>3, Parity
        <4> QED BY <3>1, <4>1
      <3> QED BY <3>2, <3>3
    <2>3. \A k \in x..(x + 2 - 1) : k = x \/ k = x + 1
      BY <1>1
    <2>4. x + 2 - 1 <= Len(f.text)
      BY <1>1, <2>1
    <2>5. \A k \in x..(x + 2 - 1) :
             ~Ends(f.text, r, p, k) /\ (LanguageOf(f.ext).byLine => f.text[k] # NL)
      BY <1>1, <1>3, <2>1, <2>3
    <2>6. Untouched(f, r, p, x + 2)
      BY <1>4, <2>2, <2>4, <2>5, UntouchedBy
    <2> QED BY <1>6, <2>6
  <1> QED BY <1>5, <1>6

LEMMA Repeating ==
    ASSUME NEW f \in Files, NEW r \in Tame, NEW p, NEW x, Untouched(f, r, p, x), Live(f, x),
           r.quoting = "twice", Has(f.text, r.ends \o r.ends, x)
    PROVE  Len(r.ends \o r.ends) = 2 /\ Untouched(f, r, p, x + 2)
  <1>1. /\ Len(f.text) \in Nat /\ p \in Nat /\ x \in Nat /\ p <= x /\ x <= Len(f.text)
        /\ x + 1 \in Nat /\ p <= x + 1 /\ x + 1 + 1 = x + 2
        /\ LanguageOf(f.ext).byLine => f.text[x] # NL
    BY TextIs DEF Untouched, Live
  <1>2. Len(r.ends) = 1 /\ r.ends \in Seq(Delimiter)
    <2>1. r.ends \in Token
      BY TameIs DEF RegionType
    <2> QED BY <2>1 DEF Tame, Token
  <1>3. PICK c : c = r.ends[1]
    OBVIOUS
  <1>4. Len(r.ends \o r.ends) = 2 /\ (r.ends \o r.ends)[1] = c /\ (r.ends \o r.ends)[2] = c
    <2>1. PICK e \in Seq(Delimiter) : e = r.ends
      BY <1>2
    <2>2. Len(e) = 1 /\ e[1] = c
      BY <1>2, <1>3, <2>1
    <2>3. PICK d : d = e \o e
      OBVIOUS
    <2>4. Len(d) = Len(e) + Len(e) /\ \A k \in 1..(Len(e) + Len(e)) :
             d[k] = IF k <= Len(e) THEN e[k] ELSE e[k - Len(e)]
      BY <2>3, ConcatProperties
    <2>5. Len(d) = 2 /\ \A k \in 1..2 : d[k] = IF k <= 1 THEN e[k] ELSE e[k - 1]
      BY ONLY <2>2, <2>4
    <2>6. Len(d) = 2 /\ d[1] = c /\ d[2] = c
      BY ONLY <2>2, <2>5
    <2> QED BY <2>1, <2>3, <2>6
  <1>5. x + 1 <= Len(f.text) /\ f.text[x] = c /\ f.text[x + 1] = c
    <2>1. x + 2 - 1 <= Len(f.text) /\ f.text[x + 1 - 1] = c /\ f.text[x + 2 - 1] = c
      BY <1>4 DEF Has
    <2> QED BY <1>1, <2>1
  <1>6. Even(f.text, c, p, x) /\ ~Even(f.text, c, p, x + 1) /\ Even(f.text, c, p, x + 2)
    <2>1. Even(f.text, c, p, x)
      BY <1>3 DEF Untouched
    <2>2. ~Even(f.text, c, p, x + 1)
      BY <1>1, <1>5, <2>1, Parity
    <2>3. Even(f.text, c, p, x + 1 + 1)
      BY <1>1, <1>5, <2>2, Parity
    <2> QED BY <1>1, <2>1, <2>2, <2>3
  <1>7. ~Ends(f.text, r, p, x) /\ ~Ends(f.text, r, p, x + 1)
    BY <1>3, <1>6 DEF Ends, Even
  <1>8. \A k \in x..(x + 2 - 1) : k = x \/ k = x + 1
    BY <1>1
  <1>9. \A k \in x..(x + 2 - 1) :
           ~Ends(f.text, r, p, k) /\ (LanguageOf(f.ext).byLine => f.text[k] # NL)
    BY <1>1, <1>5, <1>7, <1>8
  <1>10. x + 2 - 1 <= Len(f.text) /\ r.quoting # "backslash" /\ Even(f.text, r.ends[1], p, x + 2)
    BY <1>1, <1>3, <1>5, <1>6
  <1>11. Untouched(f, r, p, x + 2)
    BY <1>9, <1>10, UntouchedBy
  <1> QED BY <1>4, <1>11

(* The lexer is where the reference has a cell begin, or in one that opened a *)
(* region and has not ended.                                                *)
In(f, r, j, x) == \E o \in OpenerAt(f, j) : r = o.region /\ Untouched(f, r, j + Len(o.tok), x)
Placed(f, r, x) ==
    \/ r = Code /\ At(f, x)
    \/ r = ScalarText /\ LanguageOf(f.ext).scalars /\ At(f, x)
    \/ \E j \in Boundaries(f) : In(f, r, j, x)

LEMMA InIs ==
    ASSUME NEW f \in Files, Plain(f), NEW r, NEW j \in Boundaries(f), NEW x, In(f, r, j, x)
    PROVE  /\ r \in Tame
           /\ \E o \in OpenerAt(f, j), p \in 1..(Len(f.text) + 1) :
                 p = j + Len(o.tok) /\ r = o.region /\ Untouched(f, r, p, x)
  <1>1. j \in 1..Len(f.text)
    BY AtAfter
  <1>2. PICK o \in OpenerAt(f, j) : r = o.region /\ Untouched(f, r, j + Len(o.tok), x)
    BY DEF In
  <1>3. o \in Simple
    BY <1>1, OpenerIs
  <1>4. j + Len(o.tok) \in 1..(Len(f.text) + 1)
    BY <1>2 DEF Untouched
  <1> QED BY <1>2, <1>3, <1>4 DEF Simple

(* Symbols taken in the region are what the region makes of them.           *)
LEMMA InsideIs ==
    ASSUME NEW f \in Files, Plain(f), NEW r, NEW j \in Boundaries(f), NEW x, NEW y,
           In(f, r, j, x), In(f, r, j, y), NEW k \in x..(y - 1)
    PROVE  k \in CommentInsides(f) <=> r.body # "copy"
  <1>1. r \in Tame
    BY InIs
  <1>2. PICK o \in OpenerAt(f, j), p \in 1..(Len(f.text) + 1) :
           p = j + Len(o.tok) /\ r = o.region /\ Untouched(f, r, p, x)
    BY InIs
  <1>3. j \in 1..Len(f.text) /\ Len(f.text) \in Nat
    BY AtAfter, TextIs
  <1>4. OpenerAt(f, j) = {o}
    BY <1>3, OpenerIs
  <1>5. Untouched(f, r, p, y)
    BY <1>2, <1>4 DEF In
  <1>6. /\ y \in p..(Len(f.text) + 1) /\ x \in p..(Len(f.text) + 1)
        /\ \A m \in p..(y - 1) :
              ~Ends(f.text, r, p, m) /\ (LanguageOf(f.ext).byLine => f.text[m] # NL)
    BY <1>2, <1>5 DEF Untouched
  <1>7. y <= RegionEnd(f, r, p)[1]
    BY <1>1, <1>6, NotBefore
  <1>8. PICK e : e = RegionEnd(f, r, p)[1]
    OBVIOUS
  <1>9. e \in Nat /\ e <= After(f, j) /\ After(f, j) \in Nat /\ j < p
    <2>1. e \in Nat /\ e <= After(f, j) /\ After(f, j) \in (j + 1)..(Len(f.text) + 1)
      BY <1>2, <1>3, <1>8, AfterIs
    <2>2. Len(o.tok) \in Nat \ {0}
      BY <1>3, OpenerIs
    <2> QED BY <1>2, <1>3, <2>1, <2>2
  <1>10. k \in j..(After(f, j) - 1) /\ p <= k /\ k < e
    BY <1>3, <1>6, <1>7, <1>8, <1>9
  <1> QED BY <1>2, <1>8, <1>10, RegionCell

(* An opener begins a region and stands in the view itself.                 *)
LEMMA OpeningIs ==
    ASSUME NEW f \in Files, Plain(f), NEW j \in Boundaries(f), NEW o \in OpenerAt(f, j)
    PROVE  /\ In(f, o.region, j, j + Len(o.tok))
           /\ \A k \in j..(j + Len(o.tok) - 1) : k \notin CommentInsides(f)
  <1>1. j \in 1..Len(f.text) /\ Len(f.text) \in Nat
    BY AtAfter, TextIs
  <1>2. Len(o.tok) \in Nat \ {0} /\ j + Len(o.tok) \in 1..(Len(f.text) + 1)
    BY <1>1, OpenerIs
  <1>3. PICK p \in 1..(Len(f.text) + 1) : p = j + Len(o.tok)
    BY <1>2
  <1>4. Untouched(f, o.region, p, p)
    BY Fresh
  <1>5. ASSUME NEW k \in j..(p - 1) PROVE k \notin CommentInsides(f)
    <2>1. /\ p <= RegionEnd(f, o.region, p)[1] /\ RegionEnd(f, o.region, p)[1] \in Nat
          /\ RegionEnd(f, o.region, p)[1] <= After(f, j)
          /\ After(f, j) \in (j + 1)..(Len(f.text) + 1)
      BY <1>1, <1>3, AfterIs
    <2>2. k \in j..(After(f, j) - 1) /\ ~(p <= k)
      BY <1>1, <2>1
    <2> QED BY <1>3, <2>2, RegionCell
  <1>6. In(f, o.region, j, p)
    BY <1>3, <1>4 DEF In
  <1>7. \A k \in j..(p - 1) : k \notin CommentInsides(f)
    BY <1>5
  <1>8. In(f, o.region, j, j + Len(o.tok))
    BY <1>3, <1>6
  <1>9. \A k \in j..(j + Len(o.tok) - 1) : k \notin CommentInsides(f)
    <2>1. j..(j + Len(o.tok) - 1) = j..(p - 1)
      BY <1>1, <1>2, <1>3
    <2> QED BY <1>7, <2>1
  <1> QED BY <1>8, <1>9

(* A closer that counts ends the cell.                                      *)
LEMMA ClosingIs ==
    ASSUME NEW f \in Files, Plain(f), NEW r, NEW j \in Boundaries(f), NEW x, In(f, r, j, x),
           Live(f, x), Has(f.text, r.ends, x), r.only = "column one" => ColumnOne(f.text, x),
           r.quoting = "twice" => ~Has(f.text, r.ends \o r.ends, x)
    PROVE  /\ At(f, x + Len(r.ends)) /\ Len(r.ends) \in Nat \ {0}
           /\ \A k \in x..(x + Len(r.ends) - 1) : k \notin CommentInsides(f)
  <1>1. r \in Tame /\ Len(r.ends) \in Nat \ {0}
    BY InIs, TameIs
  <1>2. PICK o \in OpenerAt(f, j), p \in 1..(Len(f.text) + 1) :
           p = j + Len(o.tok) /\ r = o.region /\ Untouched(f, r, p, x)
    BY InIs
  <1>3. j \in 1..Len(f.text) /\ Len(f.text) \in Nat
    BY AtAfter, TextIs
  <1>4. Ends(f.text, r, p, x)
    BY <1>2 DEF Ends, Untouched, Even
  <1>5. /\ x \in p..Len(f.text)
        /\ LanguageOf(f.ext).byLine => f.text[x] # NL
        /\ \A m \in p..(x - 1) :
              ~Ends(f.text, r, p, m) /\ (LanguageOf(f.ext).byLine => f.text[m] # NL)
    <2>1. /\ x \in p..(Len(f.text) + 1) /\ x <= Len(f.text)
          /\ LanguageOf(f.ext).byLine => f.text[x] # NL
      BY <1>2 DEF Untouched, Live
    <2>2. x \in p..Len(f.text)
      BY ONLY <1>3, <2>1, p \in 1..(Len(f.text) + 1)
    <2>3. \A m \in p..(x - 1) :
             ~Ends(f.text, r, p, m) /\ (LanguageOf(f.ext).byLine => f.text[m] # NL)
      BY <1>2 DEF Untouched
    <2> QED BY <2>1, <2>2, <2>3
  <1>6. RegionEnd(f, r, p) = <<x, x + Len(r.ends)>>
    BY <1>1, <1>4, <1>5, ClosedAt
  <1>7. After(f, j) = x + Len(r.ends)
    <2>1. After(f, j) = RegionEnd(f, o.region, j + Len(o.tok))[2]
      BY <1>3, AfterIs
    <2>2. RegionEnd(f, o.region, j + Len(o.tok)) = RegionEnd(f, r, p)
      BY <1>2
    <2> QED BY ONLY <1>6, <2>1, <2>2
  <1>8. At(f, x + Len(r.ends))
    BY <1>7, AtAfter
  <1>9. ASSUME NEW k \in x..(x + Len(r.ends) - 1) PROVE k \notin CommentInsides(f)
    <2>1. Len(o.tok) \in Nat \ {0}
      BY <1>3, OpenerIs
    <2>2. k \in j..(After(f, j) - 1) /\ ~(k < x)
      <3>1. x \in Nat /\ j < x
        BY ONLY <1>2, <1>3, <1>5, <2>1, p \in 1..(Len(f.text) + 1)
      <3> QED BY ONLY <1>1, <1>3, <1>7, <3>1, k \in x..(x + Len(r.ends) - 1)
    <2>3. k < x <=> k < RegionEnd(f, r, p)[1]
      BY ONLY <1>6
    <2> QED BY <1>2, <2>2, <2>3, RegionCell
  <1> QED BY <1>1, <1>8, <1>9

(* A line break ends the cell where texts are read by lines.                *)
LEMMA BreakingIs ==
    ASSUME NEW f \in Files, Plain(f), NEW r, NEW x \in 1..Len(f.text), Placed(f, r, x),
           LanguageOf(f.ext).byLine, f.text[x] = NL
    PROVE  At(f, x + 1) /\ x \notin CommentInsides(f)
  <1>1. Len(f.text) \in Nat
    BY TextIs
  <1>2. x \in Boundaries(f)
    <2>1. CASE At(f, x)
      BY <1>1, <2>1 DEF At
    <2>2. CASE \E j \in Boundaries(f) : In(f, r, j, x)
      <3>1. PICK j \in Boundaries(f) : In(f, r, j, x)
        BY <2>2
      <3>2. r \in Tame
        BY <3>1, InIs
      <3>3. PICK o \in OpenerAt(f, j), p \in 1..(Len(f.text) + 1) :
               p = j + Len(o.tok) /\ r = o.region /\ Untouched(f, r, p, x)
        BY <3>1, InIs
      <3>4. x \in p..Len(f.text)
            /\ \A m \in p..(x - 1) :
                  ~Ends(f.text, r, p, m) /\ (LanguageOf(f.ext).byLine => f.text[m] # NL)
        BY <1>1, <3>3 DEF Untouched
      <3>5. RegionEnd(f, r, p) = <<x, x>>
        BY <3>2, <3>4, StoppedAt
      <3>6. j \in 1..Len(f.text) /\ At(f, After(f, j))
        BY AtAfter
      <3>7. After(f, j) = x
        BY <3>3, <3>5, <3>6, AfterIs
      <3> QED BY <1>1, <3>6, <3>7 DEF At
    <2> QED BY <2>1, <2>2 DEF Placed
  <1>3. OpenerAt(f, x) = {}
    <2>1. ASSUME NEW o \in OpenerAt(f, x) PROVE FALSE
      <3>1. Len(o.tok) \in Nat \ {0} /\ \A k \in x..(x + Len(o.tok) - 1) : f.text[k] # NL
        BY <2>1, OpenerIs
      <3>2. x \in x..(x + Len(o.tok) - 1)
        BY <3>1
      <3> QED BY <3>1, <3>2
    <2> QED BY <2>1
  <1>4. x \notin CommentInsides(f) /\ After(f, x) = x + 1
    BY <1>2, <1>3, CodeCell
  <1> QED BY <1>2, <1>4, AtAfter

-----------------------------------------------------------------------------
(* The invariant: what was shown is blank inside of comments and only there,  *)
(* and the lexer is where the reference has it.                             *)
Showing(k, d) ==
    IF k \in CommentInsides(file) THEN d \in {Space, NL, Tab}
    ELSE d \in {text[k], Shown(text[k])} \/ text[k] = "REM"
Follows ==
    Plain(file) =>
        /\ i <= Len(text) + 1
        /\ \A k \in 1..(i - 1) : Showing(k, out[k])
        /\ Holding(file, scalar, region, i)
        /\ Placed(file, region, i)

LEMMA Usual ==
    ASSUME IInv, Plain(file)
    PROVE  /\ text = file.text /\ lang = LanguageOf(file.ext) /\ file \in Files
           /\ lang.inline = "none" /\ ~lang.raws
           /\ ~AtJsxComment /\ ~AtDocComment /\ ~AtRaw
           /\ out \in Seq(Glyph) /\ Len(out) = i - 1 /\ i \in Nat \ {0}
           /\ text \in Seq(Symbol) /\ Len(text) \in Nat
  <1>1. text = file.text /\ lang = LanguageOf(file.ext) /\ file \in Files /\ i \in Nat \ {0}
    BY DEF text, lang, IInv
  <1>2. lang.inline = "none" /\ ~lang.raws /\ Aligned(file)
    BY <1>1 DEF Plain
  <1>3. ~AtJsxComment /\ ~AtDocComment /\ ~AtRaw
    BY <1>2 DEF AtJsxComment, AtDocComment, AtRaw
  <1>4. out \in Seq(Glyph) /\ Len(out) = i - 1
    BY <1>2 DEF IInv, Reach, ShapeKept
  <1> QED BY <1>1, <1>2, <1>3, <1>4, Texts

(* n symbols are taken and n shown.                                         *)
LEMMA Goes ==
    ASSUME IInv, Plain(file), Follows, NEW n \in Nat \ {0}, NEW put \in Seq(Glyph), Len(put) = n,
           file' = file, out' = out \o put, i' = i + n, i + n - 1 <= Len(text),
           \A k \in 1..n : Showing(i + k - 1, put[k]),
           Holding(file, scalar', region', i + n), Placed(file, region', i + n)
    PROVE  Follows'
  <1>1. /\ out \in Seq(Glyph) /\ Len(out) = i - 1 /\ i \in Nat \ {0} /\ Len(text) \in Nat
    BY Usual
  <1>2. text' = text /\ lang' = lang
    BY DEF text, lang
  <1>3. ASSUME NEW k \in 1..(i' - 1) PROVE Showing(k, out'[k])
    <2>1. CASE k <= Len(out)
      <3>1. out'[k] = out[k] /\ k \in 1..(i - 1)
        BY <1>1, <1>3, <2>1
      <3> QED BY <3>1 DEF Follows
    <2>2. CASE k > Len(out)
      <3>1. PICK m \in 1..n : m = k - Len(out)
        BY <1>1, <1>3, <2>2
      <3>2. k = i + m - 1
        BY <1>1, <1>3, <2>2, <3>1
      <3>3. (out \o put)[k] = put[k - Len(out)]
        <4>1. k \in 1..(Len(out) + Len(put)) /\ ~(k <= Len(out))
          BY <1>1, <1>3, <2>2
        <4>2. \A x \in 1..(Len(out) + Len(put)) :
                 (out \o put)[x] = IF x <= Len(out) THEN out[x] ELSE put[x - Len(out)]
          BY ONLY <1>1, put \in Seq(Glyph), ConcatProperties
        <4> QED BY ONLY <4>1, <4>2
      <3> QED BY <3>1, <3>2, <3>3
    <2> QED BY <1>1, <1>3, <2>1, <2>2
  <1>4. \A k \in 1..(i' - 1) : Showing(k, out[k])'
    BY <1>2, <1>3 DEF Showing, Shown
  <1>5. i' <= Len(text') + 1
    BY <1>1, <1>2
  <1>6. Holding(file, scalar, region, i)' /\ Placed(file, region, i)'
    OBVIOUS
  <1> QED BY <1>4, <1>5, <1>6 DEF Follows

(* By Move, in a line that is not one of a block scalar.                    *)
LEMMA Moved ==
    ASSUME IInv, Plain(file), Follows, Reading, NEW n \in Nat \ {0}, NEW put \in Seq(Glyph),
           Len(put) = n, NEW r, NEW c, Move(n, put, r, c), i + n - 1 <= Len(text),
           \A k \in 1..n : Showing(i + k - 1, put[k]),
           \/ /\ lang.byLine => \A k \in i..(i + n - 1) : text[k] # NL
              /\ region = ScalarText <=> r = ScalarText
           \/ n = 1 /\ text[i] = NL /\ r = Code,
           Placed(file, r, i + n)
    PROVE  Follows'
  <1>1. /\ text = file.text /\ lang = LanguageOf(file.ext) /\ file \in Files
        /\ i \in Nat \ {0} /\ Len(text) \in Nat
    BY Usual
  <1>2. /\ file' = file /\ out' = out \o put /\ i' = i + n /\ region' = r
        /\ scalar' = IF lang.scalars THEN NextScalar(text, scalar, i) ELSE scalar
    BY DEF Move, ScalarAfter, NextScalar
  <1>3. i \in 1..Len(text) /\ Holding(file, scalar, region, i)
    BY <1>1 DEF Reading, Follows
  <1>4. lang.scalars => ~ScalarGoesOn(text, scalar, i)
    BY DEF Reading, InScalar, ScalarGoesOn
  <1>5. lang.scalars => lang.byLine
    BY <1>1, ByLines
  <1>6. Holding(file, scalar', r, i + n)
    <2>1. CASE /\ lang.byLine => \A k \in i..(i + n - 1) : text[k] # NL
               /\ region = ScalarText <=> r = ScalarText
      <3>1. LanguageOf(file.ext).scalars =>
              /\ ~ScalarGoesOn(file.text, scalar, i) /\ \A k \in i..(i + n - 1) : file.text[k] # NL
              /\ region = ScalarText <=> r = ScalarText
        BY <1>1, <1>4, <1>5, <2>1
      <3> QED BY <1>1, <1>2, <1>3, <3>1, HoldingOn
    <2>2. CASE n = 1 /\ text[i] = NL /\ r = Code
      BY <1>1, <1>2, <1>3, <1>4, <2>2, HoldingOver
    <2> QED BY <2>1, <2>2
  <1> QED BY <1>2, <1>6, Goes

(* Where a symbol of code is, and what it is shown as.                      *)
LEMMA Spanned ==
    ASSUME IInv, Plain(file), NEW n \in Nat, i + n - 1 <= Len(text),
           \A k \in i..(i + n - 1) : k \notin CommentInsides(file)
    PROVE  /\ Span(n) \in Seq(Glyph) /\ Len(Span(n)) = n
           /\ \A k \in 1..n : Showing(i + k - 1, Span(n)[k])
  <1>1. Span(n) \in Seq(Glyph) /\ Len(Span(n)) = n
    <2>1. Reach
      BY DEF IInv, Plain
    <2> QED BY <2>1, Spans
  <1>2. ASSUME NEW k \in 1..n PROVE Showing(i + k - 1, Span(n)[k])
    <2>1. i + k - 1 \in i..(i + n - 1)
      BY Usual
    <2>2. Span(n)[k] = Shown(text[i + k - 1])
      BY DEF Span
    <2> QED BY <2>1, <2>2 DEF Showing
  <1> QED BY <1>1, <1>2

LEMMA Single ==
    ASSUME IInv, Plain(file), NEW d \in Glyph, Showing(i, d)
    PROVE  <<d>> \in Seq(Glyph) /\ Len(<<d>>) = 1 /\ \A k \in 1..1 : Showing(i + k - 1, <<d>>[k])
  <1>1. <<d>> \in Seq(Glyph) /\ Len(<<d>>) = 1 /\ <<d>>[1] = d /\ i + 1 - 1 = i
    BY Usual
  <1>2. \A k \in 1..1 : k = 1
    OBVIOUS
  <1> QED BY <1>1, <1>2

-----------------------------------------------------------------------------
(* Each action keeps it.                                                    *)
LEMMA ScalarLineFollows == ASSUME IInv, Plain(file), Follows, ScalarLine PROVE Follows'
  <1>1. /\ text = file.text /\ lang = LanguageOf(file.ext) /\ file \in Files
        /\ i \in Nat \ {0} /\ Len(text) \in Nat
    BY Usual
  <1>2. /\ file' = file /\ scalar' = scalar /\ i' = i + 1 /\ out' = out \o <<text[i]>>
        /\ region' = IF text[i] = NL THEN Code ELSE ScalarText
    BY DEF ScalarLine
  <1>3. /\ lang.scalars /\ ScalarGoesOn(text, scalar, i) /\ i \in 1..Len(text)
        /\ Holding(file, scalar, region, i) /\ Placed(file, region, i)
    BY <1>1 DEF ScalarLine, InScalar, ScalarGoesOn, Follows
  <1>4. region = Code /\ InScalarLine(file, i)
    BY <1>1, <1>3, Taken
  <1>5. i \in Boundaries(file)
    <2>1. At(file, i)
      <3>1. ASSUME NEW j \in Boundaries(file), In(file, region, j, i) PROVE FALSE
        <4>1. region \in Tame
          BY <1>1, <3>1, InIs
        <4> QED BY <1>4, <4>1, TameIs
      <3> QED BY <1>3, <1>4, <3>1 DEF Placed
    <2> QED BY <1>1, <1>3, <2>1 DEF At
  <1>6. OpenerAt(file, i) = {}
    BY <1>4 DEF OpenerAt
  <1>7. i \notin CommentInsides(file) /\ At(file, i + 1)
    <2>1. i \notin CommentInsides(file) /\ After(file, i) = i + 1
      BY <1>1, <1>5, <1>6, CodeCell
    <2> QED BY <1>1, <1>5, <2>1, AtAfter
  <1>8. Showing(i, text[i]) /\ text[i] \in Glyph
    <2>1. text[i] \in Symbol
      BY <1>3, Usual, ElementOfSeq
    <2> QED BY <1>7, <2>1 DEF Showing, Glyph
  <1>9. Holding(file, scalar', region', i + 1)
    <2>1. Holding(file, scalar, IF file.text[i] = NL THEN Code ELSE ScalarText, i + 1)
      BY <1>1, <1>3, HoldingInto
    <2> QED BY <1>1, <1>2, <2>1
  <1>10. Placed(file, region', i + 1)
    BY <1>1, <1>2, <1>3, <1>7 DEF Placed
  <1>11. /\ <<text[i]>> \in Seq(Glyph) /\ Len(<<text[i]>>) = 1
         /\ \A k \in 1..1 : Showing(i + k - 1, <<text[i]>>[k])
    BY <1>8, Single
  <1>12. 1 \in Nat \ {0} /\ i + 1 - 1 <= Len(text)
    BY <1>1, <1>3
  <1> QED BY <1>2, <1>9, <1>10, <1>11, <1>12, Goes

LEMMA LineBreakFollows == ASSUME IInv, Plain(file), Follows, LineBreak PROVE Follows'
  <1>1. /\ text = file.text /\ lang = LanguageOf(file.ext) /\ file \in Files
        /\ i \in Nat \ {0} /\ Len(text) \in Nat
    BY Usual
  <1>2. Reading /\ lang.byLine /\ text[i] = NL /\ Move(1, <<NL>>, Code, 0)
    BY DEF LineBreak, AtBreak
  <1>3. i \in 1..Len(text) /\ Placed(file, region, i)
    BY <1>1, <1>2 DEF Reading, Follows
  <1>4. At(file, i + 1) /\ i \notin CommentInsides(file)
    BY <1>1, <1>2, <1>3, BreakingIs
  <1>5. Showing(i, NL) /\ NL \in Glyph
    BY <1>2, <1>4 DEF Showing, Glyph, Delimiter, NL
  <1>6. /\ <<NL>> \in Seq(Glyph) /\ Len(<<NL>>) = 1
        /\ \A k \in 1..1 : Showing(i + k - 1, <<NL>>[k])
    BY <1>5, Single
  <1>7. 1 \in Nat \ {0} /\ i + 1 - 1 <= Len(text)
    BY <1>1, <1>3
  <1>8. Placed(file, Code, i + 1)
    BY <1>4 DEF Placed
  <1> QED BY <1>2, <1>6, <1>7, <1>8, Moved

(* In code the reference has a cell begin, outside of block scalars.        *)
LEMMA InCodeIs ==
    ASSUME IInv, Plain(file), Follows, InCode
    PROVE  /\ i \in 1..Len(text) /\ i \in Boundaries(file) /\ region = Code /\ Reading
           /\ lang.byLine => text[i] # NL
           /\ Openers = Matching(lang.opens, text, i)
           /\ \A k \in Openers : IsFirst(k, Openers) => OpenerAt(file, i) = {lang.opens[k]}
           /\ Openers = {} => OpenerAt(file, i) = {}
  <1>1. /\ text = file.text /\ lang = LanguageOf(file.ext) /\ file \in Files
        /\ i \in Nat \ {0} /\ Len(text) \in Nat
    BY Usual
  <1>2. region = Code /\ Reading /\ (lang.byLine => text[i] # NL)
    BY DEF InCode, AtBreak
  <1>3. i \in 1..Len(text) /\ Placed(file, region, i) /\ Holding(file, scalar, region, i)
    BY <1>1, <1>2 DEF Reading, Follows
  <1>4. i \in Boundaries(file)
    <2>1. At(file, i)
      <3>1. ASSUME NEW j \in Boundaries(file), In(file, region, j, i) PROVE FALSE
        <4>1. region \in Tame
          BY <1>1, <3>1, InIs
        <4> QED BY <1>2, <4>1, TameIs
      <3> QED BY <1>2, <1>3, <3>1 DEF Placed
    <2> QED BY <1>1, <1>3, <2>1 DEF At
  <1>5. Openers = Matching(lang.opens, text, i)
    BY Usual DEF Openers
  <1>6. ~InScalarLine(file, i)
    <2>1. CASE lang.scalars
      <3>1. ~ScalarGoesOn(text, scalar, i)
        BY <1>2, <2>1 DEF Reading, InScalar, ScalarGoesOn
      <3>2. InScalarLine(file, i) <=> region = ScalarText
        BY <1>1, <1>3, <2>1, <3>1, Taken
      <3> QED BY <1>2, <3>2 DEF Code, ScalarText, Region
    <2>2. CASE ~lang.scalars
      BY <1>1, <2>2 DEF InScalarLine
    <2> QED BY <2>1, <2>2
  <1>7. OpenerAt(file, i) = IF Openers = {} THEN {} ELSE {lang.opens[First(Openers)]}
    BY <1>1, <1>5, <1>6 DEF OpenerAt
  <1>8. Openers \subseteq Nat
    <2>1. lang.opens \in Seq(Simple)
      BY <1>1, PlainOpens
    <2>2. DOMAIN lang.opens = 1..Len(lang.opens) /\ Len(lang.opens) \in Nat
      BY <2>1, LenProperties
    <2>3. Openers \subseteq DOMAIN lang.opens
      BY <1>5 DEF Matching
    <2> QED BY <2>2, <2>3
  <1>9. ASSUME NEW k \in Openers, IsFirst(k, Openers) PROVE OpenerAt(file, i) = {lang.opens[k]}
    <2>1. First(Openers) = k
      BY <1>8, <1>9, FirstIs
    <2> QED BY <1>7, <2>1
  <1> QED BY <1>2, <1>3, <1>4, <1>5, <1>7, <1>9

LEMMA OpenRegionFollows == ASSUME IInv, Plain(file), Follows, OpenRegion PROVE Follows'
  <1>1. /\ text = file.text /\ lang = LanguageOf(file.ext) /\ file \in Files
        /\ i \in Nat \ {0} /\ Len(text) \in Nat
    BY Usual
  <1>2. InCode
    BY DEF OpenRegion
  <1>3. PICK k \in Openers :
           /\ IsFirst(k, Openers)
           /\ Move(Len(lang.opens[k].tok), lang.opens[k].put, lang.opens[k].region, 1)
    BY DEF OpenRegion
  <1>4. PICK o : o = lang.opens[k]
    OBVIOUS
  <1>5. i \in 1..Len(text) /\ i \in Boundaries(file) /\ region = Code /\ Reading
    BY <1>2, InCodeIs
  <1>6. OpenerAt(file, i) = {o}
    BY <1>2, <1>3, <1>4, InCodeIs
  <1>7. /\ o \in Simple /\ Len(o.tok) \in Nat \ {0} /\ i + Len(o.tok) - 1 <= Len(text)
        /\ \A x \in i..(i + Len(o.tok) - 1) : text[x] # NL
    <2>1. /\ o \in Simple /\ Len(o.tok) \in Nat \ {0}
          /\ i + Len(o.tok) \in (i + 1)..(Len(file.text) + 1)
          /\ \A x \in i..(i + Len(o.tok) - 1) : file.text[x] # NL
      BY <1>1, <1>5, <1>6, OpenerIs
    <2> QED BY <1>1, <2>1
  <1>8. /\ In(file, o.region, i, i + Len(o.tok))
        /\ \A x \in i..(i + Len(o.tok) - 1) : x \notin CommentInsides(file)
    BY <1>1, <1>5, <1>6, OpeningIs
  <1>9. Placed(file, o.region, i + Len(o.tok))
    BY <1>5, <1>8 DEF Placed
  <1>10. region # ScalarText /\ o.region # ScalarText
    <2>1. o.region \in Tame
      BY <1>7 DEF Simple
    <2> QED BY <1>5, <2>1, TameIs DEF Code, ScalarText, Region
  <1>11. /\ o.put \in Seq(Glyph) /\ Len(o.put) = Len(o.tok)
         /\ \A x \in 1..Len(o.tok) : Showing(i + x - 1, o.put[x])
    <2>1. /\ o.put = o.tok \/ (o.tok = <<"REM">> /\ o.put = <<"Rem">>)
          /\ o.put \in Token
      BY <1>7 DEF Simple, Faithful, OpenerType
    <2>2. o.put \in Seq(Glyph)
      BY <2>1 DEF Token, Glyph
    <2>3. Len(o.put) = Len(o.tok)
      BY <2>1
    <2>4. ASSUME NEW x \in 1..Len(o.tok) PROVE Showing(i + x - 1, o.put[x])
      <3>1. Has(text, o.tok, i)
        BY <1>2, <1>3, <1>4, InCodeIs DEF Matching
      <3>2. text[i + x - 1] = o.tok[x]
        BY <3>1 DEF Has
      <3>3. i + x - 1 \in i..(i + Len(o.tok) - 1)
        BY <1>1, <1>7
      <3>4. i + x - 1 \notin CommentInsides(file)
        BY <1>8, <3>3
      <3>5. CASE o.put = o.tok
        BY <3>2, <3>4, <3>5 DEF Showing
      <3>6. CASE o.tok = <<"REM">>
        <4>1. text[i + x - 1] = "REM"
          BY <3>2, <3>6
        <4> QED BY <3>4, <4>1 DEF Showing
      <3> QED BY <2>1, <3>5, <3>6
    <2> QED BY <2>2, <2>3, <2>4
  <1>12. Move(Len(o.tok), o.put, o.region, 1)
    BY <1>3, <1>4
  <1>13. /\ lang.byLine => \A x \in i..(i + Len(o.tok) - 1) : text[x] # NL
         /\ region = ScalarText <=> o.region = ScalarText
    BY <1>7, <1>10
  <1> QED BY <1>5, <1>7, <1>9, <1>11, <1>12, <1>13, Moved

LEMMA PlainCodeFollows == ASSUME IInv, Plain(file), Follows, PlainCode PROVE Follows'
  <1>1. /\ text = file.text /\ lang = LanguageOf(file.ext) /\ file \in Files
        /\ i \in Nat \ {0} /\ Len(text) \in Nat
    BY Usual
  <1>2. InCode /\ Openers = {} /\ Move(1, Span(1), Code, 0)
    BY DEF PlainCode
  <1>3. /\ i \in 1..Len(text) /\ i \in Boundaries(file) /\ region = Code /\ Reading
        /\ lang.byLine => text[i] # NL
        /\ OpenerAt(file, i) = {}
    BY <1>2, InCodeIs
  <1>4. i \notin CommentInsides(file) /\ At(file, i + 1)
    <2>1. i \notin CommentInsides(file) /\ After(file, i) = i + 1
      BY <1>1, <1>3, CodeCell
    <2> QED BY <1>1, <1>3, <2>1, AtAfter
  <1>5. 1 \in Nat \ {0} /\ i + 1 - 1 <= Len(text) /\ \A k \in i..(i + 1 - 1) : k = i
    BY <1>1, <1>3
  <1>6. /\ Span(1) \in Seq(Glyph) /\ Len(Span(1)) = 1
        /\ \A k \in 1..1 : Showing(i + k - 1, Span(1)[k])
    <2>1. \A k \in i..(i + 1 - 1) : k \notin CommentInsides(file)
      BY <1>4, <1>5
    <2> QED BY <1>5, <2>1, Spanned
  <1>7. Placed(file, Code, i + 1)
    BY <1>4 DEF Placed
  <1>8. /\ lang.byLine => \A k \in i..(i + 1 - 1) : text[k] # NL
        /\ region = ScalarText <=> Code = ScalarText
    BY <1>3, <1>5
  <1> QED BY <1>2, <1>3, <1>5, <1>6, <1>7, <1>8, Moved

-----------------------------------------------------------------------------
(* Inside of a region: of a line of a block scalar, where nothing is looked   *)
(* for, or of one that the reference has there too.                         *)
LEMMA InsideOne ==
    ASSUME IInv, Plain(file), Follows, Inside
    PROVE  /\ i \in 1..Len(text) /\ Reading /\ (lang.byLine => text[i] # NL) /\ Live(file, i)
           /\ \/ region = ScalarText /\ lang.scalars /\ At(file, i)
              \/ region \in Tame /\ \E j \in Boundaries(file) : In(file, region, j, i)
  <1>1. /\ text = file.text /\ lang = LanguageOf(file.ext) /\ file \in Files
        /\ i \in Nat \ {0} /\ Len(text) \in Nat
    BY Usual
  <1>2. region # Code /\ Reading /\ (lang.byLine => text[i] # NL)
    BY DEF Inside, AtBreak
  <1>3. i \in 1..Len(text) /\ Placed(file, region, i)
    BY <1>1, <1>2 DEF Reading, Follows
  <1>4. Live(file, i)
    BY <1>1, <1>2, <1>3 DEF Live
  <1>5. \/ region = ScalarText /\ lang.scalars /\ At(file, i)
        \/ region \in Tame /\ \E j \in Boundaries(file) : In(file, region, j, i)
    BY <1>1, <1>2, <1>3, InIs DEF Placed
  <1> QED BY <1>2, <1>3, <1>4, <1>5

LEMMA ScalarTextIs ==
    ASSUME IInv, Plain(file), Follows, Inside, region = ScalarText
    PROVE  ~Escapes /\ ~Repeats /\ ~Nests /\ ~Closes /\ lang.scalars /\ At(file, i)
  <1>1. /\ region.quoting = "none" /\ region.nests = <<>> /\ region.only = "any"
        /\ region.ends = <<NL>>
    BY DEF ScalarText, Region
  <1>2. ~Escapes /\ ~Repeats /\ ~Nests
    BY <1>1 DEF Escapes, Repeats, Nests
  <1>3. lang.scalars /\ At(file, i) /\ i \in Nat
    <2>1. region \notin Tame
      BY TameIs
    <2> QED BY <2>1, InsideOne, Usual
  <1>4. text[i] # NL
    BY <1>3, InsideOne, Usual, ByLines
  <1>5. Closer = <<NL>>
    <2>1. Closer = <<NL>> \o <<>>
      BY <1>1 DEF Closer
    <2>2. <<NL>> \o <<>> = <<NL>>
      BY Regions DEF NL
    <2> QED BY <2>1, <2>2
  <1>6. ~Closes
    <2>1. 1 \in 1..Len(<<NL>>) /\ <<NL>>[1] = NL /\ i + 1 - 1 = i
      BY <1>3
    <2>2. ~Has(text, <<NL>>, i)
      BY <1>4, <2>1 DEF Has
    <2> QED BY <1>5, <2>2 DEF Closes
  <1> QED BY <1>2, <1>3, <1>6

LEMMA TameCloser ==
    ASSUME region \in Tame
    PROVE  Closer = region.ends
  <1>1. region.only # "hashes" /\ region.ends \in Seq(Delimiter)
    BY DEF Tame, RegionType, Token
  <1>2. Closer = region.ends \o <<>>
    BY <1>1 DEF Closer
  <1> QED BY <1>1, <1>2, ConcatEmptySeq

LEMMA Opened ==
    ASSUME NEW f \in Files, Plain(f), NEW j \in 1..Len(f.text), NEW o \in OpenerAt(f, j)
    PROVE  \E k \in DOMAIN LanguageOf(f.ext).opens : o = LanguageOf(f.ext).opens[k]
  <1> DEFINE opens == LanguageOf(f.ext).opens
             ks == Matching(opens, f.text, j)
  <1>1. ks # {} /\ o = opens[First(ks)] /\ ks \subseteq DOMAIN opens
    BY DEF OpenerAt, Matching
  <1>2. ks \subseteq Nat
    <2>1. opens \in Seq(Simple)
      BY PlainOpens
    <2>2. DOMAIN opens = 1..Len(opens) /\ Len(opens) \in Nat
      BY <2>1, LenProperties
    <2> QED BY <1>1, <2>2
  <1>3. First(ks) \in ks
    <2> HIDE DEF ks
    <2> QED BY <1>1, <1>2, LeastOf
  <1> QED BY <1>1, <1>3

LEMMA NoNest == ASSUME IInv, Plain(file), Follows, Inside PROVE ~Nests
  <1>1. CASE region = ScalarText
    BY <1>1, ScalarTextIs
  <1>2. CASE region \in Tame
    <2>1. region.nests \in {<<>>, <<"[">>}
      BY <1>2 DEF Tame
    <2>2. i \in 1..Len(text) /\ (region.nests # <<>> => text[i] # "[")
      <3>1. i \in 1..Len(text)
        BY InsideOne
      <3>2. DOMAIN file.text = 1..Len(file.text) /\ text = file.text /\ file \in Files
        BY Usual, TextIs
      <3>3. PICK j \in Boundaries(file) : In(file, region, j, i)
        BY <1>2, InsideOne, TameIs
      <3>4. PICK o \in OpenerAt(file, j) : region = o.region
        BY <3>3 DEF In
      <3>5. PICK k \in DOMAIN LanguageOf(file.ext).opens : o = LanguageOf(file.ext).opens[k]
        BY <3>2, <3>3, AtAfter, Opened
      <3> QED BY <3>1, <3>2, <3>4, <3>5 DEF Plain
    <2>3. region.nests # <<>> => ~Has(text, <<"[">>, i)
      <3>1. 1 \in 1..Len(<<"[">>) /\ <<"[">>[1] = "[" /\ i + 1 - 1 = i
        BY <2>2
      <3> QED BY <2>2, <3>1 DEF Has
    <2> QED BY <2>1, <2>3 DEF Nests
  <1> QED BY <1>1, <1>2, InsideOne

LEMMA EscapeNextFollows == ASSUME IInv, Plain(file), Follows, EscapeNext PROVE Follows'
  <1>1. /\ text = file.text /\ lang = LanguageOf(file.ext) /\ file \in Files
        /\ i \in Nat \ {0} /\ Len(text) \in Nat
    BY Usual
  <1>2. Inside /\ region.quoting = "backslash" /\ text[i] = "\\"
    BY DEF EscapeNext, Escapes
  <1>3. /\ i \in 1..Len(text) /\ Reading /\ (lang.byLine => text[i] # NL) /\ Live(file, i)
        /\ region \in Tame
    BY <1>2, InsideOne, ScalarTextIs DEF EscapeNext
  <1>4. PICK j \in Boundaries(file) : In(file, region, j, i)
    BY <1>2, <1>3, InsideOne, TameIs
  <1>5. PICK n \in {1, 2} :
           /\ n = 2 <=> i < Len(text) /\ ~(lang.byLine /\ text[i + 1] = NL)
           /\ Move(n, Span(n), region, count)
    BY DEF EscapeNext
  <1>6. n \in Nat \ {0} /\ i + n - 1 <= Len(text)
    BY <1>1, <1>3, <1>5
  <1>7. In(file, region, j, i + n)
    <2>1. PICK o \in OpenerAt(file, j), p \in 1..(Len(file.text) + 1) :
             p = j + Len(o.tok) /\ region = o.region /\ Untouched(file, region, p, i)
      BY <1>1, <1>4, InIs
    <2>2. n = 2 <=> i < Len(file.text) /\ ~(LanguageOf(file.ext).byLine /\ file.text[i + 1] = NL)
      BY <1>1, <1>5
    <2>3. file.text[i] = "\\"
      BY <1>1, <1>2
    <2>4. Untouched(file, region, p, i + n)
      BY <1>1, <1>2, <1>3, <2>1, <2>2, <2>3, Escaping
    <2> QED BY <2>1, <2>4 DEF In
  <1>8. Placed(file, region, i + n)
    BY <1>7 DEF Placed
  <1>9. \A k \in i..(i + n - 1) : k \notin CommentInsides(file)
    <2>1. region.body = "copy"
      BY <1>2, <1>3 DEF Tame
    <2>2. PICK y \in Nat : y = i + n
      BY <1>1, <1>6
    <2>3. \A k \in i..(y - 1) : k \notin CommentInsides(file)
      BY <1>1, <1>4, <1>7, <2>1, <2>2, InsideIs
    <2> QED BY <1>1, <2>2, <2>3
  <1>10. /\ Span(n) \in Seq(Glyph) /\ Len(Span(n)) = n
         /\ \A k \in 1..n : Showing(i + k - 1, Span(n)[k])
    BY <1>6, <1>9, Spanned
  <1>11. lang.byLine => \A k \in i..(i + n - 1) : text[k] # NL
    <2>1. \A k \in i..(i + n - 1) : k = i \/ (n = 2 /\ k = i + 1)
      BY <1>1, <1>5
    <2> QED BY <1>3, <1>5, <2>1
  <1> QED BY <1>3, <1>5, <1>6, <1>8, <1>10, <1>11, Moved

LEMMA RepeatCloserFollows == ASSUME IInv, Plain(file), Follows, RepeatCloser PROVE Follows'
  <1>1. /\ text = file.text /\ lang = LanguageOf(file.ext) /\ file \in Files
        /\ i \in Nat \ {0} /\ Len(text) \in Nat
    BY Usual
  <1>2. Inside /\ region.quoting = "twice" /\ Has(text, region.ends \o region.ends, i) /\ Repeats
    BY DEF RepeatCloser, Repeats
  <1>3. /\ i \in 1..Len(text) /\ Reading /\ (lang.byLine => text[i] # NL) /\ Live(file, i)
        /\ region \in Tame
    BY <1>2, InsideOne, ScalarTextIs
  <1>4. PICK j \in Boundaries(file) : In(file, region, j, i)
    BY <1>2, <1>3, InsideOne, TameIs
  <1>5. Len(region.ends \o region.ends) = 2 /\ In(file, region, j, i + 2)
    <2>1. PICK o \in OpenerAt(file, j), p \in 1..(Len(file.text) + 1) :
             p = j + Len(o.tok) /\ region = o.region /\ Untouched(file, region, p, i)
      BY <1>1, <1>4, InIs
    <2>2. Len(region.ends \o region.ends) = 2 /\ Untouched(file, region, p, i + 2)
      BY <1>1, <1>2, <1>3, <2>1, Repeating
    <2> QED BY <2>1, <2>2 DEF In
  <1>6. Move(2, Span(2), region, count)
    BY <1>5 DEF RepeatCloser
  <1>7. Placed(file, region, i + 2)
    BY <1>5 DEF Placed
  <1>8. 2 \in Nat \ {0} /\ i + 2 - 1 <= Len(text)
    BY <1>2, <1>5 DEF Has
  <1>9. \A k \in i..(i + 2 - 1) : k \notin CommentInsides(file)
    <2>1. region.body = "copy"
      BY <1>2, <1>3 DEF Tame
    <2>2. PICK y \in Nat : y = i + 2
      BY <1>1
    <2>3. \A k \in i..(y - 1) : k \notin CommentInsides(file)
      BY <1>1, <1>4, <1>5, <2>1, <2>2, InsideIs
    <2> QED BY <1>1, <2>2, <2>3
  <1>10. /\ Span(2) \in Seq(Glyph) /\ Len(Span(2)) = 2
         /\ \A k \in 1..2 : Showing(i + k - 1, Span(2)[k])
    BY <1>8, <1>9, Spanned
  <1>11. lang.byLine => \A k \in i..(i + 2 - 1) : text[k] # NL
    <2>1. PICK o \in OpenerAt(file, j), p \in 1..(Len(file.text) + 1) :
             Untouched(file, region, p, i + 2) /\ Untouched(file, region, p, i)
      <3>1. PICK o \in OpenerAt(file, j), p \in 1..(Len(file.text) + 1) :
               p = j + Len(o.tok) /\ region = o.region /\ Untouched(file, region, p, i)
        BY <1>1, <1>4, InIs
      <3>2. Untouched(file, region, p, i + 2)
        BY <1>1, <1>2, <1>3, <3>1, Repeating
      <3> QED BY <3>1, <3>2
    <2>2. p \in Nat /\ p <= i
      BY <2>1 DEF Untouched
    <2>3. \A k \in p..(i + 2 - 1) : lang.byLine => text[k] # NL
      BY <1>1, <2>1 DEF Untouched
    <2> QED BY <1>1, <2>2, <2>3
  <1> QED BY <1>3, <1>6, <1>7, <1>8, <1>10, <1>11, Moved

LEMMA CloseFollows == ASSUME IInv, Plain(file), Follows, Close PROVE Follows'
  <1>1. /\ text = file.text /\ lang = LanguageOf(file.ext) /\ file \in Files
        /\ i \in Nat \ {0} /\ Len(text) \in Nat
    BY Usual
  <1>2. Inside /\ ~Escapes /\ ~Repeats /\ Closes
    BY DEF Close
  <1>3. /\ i \in 1..Len(text) /\ Reading /\ (lang.byLine => text[i] # NL) /\ Live(file, i)
        /\ region \in Tame
    BY <1>2, InsideOne, ScalarTextIs
  <1>4. PICK j \in Boundaries(file) : In(file, region, j, i)
    BY <1>2, <1>3, InsideOne, TameIs
  <1>5. Closer = region.ends
    BY <1>3, TameCloser
  <1>6. /\ Has(file.text, region.ends, i)
        /\ region.only = "column one" => ColumnOne(file.text, i)
        /\ region.quoting = "twice" => ~Has(file.text, region.ends \o region.ends, i)
    BY <1>1, <1>2, <1>5 DEF Closes, Repeats
  <1>7. PICK n : n = Len(region.ends)
    OBVIOUS
  <1>8. /\ At(file, i + n) /\ n \in Nat \ {0}
        /\ \A k \in i..(i + n - 1) : k \notin CommentInsides(file)
    BY <1>1, <1>3, <1>4, <1>6, <1>7, ClosingIs
  <1>9. i + n - 1 <= Len(text)
    BY <1>1, <1>6, <1>7 DEF Has
  <1>10. Move(n, Span(n), Code, 0)
    <2>1. region # RegexClass /\ region # Nested
      BY <1>3, TameIs
    <2> QED BY <1>5, <1>7, <2>1 DEF Close
  <1>11. /\ Span(n) \in Seq(Glyph) /\ Len(Span(n)) = n
         /\ \A k \in 1..n : Showing(i + k - 1, Span(n)[k])
    BY <1>8, <1>9, Spanned
  <1>12. Placed(file, Code, i + n)
    BY <1>8 DEF Placed
  <1>13. lang.byLine => \A k \in i..(i + n - 1) : text[k] # NL
    <2> SUFFICES ASSUME lang.byLine PROVE \A k \in i..(i + n - 1) : text[k] # NL
      OBVIOUS
    <2>1. region.ends \in Mark
      <3>1. text[i] = region.ends[1] /\ text[i] # NL
        BY <1>1, <1>3, <1>6, Beginning
      <3>2. region.ends # <<NL>>
        BY <3>1
      <3> QED BY <1>3, <3>2, TameIs
    <2> QED BY <1>1, <1>6, <1>7, <2>1, MarkHere
  <1>14. region # ScalarText /\ Code # ScalarText
    BY <1>3, TameIs DEF Code, ScalarText, Region
  <1> QED BY <1>3, <1>8, <1>9, <1>10, <1>11, <1>12, <1>13, <1>14, Moved

LEMMA WithinFollows == ASSUME IInv, Plain(file), Follows, Within PROVE Follows'
  <1>1. /\ text = file.text /\ lang = LanguageOf(file.ext) /\ file \in Files
        /\ i \in Nat \ {0} /\ Len(text) \in Nat
    BY Usual
  <1>2. /\ Inside /\ ~Escapes /\ ~Repeats /\ ~Closes
        /\ Move(1, <<Remnant(text[i])>>, region, count)
    <2>1. ~Skipped
      BY NothingSkipped DEF Plain, Within, Inside
    <2> QED BY <2>1 DEF Within
  <1>3. i \in 1..Len(text) /\ Reading /\ (lang.byLine => text[i] # NL) /\ Live(file, i)
    BY <1>2, InsideOne
  <1>4. Placed(file, region, i + 1) /\ Showing(i, Remnant(text[i]))
    <2>1. CASE region = ScalarText
      <3>1. lang.scalars /\ At(file, i) /\ Holding(file, scalar, region, i)
        BY <1>2, <2>1, ScalarTextIs DEF Follows
      <3>2. i \in Boundaries(file)
        BY <1>1, <1>3, <3>1 DEF At
      <3>3. InScalarLine(file, i)
        <4>1. ~ScalarGoesOn(text, scalar, i)
          BY <1>3, <3>1 DEF Reading, InScalar, ScalarGoesOn
        <4> QED BY <1>1, <1>3, <2>1, <3>1, <4>1, Taken
      <3>4. OpenerAt(file, i) = {}
        BY <3>3 DEF OpenerAt
      <3>5. i \notin CommentInsides(file) /\ After(file, i) = i + 1
        BY <1>1, <3>2, <3>4, CodeCell
      <3>6. At(file, i + 1)
        BY <1>1, <3>2, <3>5, AtAfter
      <3>7. Remnant(text[i]) = text[i]
        BY <2>1 DEF Remnant, ScalarText, Region
      <3> QED BY <1>1, <2>1, <3>1, <3>5, <3>6, <3>7 DEF Placed, Showing
    <2>2. CASE region \in Tame
      <3>1. PICK j \in Boundaries(file) : In(file, region, j, i)
        BY <1>2, <2>2, InsideOne, TameIs
      <3>2. PICK o \in OpenerAt(file, j), p \in 1..(Len(file.text) + 1) :
               p = j + Len(o.tok) /\ region = o.region /\ Untouched(file, region, p, i)
        BY <1>1, <3>1, InIs
      <3>3. ~(Has(file.text, region.ends, i) /\ (region.only = "column one" => ColumnOne(file.text, i)))
        BY <1>1, <1>2, <2>2, TameCloser DEF Closes
      <3>4. ~Ends(file.text, region, p, i)
        BY <3>3 DEF Ends
      <3>5. region.quoting = "backslash" => file.text[i] # "\\"
        BY <1>1, <1>2 DEF Escapes
      <3>6. region.quoting = "twice" => file.text[i] # region.ends[1]
        <4> SUFFICES ASSUME region.quoting = "twice", file.text[i] = region.ends[1] PROVE FALSE
          OBVIOUS
        <4>1. Len(region.ends) = 1 /\ region.only = "any"
          BY <2>2 DEF Tame
        <4>2. \A k \in 1..1 : k = 1 /\ i + k - 1 = i
          BY <1>1
        <4>3. Has(file.text, region.ends, i)
          BY <1>1, <1>3, <4>1, <4>2 DEF Has
        <4> QED BY <3>3, <4>1, <4>3
      <3>7. Untouched(file, region, p, i + 1)
        BY <1>1, <1>3, <2>2, <3>2, <3>4, <3>5, <3>6, Passing
      <3>8. In(file, region, j, i + 1)
        BY <3>2, <3>7 DEF In
      <3>9. i \in CommentInsides(file) <=> region.body # "copy"
        <4>1. PICK y : y = i + 1
          OBVIOUS
        <4>2. i \in i..(y - 1) /\ In(file, region, j, y)
          BY <1>1, <3>8, <4>1
        <4> QED BY <1>1, <3>1, <4>2, InsideIs
      <3>10. region.body \in {"copy", "blank", "blank but tabs"}
        BY <2>2, TameIs
      <3>11. Showing(i, Remnant(text[i]))
        <4>1. CASE region.body = "copy"
          BY <3>9, <4>1 DEF Showing, Remnant
        <4>2. CASE region.body # "copy"
          <5>1. Remnant(text[i]) \in {Space, NL, Tab}
            BY <3>10, <4>2 DEF Remnant
          <5> QED BY <3>9, <4>2, <5>1 DEF Showing
        <4> QED BY <4>1, <4>2
      <3> QED BY <3>8, <3>11 DEF Placed
    <2> QED BY <1>2, <2>1, <2>2, InsideOne
  <1>5. Remnant(text[i]) \in Glyph
    <2>1. text[i] \in Symbol
      BY <1>3, Usual, ElementOfSeq
    <2> QED BY <2>1, ShownRemains DEF Remnant, Glyph, NL, Tab, Space, Delimiter
  <1>6. /\ <<Remnant(text[i])>> \in Seq(Glyph) /\ Len(<<Remnant(text[i])>>) = 1
        /\ \A k \in 1..1 : Showing(i + k - 1, <<Remnant(text[i])>>[k])
    BY <1>4, <1>5, Single
  <1>7. 1 \in Nat \ {0} /\ i + 1 - 1 <= Len(text) /\ \A k \in i..(i + 1 - 1) : k = i
    BY <1>1, <1>3
  <1>8. lang.byLine => \A k \in i..(i + 1 - 1) : text[k] # NL
    BY <1>3, <1>7
  <1> QED BY <1>2, <1>3, <1>4, <1>6, <1>7, <1>8, Moved

-----------------------------------------------------------------------------
LEMMA FollowsFirst == ASSUME Init PROVE Follows
  <1>1. file \in Files /\ i = 1 /\ region = Code /\ scalar = 0
    BY DEF Init
  <1>2. PICK t : t = file.text
    OBVIOUS
  <1>3. text = t /\ Len(t) \in Nat
    BY <1>1, <1>2, TextIs DEF text
  <1>4. Holding(file, scalar, region, i)
    <2>1. \A h : ~Header(t, h, 1)
      BY DEF Header, LineStarts
    <2>2. Tracks(t, 0, 1)
      BY <2>1 DEF Tracks
    <2>3. 1 \in 1..Len(t) => 1 \in LineStarts(t)
      BY DEF LineStarts, ColumnOne
    <2> QED BY <1>1, <1>2, <2>2, <2>3 DEF Holding
  <1>5. Placed(file, region, i)
    <2>1. At(file, 1)
      <3>1. CASE Len(t) = 0
        BY <1>2, <3>1 DEF At
      <3>2. CASE Len(t) # 0
        <4>1. 1 \in 1..Len(file.text) /\ Len(file.text) \in Nat
          BY <1>2, <1>3, <3>2
        <4>2. 1 \in Boundaries(file)
          BY <4>1, BoundariesAre
        <4> QED BY <4>2 DEF At
      <3> QED BY <3>1, <3>2
    <2> QED BY <1>1, <2>1 DEF Placed
  <1>6. i <= Len(text) + 1 /\ 1..(i - 1) = {}
    BY <1>1, <1>3
  <1> QED BY <1>4, <1>5, <1>6 DEF Follows

LEMMA FollowsStep == IInv /\ Follows /\ [Next]_vars => Follows'
  <1> SUFFICES ASSUME IInv, Follows, [Next]_vars PROVE Follows'
    OBVIOUS
  <1>1. file' = file
    BY DEF Next, vars, ScalarLine, LineBreak, CollapseJsx, CollapseDoc, KeepDoc, OpenRaw,
       OpenRegion, PlainCode, EscapeNext, RepeatCloser, Nest, Close, Within, Move
  <1>2. CASE ~Plain(file)
    BY <1>1, <1>2 DEF Follows
  <1>3. CASE Plain(file)
    <2>1. CASE ScalarLine           BY <1>3, <2>1, ScalarLineFollows
    <2>2. CASE LineBreak            BY <1>3, <2>2, LineBreakFollows
    <2>3. CASE CollapseJsx \/ CollapseDoc \/ KeepDoc \/ OpenRaw
      <3>1. ~AtJsxComment /\ ~AtDocComment /\ ~lang.raws
        BY <1>3, Usual
      <3> QED BY <2>3, <3>1 DEF CollapseJsx, CollapseDoc, KeepDoc, OpenRaw
    <2>4. CASE OpenRegion           BY <1>3, <2>4, OpenRegionFollows
    <2>5. CASE PlainCode            BY <1>3, <2>5, PlainCodeFollows
    <2>6. CASE EscapeNext           BY <1>3, <2>6, EscapeNextFollows
    <2>7. CASE RepeatCloser         BY <1>3, <2>7, RepeatCloserFollows
    <2>8. CASE Nest                 BY <1>3, <2>8, NoNest DEF Nest
    <2>9. CASE Close                BY <1>3, <2>9, CloseFollows
    <2>10. CASE Within              BY <1>3, <2>10, WithinFollows
    <2>11. CASE UNCHANGED vars
      BY <2>11 DEF Follows, Showing, Shown, text, lang, vars
    <2> QED
      BY <2>1, <2>2, <2>3, <2>4, <2>5, <2>6, <2>7, <2>8, <2>9, <2>10, <2>11 DEF Next
  <1> QED BY <1>2, <1>3

(* In every reachable state, for every set of symbols and of texts, and for   *)
(* every language but Rust, JSX and Vue (where a slash may open a regular     *)
(* expression, of texts without a class in brackets; of Fortran, of ASCII    *)
(* texts): when a text is read in which no sign is Misread, what stands in    *)
(* the view in place of a symbol is a blank if the symbol is inside of a      *)
(* comment, as the text is divided into regions by what opens and what ends   *)
(* each, and if it is not, the symbol as the lexer shows it (strip_noise).    *)
THEOREM CommentsAreBlanked == Spec => []OnlyCommentsAreBlanked
  <1>1. Init => IInv /\ Follows
    BY Starting, FollowsFirst
  <1>2. IInv /\ Follows /\ [Next]_vars => (IInv /\ Follows)'
    BY Inductive, FollowsStep
  <1>3. IInv /\ Follows => OnlyCommentsAreBlanked
    <2> SUFFICES ASSUME IInv, Follows, Finished, Plain(file), AsMeant(file)
                 PROVE  \A k \in DOMAIN text : Showing(k, out[k])
      BY DEF OnlyCommentsAreBlanked, Showing
    <2>1. DOMAIN text = 1..Len(text) /\ Len(text) \in Nat /\ i \in Nat
      BY Usual, TextIs
    <2>2. \A k \in 1..(i - 1) : Showing(k, out[k])
      BY DEF Follows
    <2> QED BY <2>1, <2>2 DEF Finished
  <1> QED BY <1>1, <1>2, <1>3, PTL DEF Spec

=============================================================================
