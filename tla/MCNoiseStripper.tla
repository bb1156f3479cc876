-------------------------- MODULE MCNoiseStripper ---------------------------
(* Every language on every text of three pieces of its own vocabulary, and  *)
(* of five pieces where regions nest.                                       *)
EXTENDS NoiseStripper

Vocabulary(ext) ==
    CASE ext \in {"c", "swift", "scala", "kt"} ->
            {<<"/">>, <<"*">>, D1, Q1, D3, <<"\\">>, <<"R", "\"">>, <<")">>}
      [] ext = "cs" -> {SlashSlash, SlashStar, StarSlash, <<"@">>, D1, Q1, <<"\\">>}
      [] ext = "dart" -> {SlashSlash, SlashStar, StarSlash, Q3, Q1, <<"r">>, <<"\\">>}
      [] ext \in {"ex", "graphql", "jl"} -> {<<"#">>, <<"?">>, <<"=">>, D1, Q1, D3, Q3, <<"\\">>}
      [] ext \in {"erl", "hs", "lua"} ->
            {<<"%">>, <<"-">>, <<"{">>, <<"}">>, <<"[", "[">>, Brackets, D1, Q1, <<"\\">>}
      [] ext \in {"f", "f90"} ->
            {<<"c">>, <<"*">>, <<"!">>, <<Tab>>, D1, Q1, <<"\\">>, <<High, Trail>>}
      [] ext = "go" -> {SlashSlash, SlashStar, StarSlash, <<"go:">>, <<Space>>, Tick, D1, <<"\\">>}
      [] ext = "gradle" -> {<<"/">>, StarSlash, SlashStar, <<"=">>, <<Space>>, Q3, <<"\\">>}
      [] ext = "ts" -> {<<"/">>, <<"*">>, <<"{">>, <<"[">>, <<"]">>, Tick, <<"\\">>}
      [] ext \in {"jsx", "vue"} ->
            {<<"{">>, SlashStar, <<"*">>, StarSlash, <<"}">>, SlashSlash, D1}
      [] ext = "php" -> {SlashSlash, <<"#">>, <<"[">>, SlashStar, StarSlash, D1, <<"\\">>}
      [] ext = "py" -> {<<"#">>, <<"!">>, <<"coding:">>, <<Space>>, D1, D3, <<"\\">>}
      [] ext = "rb" -> {<<"#">>, <<"!">>, <<Space>>, <<"=begin">>, <<"=end">>, <<NL, "=end">>, D1}
      [] ext = "rs" -> {SlashStar, StarSlash, SlashSlash, <<"!">>, <<"r">>, <<"b", "r">>, <<"#">>, D1, Q1, <<"\\">>}
      [] ext = "sh" -> {<<"#">>, <<"!">>, <<Space>>, Tick, Q1, D1, <<"\\">>}
      [] ext = "toml" -> {<<"#">>, Q1, D1, Q3, D3, <<"\\">>}
      [] ext = "vb" -> {Q1, D1, <<"Rem">>, <<"REM">>, <<Space>>}
      [] ext = "yaml" -> {<<"#">>, Q1, D1, <<"|", NL>>, <<Space>>, <<"\\">>, <<NL, Space>>}
      [] OTHER -> {<<"#">>, SlashSlash}

Extensions ==
    {"c", "cs", "dart", "ex", "erl", "f", "f90", "go", "graphql", "gradle", "hs", "jl", "jsx", "kt",
     "lua", "php", "py", "rb", "rs", "scala", "sh", "swift", "toml", "ts", "vb", "vue", "yaml",
     "md"}

Pieces(ext) == Vocabulary(ext) \cup {<<NL>>, <<"a">>}
Core(ext) ==
    CASE ext = "rs" -> {SlashStar, StarSlash, <<"a">>}
      [] ext = "jsx" -> {<<"{", "/", "*", "*">>, <<"a">>, StarSlash, <<"}">>}
      [] ext = "ts" -> {<<"/">>, <<"[">>, <<"]">>, <<"=">>}
      [] ext = "yaml" -> {<<"|", NL>>, <<Space>>, <<"#">>, <<NL>>}
      [] ext = "c" -> {D1, <<"\\">>, SlashSlash, <<"a">>}
      [] OTHER -> {<<High, Trail>>}

Texts(ext) ==
    {p \o q \o r : p, q, r \in Pieces(ext)}
    \cup {p \o q \o r \o s \o t : p, q, r, s, t \in Core(ext)}

MCSymbol ==
    {NL, Space, Tab, High, Trail, "a", "'", "\"", "/", "*", "-", "[", "]", "tick", "#", "R", "(", ")", "@",
     "r", "b", "%", "c", "!", "?", "{", "}", "=", "|", "\\", "go:", "coding:", "=begin", "=end", "Rem", "REM"}
(* Doc comments in JSX that may run over a line.                            *)
JsxFiles ==
    [ext : {"jsx"},
     text : {o \o p \o q \o <<"*", "/", "}">> : o \in {<<"{", "/", "*", "*">>, DocComment},
                                            p, q \in {<<NL>>, <<"a">>, <<Space>>}}]

(* Statements of free-form Fortran that begin at column one.                *)
FreeFormFiles ==
    [ext : FreeForm, text : {p \o q \o r : p, q, r \in {<<"c">>, <<"a">>, <<"!">>, Q1, <<NL>>}}]

MCFiles == UNION {[ext : {e}, text : Texts(e)] : e \in Extensions}

=============================================================================
