----------------------------- MODULE MCFileEdits ----------------------------
(***************************************************************************)
(* One small file per language and pair of item kinds: an optional header,   *)
(* an item "ab" with a body that names it, and a second item beside it or    *)
(* inside it.  The kinds of leaf that spell a name are those of the          *)
(* grammars.                                                                *)
(***************************************************************************)
EXTENDS FileEdits, Grammars

Leaf(kind, field, depth, t) ==
    [kind |-> kind, field |-> field, depth |-> depth, text |-> Chars(t)]

Types == {"struct_item", "enum_item", "trait_item", "type_item", "class_declaration",
          "interface_declaration", "type_alias_declaration", "protocol_declaration",
          "struct_specifier", "enum_specifier", "class_specifier"}

LeafKind(ext, kind) ==
    CASE ext \in {"rs", "ts", "tsx", "swift", "c", "cpp"} /\ kind \in Types -> "type_identifier"
      [] ext = "go" /\ kind = "type_declaration" -> "type_identifier"
      [] ext = "graphql" -> "name"
      [] ext = "proto" -> kind \o "_name"
      [] ext = "rb" /\ kind \in {"class", "module"} -> "constant"
      [] ext = "erl" -> "atom"
      [] ext = "hs" -> IF kind = "module" THEN "module_id"
                       ELSE IF kind \in {"function", "linear_function"} THEN "variable" ELSE "name"
      [] ext = "php" -> "name"
      [] ext = "sh" -> IF kind = "function_definition" THEN "word" ELSE "variable_name"
      [] ext = "asm" -> "word"
      [] ext = "ps1" -> IF kind = "function_statement" THEN "function_name" ELSE "variable"
      [] ext = "pl" /\ kind = "package_statement" -> "package_name"
      [] ext = "js" /\ kind = "method_definition" -> "property_identifier"
      [] ext = "mm" /\ kind \in {"method_declaration", "method_definition"} -> "method_identifier"
      [] kind = "defmodule" -> "alias"
      [] OTHER -> "identifier"

NodeKinds(ext) ==
    IF ext = "ex" THEN {"defmodule", "def", "defp"}
    ELSE UNION {Languages[ext].items[k] : k \in DOMAIN Languages[ext].items \ {"Import"}}

(* How an item is put together: its leaf, where the rules look for it (a     *)
(* Haskell module has no field for its name), its keyword, which in three   *)
(* grammars has the item's own kind, and the body that makes it a function   *)
(* where that decides.                                                      *)
Shape(ext, kind) ==
    [ext |-> ext, kind |-> kind, leaf |-> LeafKind(ext, kind),
     rule |-> RulesFor(Languages[ext], kind)[IF LeafKind(ext, kind) = "module_id" THEN 2 ELSE 1],
     body |-> Languages[ext].body,
     capital |-> \/ LeafKind(ext, kind) \in {"constant", "alias", "module_id"}
                 \/ ext = "hs" /\ LeafKind(ext, kind) = "name"]

Shapes == {Shape(ext, kind) : <<ext, kind>> \in
            UNION {{ext} \X NodeKinds(ext) : ext \in DOMAIN Languages}}

Spell(sh, s) == IF sh.capital THEN "Ab" ELSE IF sh.leaf = "variable" /\ sh.ext = "ps1" THEN "$" \o s ELSE s

NameLeaves(sh, d, s) ==
    IF sh.kind = "defmodule" \/ sh.rule.go = "self" THEN <<Leaf(sh.leaf, NoField, d, s)>>
    ELSE CASE sh.rule.go = "child" /\ sh.rule.then = {} -> <<Leaf(sh.leaf, NoField, d, s)>>
           [] sh.rule.go = "child" /\ sh.rule.then # {} ->
                <<Leaf("type_spec", NoField, d, ""), Leaf(sh.leaf, "name", d + 1, s)>>
           [] sh.rule.go = "field" /\ sh.rule.then # {} ->
                <<Leaf("declarator", "declarator", d, ""), Leaf(sh.leaf, NoField, d + 1, s)>>
           [] sh.rule.go = "field" /\ sh.rule.then = {} ->
                <<Leaf(sh.leaf, CHOOSE f \in sh.rule.to : TRUE, d, s)>>

Opening(sh, d) ==
    IF sh.ext = "ex" THEN <<Leaf("call", NoField, d, ""), Leaf("identifier", "target", d + 1, sh.kind)>>
    ELSE IF sh.ext \in {"nix", "r"} THEN <<Leaf(sh.kind, NoField, d, "")>>
    ELSE <<Leaf(sh.kind, NoField, d, ""),
           Leaf(IF sh.ext \in {"rb", "hs", "proto"} THEN sh.kind ELSE "keyword", NoField, d + 1, "kw"),
           Gap(<<" ">>, d + 1)>>

(* An item named s, with a body that uses the leaf `used`.                   *)
Item(sh, d, s, used) ==
    Opening(sh, d) \o NameLeaves(sh, d + 1, Spell(sh, s))
    \o <<Gap(<<" ">>, d + 1), Leaf("body", NoField, d + 1, "")>>
    \o (IF sh.body = {} THEN <<>> ELSE <<Leaf(CHOOSE k \in sh.body : TRUE, NoField, d + 2, ""),
                                          Leaf("keyword", NoField, d + 3, "fn")>>)
    \o <<Leaf("{", NoField, d + 2, "{"), used, Leaf("}", NoField, d + 2, "}")>>

Use(sh, d, s) == Leaf(sh.leaf, NoField, d, Spell(sh, s))

(* What stands above the items: imports, or a header line and what follows.  *)
Above(ext) ==
    {<<>>}
    \cup (IF "Import" \notin DOMAIN Languages[ext].items THEN {}
          ELSE {<<Leaf(k, NoField, 1, "use a"), Gap(<<"\n">>, 1)>> : k \in Languages[ext].items.Import})
    \cup (IF ext = "rs" THEN {<<Leaf("attribute_item", NoField, 1, "#[test]"), Gap(<<"\n">>, 1)>>} ELSE {})
    \cup (IF ext \notin {"go", "py", "sh"} THEN {}
          ELSE {<<Leaf("header", NoField, 1, IF ext = "go" THEN "package p" ELSE "#!sh"), Gap(<<"\n">>, 1)>> \o b :
                b \in {<<>>, <<Gap(<<"\n">>, 1)>>}
                      \cup (IF ext = "go" THEN {} ELSE {<<Leaf("command", NoField, 1, "run"), Gap(<<"\n">>, 1)>>})})
    \cup (IF ext # "go" THEN {}       \* a token that goes over the end of the first line
          ELSE {<<Leaf("header", NoField, 1, "package p"), Leaf("comment", NoField, 1, "/*\n\n*/"), Gap(<<"\n">>, 1)>>})

(* The second item: one kind of node for each of three kinds of item.        *)
Seconds(ext) ==
    IF ext = "ex" THEN {"defmodule", "def"}
    ELSE IF ext = "hs" THEN {"module", "class", "function"}
    ELSE LET classes == DOMAIN Languages[ext].items \cap {"Function", "Struct", "Method", "Static"}
         IN  {CHOOSE k \in Languages[ext].items[c] : TRUE : c \in classes}

Camel == {"java", "go", "kt", "js", "ts", "swift"}       \* names with capitals in them

Variants(ext) ==
    [first : {sh \in Shapes : sh.ext = ext /\ sh.kind \in Seconds(ext)},
     second : {sh \in Shapes : sh.ext = ext /\ sh.kind \in Seconds(ext)},
     other : {"ab", IF ext \in Camel THEN "abTest" ELSE "ab_test"}, nested : BOOLEAN, above : Above(ext)]
    \cup {[first |-> sh, second |-> sh, other |-> "ab", nested |-> TRUE, above |-> <<>>] :
            sh \in {x \in Shapes : x.ext = ext}}

File(v) ==
    [path |-> [ext |-> v.first.ext, tests |-> FALSE], broken |-> FALSE,
     nodes |-> <<Leaf("source", NoField, 0, "")>> \o v.above
               \o Item(v.first, 1, "ab", Use(v.second, 3, v.other))
               \o (IF v.nested THEN <<>> ELSE <<Gap(<<"\n">>, 1)>>)
               \o Item(v.second, IF v.nested THEN 3 ELSE 1, v.other,
                       Use(v.first, IF v.nested THEN 5 ELSE 3, "ab"))]

(* The file of v with other line ends.                                      *)
Ended(v, ending) ==
    [File(v) EXCEPT !.nodes =
        [i \in DOMAIN @ |-> [@[i] EXCEPT !.text = WithEndings(@, ending)]]]
Plainest(ext) ==
    {v \in Variants(ext) : v.first = v.second /\ v.other = "ab" /\ ~v.nested}

(* And the empty file, in error or not, and one that no parser is for.       *)
MCFiles ==
    {File(v) : v \in UNION {Variants(ext) : ext \in DOMAIN Languages \ {"json", "toml", "yaml"}}}
    \cup {Ended(v, ending) :
            v \in UNION {Plainest(ext) : ext \in {"rs", "go", "py", "sh", "c"}},
            ending \in {<<"\r">>, <<"\r", "\n">>}}
    \cup {[path |-> [ext |-> ext, tests |-> FALSE], broken |-> b,
           nodes |-> <<Leaf("document", NoField, 0, "")>>] :
            ext \in {"json", "toml", "yaml", "rs"}, b \in BOOLEAN}
    \cup {[path |-> [ext |-> "txt", tests |-> FALSE], broken |-> FALSE, nodes |-> <<>>]}

MCStrings == STRING
MCAsked == {Chars("ab"), Chars("Ab")}
MCGiven == {Chars("x"), Chars("fn"), Chars("1x")}
MCMalformed == {Chars("1x")}
MCReserved == {Chars("fn")}
MCSpecs == {Chars("use a"), Chars("use bb"), Chars("a\nb"), <<>>}

MCContents ==
    {<<>>, <<"\n">>, <<"a">>, <<"a", "\r", "b", "\r">>, <<"a", "\n", "\n">>,
     <<"a", "\n", "b">>, <<"a", "\r\n", "b", "\r\n", "c", "\r\n">>}
=============================================================================
