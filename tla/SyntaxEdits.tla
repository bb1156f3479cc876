----------------------------- MODULE SyntaxEdits ----------------------------
(***************************************************************************)
(* The syntax tools of nerd-ast on one source file: rename_symbol,          *)
(* patch_symbol and ensure_import edit its text by the byte ranges of the   *)
(* tree; find_symbol, find_references and find_tests_for_symbol only look   *)
(* (nerd-ast/src/tools/*.rs).  The parser is external: `nodes` is the tree  *)
(* it makes of the file, in preorder, with the white space between tokens   *)
(* as leaves of kind "gap", and after an edit the tree of the edited file.  *)
(* The tools never see that second tree when they write `text`.             *)
(***************************************************************************)
EXTENDS Naturals, FiniteSets, SequencesExt, Texts

CONSTANTS
    Char,           \* the characters of a text
    Label,          \* the kinds of nodes and their fields
    Languages,      \* per extension, what is known of its grammar: ByExtension
    Files,          \* [path, nodes, broken] of the files there are
    Asked, Given,   \* the names asked for, and what they are replaced by
    Malformed,      \* replacements that are not identifiers
    Reserved,       \* identifiers that are keywords
    Specs,          \* imports asked for, as normalize_import_spec leaves them
    MaxEdits        \* bound: calls of the tools

NoField == "none"
Text == Seq(Char)
Node == [kind : Label, field : Label, depth : Nat, text : Text]

ASSUME LabelsAssumption == {"\n", "\r"} \subseteq Char /\ {NoField, "gap", "include"} \subseteq Label

ASSUME NamesAssumption == <<>> \notin Asked /\ Given \cup Specs \subseteq Text

(* Imports are nodes of their own, no calls, and need no name.              *)
ASSUME LanguagesAssumption ==
    \A ext \in DOMAIN Languages : LET l == Languages[ext] IN
        /\ "Import" \in DOMAIN l.items =>
              l.items.Import # {} /\ l.items.Import \subseteq Label \ {"call"}
        /\ "Import" \notin l.needs
        /\ \A w \in DOMAIN l.calls : l.calls[w] # "Import"

ItemKinds(l) == {"call"} \cup UNION {l.items[k] : k \in DOMAIN l.items}

(* What the parser makes of a file has a root, that is no item, hides none,  *)
(* and spells nothing itself.                                               *)
Rooted(l, ns) == ns # <<>> /\ ns[1].text = <<>> /\ ns[1].kind \notin ItemKinds(l) \cup l.hides
ASSUME FilesAssumption ==
    \A f \in Files :
        /\ f.nodes \in Seq(Node)
        /\ f.path.ext \in DOMAIN Languages => Rooted(Languages[f.path.ext], f.nodes)

VARIABLES
    path,       \* the file's extension, and whether its path is that of tests
    nodes, broken,  \* the tree of the file; whether it has errors
    text,       \* the file
    last,       \* the latest call, with its outcome
    edits       \* calls so far

syntaxVars == <<path, nodes, broken, text, last, edits>>

lang == Languages[path.ext]
Supported == DOMAIN Languages

Render(ns) == FlattenSeq([i \in DOMAIN ns |-> ns[i].text])

LastOf(ns, i) ==
    LET out == {k \in (i + 1)..Len(ns) : ns[k].depth <= ns[i].depth}
    IN  IF out = {} THEN Len(ns) ELSE Min(out) - 1
Subtree(ns, i) == i..LastOf(ns, i)
Children(ns, i) ==
    {j \in Subtree(ns, i) : ns[j].depth = ns[i].depth + 1 /\ ns[j].kind # "gap"}
Ancestors(ns, i) == {j \in 1..(i - 1) : \A k \in (j + 1)..i : ns[k].depth > ns[j].depth}
TextOf(ns, i) == Render(SubSeq(ns, i, LastOf(ns, i)))

(* A node's bytes are those after `from`, up to `to`.                       *)
Bytes(ns, i) == [from |-> Len(Render(SubSeq(ns, 1, i - 1))),
                 to   |-> Len(Render(SubSeq(ns, 1, LastOf(ns, i))))]
Within(r, outer) == r.from >= outer.from /\ r.to <= outer.to

-----------------------------------------------------------------------------
(* The items of a file.                                                     *)

(* The nodes a rule leads to from node i, in the order they are tried.      *)
Reached(ns, i, rule) ==
    LET from == CASE rule.go = "self"  -> {i}
                  [] rule.go = "field" -> {j \in Children(ns, i) : ns[j].field \in rule.to}
                  [] rule.go = "child" -> {j \in Children(ns, i) : ns[j].kind \in rule.to}
                  [] rule.go = "first" -> Children(ns, i)
    IN  IF rule.then = {} \/ from = {} THEN from
        ELSE {k \in Subtree(ns, Min(from)) : ns[k].kind \in rule.then}

RulesFor(l, kind) == IF kind \in DOMAIN l.special THEN l.special[kind] ELSE l.rules

(* An Elixir call: the first word says what it defines, the second names it. *)
Words(l, ns, i) == Reached(ns, i, l.rules[1])
Defines(l, ns, i) ==
    /\ ns[i].kind = "call" /\ Words(l, ns, i) # {}
    /\ ns[Min(Words(l, ns, i))].text \in DOMAIN l.calls

(* The leaf or inner node that spells the name; 0: none.                    *)
NameNode(l, ns, i) ==
    LET rules == RulesFor(l, ns[i].kind)
        found == {r \in DOMAIN rules : Reached(ns, i, rules[r]) # {}}
        places == IF Defines(l, ns, i) THEN Words(l, ns, i) \ {Min(Words(l, ns, i))}
                  ELSE IF found = {} THEN {} ELSE Reached(ns, i, rules[Min(found)])
    IN  IF places = {} THEN 0 ELSE Min(places)

Trimmed(l, t) == IF t # <<>> /\ t[1] \in l.trims THEN Tail(t) ELSE t
Unlabelled(t) == IF t # <<>> /\ t[Len(t)] = ":" THEN Front(t) ELSE t

ClassesOf(l, ns, i) ==
    IF Defines(l, ns, i) THEN {l.calls[ns[Min(Words(l, ns, i))].text]}
    ELSE {k \in DOMAIN l.items : ns[i].kind \in l.items[k]}

Kind(l, ns, i, class) ==
    IF class = "Function" /\ \E j \in Ancestors(ns, i) : ns[j].kind \in l.within THEN "Method"
    ELSE IF class = "Static" /\ \E j \in Subtree(ns, i) : ns[j].kind \in l.body THEN "Function"
    ELSE class

NameAt(l, ns, i) ==
    LET n == NameNode(l, ns, i)
    IN  IF n = 0 THEN <<>>
        ELSE IF n = i THEN Unlabelled(TextOf(ns, i)) ELSE Trimmed(l, TextOf(ns, n))

(* collect_items: [at, kind, name], name <<>> for none.                     *)
Items(l, ns) ==
    LET here(i) == {[at |-> i, kind |-> Kind(l, ns, i, c), name |-> NameAt(l, ns, i)] :
                        c \in ClassesOf(l, ns, i)}
    IN  {it \in UNION {here(i) : i \in DOMAIN ns} :
            /\ it.name = <<>> => it.kind \notin l.needs
            /\ l.hides # {} => \A j \in Ancestors(ns, it.at) : ns[j].kind \notin l.hides}

Definitions(l, ns, symbol) == {it \in Items(l, ns) : it.name = symbol}

-----------------------------------------------------------------------------
(* Identifiers.  rename_symbol, find_references and find_tests_for_symbol   *)
(* each have their own copy of the test.                                    *)

WholeNames(kind) == kind \in {"identifier", "name", "word"}   \* mutant: no suffixes
IsIdentifierLike(kind) ==
    kind \in {"identifier", "name", "word"} \/ Ends(kind, "_identifier") \/ Ends(kind, "_name")
IsReferenceLike(kind) ==
    kind \in {"identifier", "name", "word"} \/ Ends(kind, "_identifier") \/ Ends(kind, "_name")

Spelt(ns, symbol) == {i \in DOMAIN ns : ns[i].text = symbol /\ Subtree(ns, i) = {i}}
Occurrences(ns, symbol) == {i \in Spelt(ns, symbol) : IsIdentifierLike(ns[i].kind)}
References(ns, symbol) == {i \in Spelt(ns, symbol) : IsReferenceLike(ns[i].kind)}

(* A text without the blanks around it, and with small letters.             *)
White == {" ", "\t", "\r", "\n"}
Stripped(t) ==
    LET solid == {p \in DOMAIN t : t[p] \notin White}
    IN  IF solid = {} THEN <<>> ELSE SubSeq(t, Min(solid), Max(solid))

Capitals == Chars("ABCDEFGHIJKLMNOPQRSTUVWXYZ")
Smalls == Chars("abcdefghijklmnopqrstuvwxyz")
Lowered(t) ==
    LET small(c) == Smalls[CHOOSE k \in DOMAIN Capitals : Capitals[k] = c]
    IN  [p \in DOMAIN t |-> IF t[p] \in Range(Capitals) THEN small(t[p]) ELSE t[p]]

(* The tests of a symbol in this file: functions that look like tests by    *)
(* path, name or an attribute in the three lines above, and refer to it.    *)
IsTestName(name) ==
    LET small == Lowered(name)
    IN  Mentions(small, Chars("test")) \/ Mentions(small, Chars("spec"))
        \/ Starts(small, Chars("should_"))

LineOf(t, p) ==                 \* the number of the line that holds byte p
    1 + Cardinality({b \in Breaks(t) : b <= p})
LineAt(t, n) ==                 \* the text of line n
    LET Stop(k) == CHOOSE p \in Stops(t) : Cardinality({q \in Stops(t) : q < p}) = k
    IN  SubSeq(t, Stop(n - 1) + 1, Stop(n) - 1)

HasTestAttribute(t, line) ==
    \E n \in 1..(line - 1) :
        /\ n + 3 >= line
        /\ Starts(Stripped(LineAt(t, n)), Chars("#[")) /\ Mentions(LineAt(t, n), Chars("test"))

IsTestLike(t, ns, it) ==
    path.tests \/ IsTestName(it.name) \/ HasTestAttribute(t, LineOf(t, Bytes(ns, it.at).from))

TestsFor(l, t, ns, bad, symbol) ==           \* none in a file with errors
    {it \in Items(l, ns) :
        /\ ~bad
        /\ it.kind \in {"Function", "Method"} /\ it.name # <<>> /\ IsTestLike(t, ns, it)
        /\ \E r \in References(ns, symbol) : Within(Bytes(ns, r), Bytes(ns, it.at))}

-----------------------------------------------------------------------------
(* The editing tools.                                                       *)

SyntaxInit ==
    /\ \E f \in Files : path = f.path /\ nodes = f.nodes /\ broken = f.broken
    /\ text = Render(nodes)
    /\ last = [tool |-> "none"]
    /\ edits = 0

Call(tool, asked, outcome) ==
    /\ edits' = edits + 1
    /\ last' = [tool |-> tool, asked |-> asked, outcome |-> outcome]
    /\ UNCHANGED path

Refused(tool, asked, why) ==
    Call(tool, asked, why) /\ UNCHANGED <<nodes, broken, text>>

ReplaceBytes(t, r, by) == SubSeq(t, 1, r.from) \o by \o SubSeq(t, r.to + 1, Len(t))

ReplaceFrom(t, ranges, by, p) ==                  \* at byte p, if a range begins there
    IF \E r \in ranges : r.from = p
    THEN ReplaceBytes(t, CHOOSE r \in ranges : r.from = p, by) ELSE t

ReplaceForward(t, ranges, by) ==                \* mutant: first to last
    LET done[n \in 0..(Len(t) + 1)] ==
            IF n = 0 THEN t ELSE ReplaceFrom(done[n - 1], ranges, by, n - 1)
    IN  done[Len(t) + 1]
ReplaceRanges(t, ranges, by) ==                 \* last to first
    LET done[n \in 0..(Len(t) + 1)] ==
            IF n = 0 THEN t ELSE ReplaceFrom(done[n - 1], ranges, by, Len(t) + 1 - n)
    IN  done[Len(t) + 1]

(* rename_symbol: every identifier of that name, whatever it refers to; the  *)
(* result is not parsed again.                                              *)
RenameSymbol(symbol, replacement) ==
    \E found \in {Occurrences(nodes, symbol)}, defined \in {Definitions(lang, nodes, symbol)} :
    LET refuse(why) == Refused("rename", [symbol |-> symbol, by |-> replacement], why)
    IN  \/ replacement \in Malformed /\ refuse("InvalidReplacement")
        \/ replacement \notin Malformed /\ broken /\ refuse("SourceHasErrors")
        \/ replacement \notin Malformed /\ ~broken /\ defined = {} /\ refuse("SymbolNotFound")
        \/ /\ replacement \notin Malformed /\ ~broken /\ defined # {}
           /\ text' = ReplaceRanges(text, {Bytes(nodes, i) : i \in found}, replacement)
           /\ nodes' = [i \in DOMAIN nodes |->
                            IF i \in found THEN [nodes[i] EXCEPT !.text = replacement]
                            ELSE nodes[i]]
           /\ broken' = (found # {} /\ replacement \in Reserved)
           /\ Call("rename", [symbol |-> symbol, by |-> replacement], "written")

(* A subtree as an agent rewrites it: node n spells another name.            *)
Rewritten(ns, n, name) ==
    [k \in DOMAIN ns |-> IF k = n THEN [ns[k] EXCEPT !.text = name] ELSE ns[k]]

(* patch_symbol: the one definition of that name gives way to the           *)
(* replacement, if what comes of it still parses.                           *)
PatchSymbol(symbol, name) ==
    \E found \in {Definitions(lang, nodes, symbol)} :
    LET refuse(why) == Refused("patch", [symbol |-> symbol, by |-> name], why)
    IN  \/ broken /\ refuse("SourceHasErrors")
        \/ ~broken /\ found = {} /\ refuse("SymbolNotFound")
        \/ ~broken /\ Cardinality(found) > 1 /\ refuse("AmbiguousSymbol")
        \/ /\ ~broken /\ Cardinality(found) = 1 /\ name \in Malformed \cup Reserved
           /\ refuse("ReplacementHasErrors")
        \/ /\ ~broken /\ Cardinality(found) = 1 /\ name \notin Malformed \cup Reserved
           /\ \E it \in found, end \in DOMAIN nodes :
                /\ end = LastOf(nodes, it.at)
                /\ \E new \in {Rewritten(SubSeq(nodes, it.at, end),
                                         NameNode(lang, nodes, it.at) - it.at + 1, name)} :
                    /\ text' = ReplaceBytes(text, Bytes(nodes, it.at), Render(new))
                    /\ nodes' = SubSeq(nodes, 1, it.at - 1) \o new
                                    \o SubSeq(nodes, end + 1, Len(nodes))
           /\ UNCHANGED broken
           /\ Call("patch", [symbol |-> symbol, by |-> name], "written")

-----------------------------------------------------------------------------
(* ensure_import.                                                           *)

Imports(ns) == {it.at : it \in {x \in Items(lang, ns) : x.kind = "Import"}}

(* Without the blanks around it, and with line feeds for its line ends.      *)
NormalizedBlock(t) ==
    LET s == Stripped(t)
        Normal(p) == IF s[p] # "\r" THEN <<s[p]>> ELSE IF s[p + 1] = "\n" THEN <<>> ELSE <<"\n">>
    IN  FlattenSeq([p \in DOMAIN s |-> Normal(p)])
ASSUME SpecsAssumption == \A spec \in Specs : NormalizedBlock(spec) = spec

AlreadyAnItem(t, ns, imports, spec) ==          \* mutant: lines are not looked at
    \E i \in imports : NormalizedBlock(TextOf(ns, i)) = spec
AlreadyPresent(t, ns, imports, spec) ==
    \/ \E i \in imports : NormalizedBlock(TextOf(ns, i)) = spec
    \/ \E line \in Lines(t) : NormalizedBlock(line) = spec

(* detect_line_ending; an import is written with the line ends of its file.  *)
DetectLineEnding(t) ==
    LET returns == {p \in DOMAIN t : t[p] = "\r"}
    IN  IF \E p \in Breaks(t) : p - 1 \in returns THEN <<"\r", "\n">>
        ELSE IF Breaks(t) = {} /\ returns # {} THEN <<"\r">> ELSE <<"\n">>
WithEndings(t, ending) ==
    FlattenSeq([p \in DOMAIN t |-> IF t[p] = "\n" THEN ending ELSE <<t[p]>>])

HasHeader(t) ==
    \/ path.ext = "go" /\ Starts(t, Chars("package "))
    \/ path.ext \in {"py", "sh"} /\ Starts(t, Chars("#!"))

(* After the import that ends last, else after Go's first line or a shebang, *)
(* else at the top.                                                         *)
InsertionByte(t, ns, imports) ==
    IF imports # {} THEN Max({Bytes(ns, i).to : i \in imports})
    ELSE IF HasHeader(t) /\ Breaks(t) # {} THEN Min(Breaks(t)) ELSE 0

Inserted(t, byte, import, ending) ==
    IF byte = 0 THEN import \o ending \o t
    ELSE SubSeq(t, 1, byte) \o ending \o import \o SubSeq(t, byte + 1, Len(t))

(* Nothing is put after the import: behind a header line it runs into what   *)
(* follows.                                                                 *)
LineEndsAt(t, p) == t[p] = "\n" \/ (t[p] = "\r" /\ p < Len(t) /\ t[p + 1] = "\n")
RunsOn(t, imports, byte) ==
    imports = {} /\ byte \notin {0, Len(t)} /\ ~LineEndsAt(t, byte + 1)

Gap(blank, depth) == [kind |-> "gap", field |-> NoField, depth |-> depth, text |-> blank]
ImportNode(import, depth) ==
    [kind |-> IF "Import" \in DOMAIN lang.items THEN CHOOSE k \in lang.items.Import : TRUE
              ELSE "include", field |-> NoField, depth |-> depth, text |-> import]

(* The tree of the new text: the import behind node k, or at the top, or in  *)
(* the midst of a token that goes over the end of the first line.           *)
NodeOver(byte) == Min({k \in DOMAIN nodes : Len(Render(SubSeq(nodes, 1, k))) >= byte})
Behind(k, new) == SubSeq(nodes, 1, k) \o new \o SubSeq(nodes, k + 1, Len(nodes))
Grown(imports, byte, ran, import, ending) ==
    IF byte = 0 THEN Behind(1, <<ImportNode(import, 1), Gap(ending, 1)>>)
    ELSE IF imports # {}
    THEN LET i == CHOOSE i \in imports : Bytes(nodes, i).to = byte
         IN  Behind(LastOf(nodes, i),
                    <<Gap(ending, nodes[i].depth), ImportNode(import, nodes[i].depth)>>)
    ELSE LET k == NodeOver(byte)
             inside == byte - Len(Render(SubSeq(nodes, 1, k - 1)))
         IN  IF inside < Len(nodes[k].text)
             THEN [nodes EXCEPT ![k].text = Inserted(@, inside, import, ending)]
             ELSE IF ~ran THEN Behind(k, <<Gap(ending, 1), ImportNode(import, 1)>>)
             ELSE SubSeq(nodes, 1, k)
                    \o <<Gap(ending, 1), [nodes[k + 1] EXCEPT !.text = import \o @]>>
                    \o SubSeq(nodes, k + 2, Len(nodes))

(* Run into a command of a script, the import may still parse as part of it. *)
MayParse(byte, ran) ==
    ran => \E k \in DOMAIN nodes : nodes[k].kind = "command" /\ Bytes(nodes, k).from = byte

EnsureImport(spec) ==
    \E imports \in {Imports(nodes)} :
    \E byte \in {InsertionByte(text, nodes, imports)} :
    \E ran \in {RunsOn(text, imports, byte)}, present \in {AlreadyPresent(text, nodes, imports, spec)} :
    LET refuse(why) == Refused("import", [spec |-> spec, ran |-> FALSE], why)
    IN  \/ spec = <<>> /\ refuse("EmptyImportSpec")
        \/ spec # <<>> /\ broken /\ refuse("SourceHasErrors")
        \/ spec # <<>> /\ ~broken /\ present /\ refuse("unchanged")
        \/ spec # <<>> /\ ~broken /\ ~present /\ refuse("ImportIntroducesErrors")
        \/ /\ spec # <<>> /\ ~broken /\ ~present /\ MayParse(byte, ran)
           /\ \E ending \in {DetectLineEnding(text)} : \E import \in {WithEndings(spec, ending)} :
                /\ text' = Inserted(text, byte, import, ending)
                /\ nodes' = Grown(imports, byte, ran, import, ending)
           /\ UNCHANGED broken
           /\ Call("import", [spec |-> spec, ran |-> ran], "written")

(* detect_language knows no language for the path.                          *)
Unsupported ==
    \E tool \in {"rename", "patch", "import"} :
        Refused(tool, [by |-> <<>>], "UnsupportedLanguage")

(* A call that was refused left everything as it was: none is followed up.   *)
SyntaxNext ==
    /\ edits < MaxEdits
    /\ last.tool # "none" => last.outcome = "written"
    /\ IF path.ext \in Supported
       THEN \/ \E s \in Asked, r \in Given : RenameSymbol(s, r) \/ PatchSymbol(s, r)
            \/ \E spec \in Specs : EnsureImport(spec)
       ELSE Unsupported

SyntaxSpec == SyntaxInit /\ [][SyntaxNext]_syntaxVars

-----------------------------------------------------------------------------
(* Properties *)

(* What the tools write by byte ranges of the old tree is the text of the   *)
(* new one: no edit lands beside the node it was meant for, whatever the     *)
(* lengths of the names and however many places are edited in one call      *)
(* (rename_symbol's ranges, patch_symbol's item, insertion_byte).           *)
TextIsTree == text = Render(nodes)

(* A rename is all or nothing: when it changes any identifier, no           *)
(* definition of the old name is left, so that no reference is cut off from *)
(* what it names (rename_symbol against the naming rules of the languages,  *)
(* which find definitions in other ways than the rename finds identifiers).  *)
(* A name with a sigil, PowerShell's $ab, is another name than ab.  A        *)
(* Haskell module is apart: its name is no identifier to the rename, while   *)
(* that of a class is, so that a class of the module's name is renamed alone. *)
AllOrNothing ==
    [][last'.tool = "rename" /\ text' # text
        => \/ last'.asked.symbol = last'.asked.by
           \/ \A it \in Definitions(lang, nodes', last'.asked.symbol) :
                    \/ path.ext = "hs" /\ it.kind = "Module"
                    \/ TextOf(nodes', NameNode(lang, nodes', it.at)) # last'.asked.symbol]_syntaxVars

(* A rename to a name the file did not have keeps the tests of the symbol:   *)
(* find_tests_for_symbol finds under the new name what it found under the    *)
(* old one, unless the new name is a keyword and breaks the file.  (The     *)
(* tests that are named after the symbol themselves apart.)                 *)
TestsFollowRename ==
    [][last'.tool = "rename" /\ last'.outcome = "written"
        /\ ~broken' /\ References(nodes, last'.asked.by) = {}
        => LET old == {it \in TestsFor(lang, text, nodes, broken, last'.asked.symbol) :
                            it.name # last'.asked.symbol}
               new == {it \in TestsFor(lang, text', nodes', broken', last'.asked.by) :
                            it.name # last'.asked.by}
           IN  {it.at : it \in old} = {it.at : it \in new}]_syntaxVars

(* An import of one line that was written is found again, so that a second   *)
(* call changes nothing, unless it ran into the line behind a header         *)
(* (import_already_present looks at items and lines; not every language has  *)
(* import items, several lines are none, and a file whose lines end with a   *)
(* carriage return only is one line).                                       *)
ImportIsEnsured ==
    last.tool = "import" /\ last.outcome = "written" /\ ~last.asked.ran
      /\ Breaks(last.asked.spec) = {} /\ (Breaks(text) # {} \/ "Import" \in DOMAIN lang.items)
        => AlreadyPresent(text, nodes, Imports(nodes), last.asked.spec)

(* The same of every import: what "ensure an import exists" says.           *)
EveryImportIsEnsured ==
    last.tool = "import" /\ last.outcome = "written"
        => AlreadyPresent(text, nodes, Imports(nodes), last.asked.spec)
=============================================================================
