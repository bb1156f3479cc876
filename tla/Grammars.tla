------------------------------ MODULE Grammars ------------------------------
(***************************************************************************)
(* What nerd-ast knows of each tree-sitter grammar                          *)
(* (nerd-ast/src/languages/*.rs): the kinds of nodes that are items, and    *)
(* where the name of an item is spelt.  A language is a record:             *)
(*   items   per kind of item, the kinds of nodes classified as it;         *)
(*   within  the ancestors that make a Function a Method;                   *)
(*   body    the node that makes the Static around it a Function;           *)
(*   hides   the ancestors under which nothing is an item;                  *)
(*   rules   the places of the name, the first that exists; `special` has   *)
(*           the rules of the node kinds that have their own;               *)
(*   needs   the kinds of items that are dropped when they have no name;    *)
(*   trims   the characters taken off the front of a name.                  *)
(***************************************************************************)
EXTENDS Sequences, TLC, Texts

(* A place: from the node, its field, its first child of a kind, its first  *)
(* child or the node itself, go to the first node below of a kind in `then` *)
(* ({}: stay there).                                                        *)
In(field, kinds)  == [go |-> "field", to |-> {field}, then |-> kinds]
Field(field)      == In(field, {})
First(kinds)      == [go |-> "self", to |-> {}, then |-> kinds]
Child(kinds)      == [go |-> "child", to |-> kinds, then |-> {}]
InChild(kind, kinds) == [go |-> "child", to |-> {kind}, then |-> kinds]
FirstChild        == [go |-> "first", to |-> {}, then |-> {}]
Self              == [go |-> "self", to |-> {}, then |-> {}]

Empty == [k \in {} |-> {}]
Plain == [within |-> {}, body |-> {}, hides |-> {}, rules |-> <<Field("name")>>,
          special |-> Empty, needs |-> {}, trims |-> {}, calls |-> Empty]

Grammar(items) == [items |-> items] @@ Plain
Named(items, kinds) ==                      \* the field, else an identifier
    [Grammar(items) EXCEPT !.rules = <<Field("name"), First(kinds)>>]
Id == {"identifier"}
TypeOrId == {"identifier", "type_identifier"}

Assembly == [Grammar([Function |-> {"label"}]) EXCEPT
                !.rules = <<Field("name"), First({"word"}), Self>>]

Bash == [Grammar([Function |-> {"function_definition"}, Static |-> {"variable_assignment"}])
            EXCEPT !.rules = <<Field("name"), FirstChild>>]

C == [Grammar([Function |-> {"function_definition"}, Struct |-> {"struct_specifier"},
               Enum |-> {"enum_specifier"}, TypeAlias |-> {"type_definition"},
               Static |-> {"declaration"}])
        EXCEPT !.special = [k \in {"function_definition", "type_definition", "declaration"} |->
                                <<In("declarator", TypeOrId)>>]]

CSharp == Grammar([Import |-> {"using_directive"},
                   Module |-> {"namespace_declaration", "file_scoped_namespace_declaration"},
                   Struct |-> {"class_declaration", "struct_declaration", "record_declaration"},
                   Trait |-> {"interface_declaration"}, Enum |-> {"enum_declaration"},
                   Method |-> {"method_declaration", "constructor_declaration"}])

Cpp == [Grammar([Module |-> {"namespace_definition"}, Function |-> {"function_definition"},
                 Struct |-> {"class_specifier", "struct_specifier"},
                 Enum |-> {"enum_specifier"},
                 TypeAlias |-> {"type_definition", "alias_declaration"}])
          EXCEPT !.special =
            ("function_definition" :> <<In("declarator", TypeOrId)>>) @@
            [k \in {"type_definition", "alias_declaration"} |->
                <<In("declarator", TypeOrId), In("name", TypeOrId)>>]]

Dart ==
    LET types == {"class_declaration", "mixin_declaration", "extension_declaration"} IN
    [Grammar([Import |-> {"import_or_export"}, Struct |-> types, Enum |-> {"enum_declaration"},
              Function |-> {"function_signature", "local_function_declaration"},
              Method |-> {"method_signature"}, TypeAlias |-> {"type_alias"}])
        EXCEPT !.within = types, !.needs = {"Function", "Method"}]

(* JSON, TOML and YAML: parsed for errors only.                             *)
Data == Grammar(Empty)

(* A call is an item by the word it begins with.                            *)
Elixir == [Grammar(Empty) EXCEPT
              !.calls = Chars("defmodule") :> "Module"
                        @@ [w \in {Chars("def"), Chars("defp")} |-> "Function"],
              !.rules = <<First({"identifier", "alias", "atom"})>>]

Erlang == Named([Module |-> {"module_attribute"}, Function |-> {"function", "function_clause"},
                 Struct |-> {"record_decl"}], {"atom", "variable"})

Fortran == Named([Function |-> {"function_statement", "function_subprogram",
                                "subroutine_statement", "subroutine_subprogram"},
                  Struct |-> {"derived_type_definition", "derived_type_statement"},
                  Trait |-> {"interface_block", "interface_statement"}], Id)

Go == [Grammar([Import |-> {"import_declaration"}, Function |-> {"function_declaration"},
                Method |-> {"method_declaration"}, TypeAlias |-> {"type_declaration"},
                Const |-> {"const_declaration"}, Static |-> {"var_declaration"}])
         EXCEPT !.special = "type_declaration" :> <<InChild("type_spec", {"type_identifier"})>>]

GraphQl == [Grammar([Struct |-> {"object_type_definition", "input_object_type_definition"},
                     Trait |-> {"interface_type_definition"},
                     Enum |-> {"enum_type_definition"}, TypeAlias |-> {"scalar_type_definition"},
                     Module |-> {"schema_definition"},
                     Function |-> {"operation_definition", "fragment_definition"},
                     Macro |-> {"directive_definition"}])
              EXCEPT !.rules = <<Child({"name"}), Child({"fragment_name"})>>]

Groovy == Named([Import |-> {"import_declaration"},
                 Module |-> {"package_declaration", "module_declaration"},
                 Struct |-> {"class_declaration"}, Trait |-> {"interface_declaration"},
                 Enum |-> {"enum_declaration"},
                 Method |-> {"method_declaration", "constructor_declaration"}], TypeOrId)

Haskell == [Named([Module |-> {"module"}, Function |-> {"function", "linear_function"},
                   Trait |-> {"class", "class_decl"},
                   TypeAlias |-> {"type_synomym", "type_synonym"}],
                  {"variable", "constructor", "module_id", "identifier"})
              EXCEPT !.needs = {"Module"}]

Java == Named([Import |-> {"import_declaration"},
               Module |-> {"package_declaration", "module_declaration"},
               Struct |-> {"class_declaration", "record_declaration"},
               Trait |-> {"interface_declaration", "annotation_type_declaration"},
               Enum |-> {"enum_declaration"},
               Method |-> {"method_declaration", "constructor_declaration"}], TypeOrId)

(* And TypeScript and TSX.                                                  *)
JavaScript == Grammar([Import |-> {"import_statement"},
                       Function |-> {"function_declaration", "generator_function_declaration"},
                       Method |-> {"method_definition", "method_signature"},
                       Struct |-> {"class_declaration"}, Trait |-> {"interface_declaration"},
                       Enum |-> {"enum_declaration"},
                       TypeAlias |-> {"type_alias_declaration"}])

Julia == Named([Module |-> {"module_definition"}, Function |-> {"function_definition"},
                Struct |-> {"struct_definition", "primitive_definition"},
                Trait |-> {"abstract_definition"}, Macro |-> {"macro_definition"},
                Static |-> {"assignment"}], {"identifier", "macro_identifier"})

Kotlin ==
    LET types == {"class_declaration", "object_declaration"} IN
    [Named([Import |-> {"import_header"}, Struct |-> types,
            Function |-> {"function_declaration"}, TypeAlias |-> {"type_alias"},
            Static |-> {"property_declaration"}], {"identifier", "simple_identifier"})
        EXCEPT !.within = types]

Lua == [Grammar([Function |-> {"function_declaration", "function_definition"},
                 Static |-> {"variable_declaration", "implicit_variable_declaration"}])
          EXCEPT !.rules = <<Field("name"), Field("variable"), First(Id)>>]

Matlab == Named([Function |-> {"function_definition"}, Struct |-> {"class_definition"},
                 Static |-> {"assignment"}], Id)

Nix == [Grammar([Static |-> {"binding"}]) EXCEPT
           !.body = {"function_expression"}, !.rules = <<First(Id)>>]

ObjC ==
    LET methods == {"method_declaration", "method_definition"} IN
    [Named([Struct |-> {"class_interface", "class_implementation", "class_declaration",
                        "struct_specifier"},
            Trait |-> {"protocol_declaration"}, Method |-> methods,
            Function |-> {"function_definition"}, Enum |-> {"enum_specifier"}],
           {"identifier", "type_identifier", "method_identifier"})
        EXCEPT !.special = [k \in methods |-> <<Field("name"), First({"method_identifier"})>>]]

Pascal == Named([Module |-> {"program", "unit"}, Function |-> {"procExternal"},
                 Struct |-> {"typeDecl", "recType"}, Trait |-> {"interface"}], Id)

Perl == [Grammar([Function |-> {"function_definition", "function_definition_without_sub"},
                  Module |-> {"package_statement"}])
           EXCEPT !.rules = <<Field("name"), Field("function_name"),
                              First({"identifier", "package_name", "function_name"})>>]

Php == [Grammar([Import |-> {"namespace_use_declaration"}, Function |-> {"function_definition"},
                 Method |-> {"method_declaration"}, Struct |-> {"class_declaration"},
                 Trait |-> {"interface_declaration", "trait_declaration"}])
          EXCEPT !.trims = {"$"}]

PowerShell == [Grammar([Function |-> {"function_statement"},
                        Static |-> {"assignment_expression"}])
                 EXCEPT !.rules = <<Field("name"), Field("function_name"),
                                    First({"function_name", "variable", "identifier"})>>,
                        !.trims = {"$"}]

Proto == [Grammar([Struct |-> {"message"}, Enum |-> {"enum"}, Trait |-> {"service"},
                   Method |-> {"rpc"}])
            EXCEPT !.rules = <<>>, !.needs = {"Struct", "Enum", "Trait", "Method"},
                   !.special = [k \in {"message", "enum", "service", "rpc"} |->
                                    <<Child({k \o "_name"})>>]]

Python == [Grammar([Import |-> {"import_statement", "import_from_statement"},
                    Function |-> {"function_definition"}, Struct |-> {"class_definition"}])
             EXCEPT !.within = {"class_definition"}]

R == [Grammar([Static |-> {"binary_operator"}]) EXCEPT
         !.body = {"function_definition"}, !.hides = {"function_definition"},
         !.rules = <<First(Id)>>]

Ruby == [Grammar([Struct |-> {"class"}, Module |-> {"module"},
                  Method |-> {"method", "singleton_method"}])
           EXCEPT !.needs = {"Module", "Struct"}]

Rust == [Grammar([Import |-> {"use_declaration"}, Function |-> {"function_item"},
                  Struct |-> {"struct_item"}, Enum |-> {"enum_item"},
                  Trait |-> {"trait_item"}, Impl |-> {"impl_item"}, Module |-> {"mod_item"},
                  TypeAlias |-> {"type_item"}, Const |-> {"const_item"},
                  Static |-> {"static_item"}, Macro |-> {"macro_definition"}])
           EXCEPT !.within = {"impl_item"}]

Scala == Named([Import |-> {"import_declaration"},
                Module |-> {"package_clause", "package_object"},
                Struct |-> {"class_definition", "object_definition"},
                Trait |-> {"trait_definition"}, Enum |-> {"enum_definition"},
                Function |-> {"function_definition", "function_declaration"},
                TypeAlias |-> {"type_definition"},
                Static |-> {"val_definition", "var_definition"}], TypeOrId)

Solidity == Named([Struct |-> {"contract_declaration", "library_declaration",
                               "struct_declaration"},
                   Trait |-> {"interface_declaration"}, Enum |-> {"enum_declaration"},
                   Function |-> {"function_definition"}, Method |-> {"modifier_definition"},
                   Macro |-> {"event_definition", "error_declaration"}], Id)

Swift ==
    LET types == {"class_declaration", "struct_declaration"} IN
    [Grammar([Import |-> {"import_declaration"}, Function |-> {"function_declaration"},
              Struct |-> types, Enum |-> {"enum_declaration"},
              Trait |-> {"protocol_declaration"}, TypeAlias |-> {"typealias_declaration"}])
        EXCEPT !.within = types \cup {"enum_declaration"}]

VbDotNet == Named([Struct |-> {"class_block", "structure_block"},
                   Trait |-> {"interface_block"}, Enum |-> {"enum_block"},
                   Module |-> {"module_block"}, Method |-> {"method_declaration"}], Id)

Zig == Named([Function |-> {"function_declaration"},
              Struct |-> {"struct_declaration", "union_declaration"},
              Enum |-> {"enum_declaration"}, Static |-> {"variable_declaration"}], Id)

(* The language of a path (detect_language and the dispatch on it), by the  *)
(* main extension of each.                                                 *)
ByExtension ==
    [asm |-> Assembly, sh |-> Bash, c |-> C, cpp |-> Cpp, cs |-> CSharp, dart |-> Dart,
     ex |-> Elixir, erl |-> Erlang, f |-> Fortran, go |-> Go, graphql |-> GraphQl,
     groovy |-> Groovy, hs |-> Haskell, java |-> Java, js |-> JavaScript, json |-> Data,
     jl |-> Julia, kt |-> Kotlin, lua |-> Lua, m |-> Matlab, nix |-> Nix, mm |-> ObjC,
     pas |-> Pascal, pl |-> Perl, php |-> Php, proto |-> Proto, py |-> Python,
     ps1 |-> PowerShell, r |-> R, rb |-> Ruby, rs |-> Rust, scala |-> Scala,
     sol |-> Solidity, swift |-> Swift, toml |-> Data, ts |-> JavaScript,
     tsx |-> JavaScript, yaml |-> Data, zig |-> Zig, vb |-> VbDotNet]
=============================================================================
