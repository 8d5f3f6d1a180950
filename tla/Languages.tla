------------------------------ MODULE Languages ------------------------------
(***************************************************************************)
(* crates/langs: the languages, their aliases, their files, their grammars   *)
(* and the queries of their scopes; and the tables of names and extensions   *)
(* of structural.rs and grep_filter.rs, which must fit them.                 *)
(*                                                                         *)
(* The state is the part of the scope cache that scoped searches of one file *)
(* fill: an entry's key holds the canonical id of the language, its value    *)
(* was made with the grammar and the query of the search that made it.       *)
(***************************************************************************)
EXTENDS Naturals, FiniteSets

CONSTANTS
  NoLanguage,    \* None of the functions that look up a language
  MaxEntries     \* bound: the entries of the cache for the file

VARIABLES
  ext,           \* the extension of the file
  entries,       \* the cached values, by key
  served         \* the last search and the value it used

langVars == <<ext, entries, served>>
-----------------------------------------------------------------------------
(* The languages. A query is the set of what its patterns capture: the node  *)
(* kind captured and the kind of the node it is a field of, or twice the     *)
(* kind when it stands alone.                                               *)

Alone(kinds) == {<<k, k>> : k \in kinds}
BodyOf(kinds, body) == {<<k, body>> : k \in kinds}

Bash == [grammar |-> "bash", extensions |-> {"sh", "bash"},
  query |-> [function_bodies  |-> BodyOf({"function_definition"}, "compound_statement"),
             comments         |-> Alone({"comment"}),
             strings          |-> Alone({"string", "raw_string"}),
             type_definitions |-> Alone({"ERROR"}),
             imports          |-> Alone({"command"})]]
C == [grammar |-> "c", extensions |-> {"c", "h"},
  query |-> [function_bodies  |-> BodyOf({"function_definition"}, "compound_statement"),
             comments         |-> Alone({"comment"}),
             strings          |-> Alone({"string_literal"}),
             type_definitions |-> Alone({"struct_specifier", "enum_specifier", "type_definition"}),
             imports          |-> Alone({"preproc_include"})]]
Cpp == [grammar |-> "cpp", extensions |-> {"cpp", "cc", "cxx", "hpp", "hh"},
  query |-> [function_bodies  |-> BodyOf({"function_definition"}, "compound_statement"),
             comments         |-> Alone({"comment"}),
             strings          |-> Alone({"string_literal", "raw_string_literal"}),
             type_definitions |-> Alone({"class_specifier", "struct_specifier", "enum_specifier"}),
             imports          |-> Alone({"preproc_include", "using_declaration"})]]
CSharp == [grammar |-> "csharp", extensions |-> {"cs"},
  query |-> [function_bodies  |-> BodyOf({"method_declaration", "constructor_declaration"}, "block"),
             comments         |-> Alone({"comment"}),
             strings          |-> Alone({"string_literal", "interpolated_string_expression"}),
             type_definitions |-> Alone({"class_declaration", "interface_declaration",
                                         "enum_declaration", "struct_declaration"}),
             imports          |-> Alone({"using_directive"})]]
Go == [grammar |-> "go", extensions |-> {"go"},
  query |-> [function_bodies  |-> BodyOf({"function_declaration", "method_declaration"}, "block"),
             comments         |-> Alone({"comment"}),
             strings          |-> Alone({"interpreted_string_literal", "raw_string_literal"}),
             type_definitions |-> Alone({"type_declaration"}),
             imports          |-> Alone({"import_declaration"})]]
Java == [grammar |-> "java", extensions |-> {"java"},
  query |-> [function_bodies  |-> BodyOf({"method_declaration"}, "block")
                                    \cup BodyOf({"constructor_declaration"}, "constructor_body"),
             comments         |-> Alone({"line_comment", "block_comment"}),
             strings          |-> Alone({"string_literal"}),
             type_definitions |-> Alone({"class_declaration", "interface_declaration",
                                         "enum_declaration"}),
             imports          |-> Alone({"import_declaration"})]]
Kotlin == [grammar |-> "kotlin", extensions |-> {"kt", "kts"},
  query |-> [function_bodies  |-> Alone({"function_declaration"}),
             comments         |-> Alone({"line_comment", "block_comment"}),
             strings          |-> Alone({"string_literal", "multiline_string_literal"}),
             type_definitions |-> Alone({"class_declaration", "object_declaration"}),
             imports          |-> Alone({"import"})]]
Lua == [grammar |-> "lua", extensions |-> {"lua"},
  query |-> [function_bodies  |-> Alone({"function_declaration", "function_definition"}),
             comments         |-> Alone({"comment"}),
             strings          |-> Alone({"string"}),
             type_definitions |-> Alone({"ERROR"}),
             imports          |-> Alone({"function_call"})]]
Php == [grammar |-> "php", extensions |-> {"php"},
  query |-> [function_bodies  |-> BodyOf({"function_definition", "method_declaration"},
                                         "compound_statement"),
             comments         |-> Alone({"comment"}),
             strings          |-> Alone({"string", "encapsed_string"}),
             type_definitions |-> Alone({"class_declaration", "interface_declaration",
                                         "trait_declaration"}),
             imports          |-> Alone({"namespace_use_declaration"})]]
Python == [grammar |-> "python", extensions |-> {"py"},
  query |-> [function_bodies  |-> BodyOf({"function_definition"}, "block"),
             comments         |-> Alone({"comment"}),
             strings          |-> Alone({"string"}),
             type_definitions |-> Alone({"class_definition"}),
             imports          |-> Alone({"import_statement", "import_from_statement"})]]
Ruby == [grammar |-> "ruby", extensions |-> {"rb"},
  query |-> [function_bodies  |-> BodyOf({"method"}, "body_statement"),
             comments         |-> Alone({"comment"}),
             strings          |-> Alone({"string"}),
             type_definitions |-> BodyOf({"class", "module"}, "body_statement"),
             imports          |-> Alone({"call"})]]
Rust == [grammar |-> "rust", extensions |-> {"rs"},
  query |-> [function_bodies  |-> BodyOf({"function_item"}, "block")
                                    \cup BodyOf({"impl_item"}, "declaration_list"),
             comments         |-> Alone({"line_comment", "block_comment"}),
             strings          |-> Alone({"string_literal", "raw_string_literal"}),
             type_definitions |-> Alone({"struct_item", "enum_item", "type_item"}),
             imports          |-> Alone({"use_declaration"})]]
Svelte == [grammar |-> "svelte", extensions |-> {"svelte"},
  query |-> [function_bodies  |-> {},
             comments         |-> Alone({"comment"}),
             strings          |-> Alone({"quoted_attribute_value"}),
             type_definitions |-> {},
             imports          |-> {}]]
Swift == [grammar |-> "swift", extensions |-> {"swift"},
  query |-> [function_bodies  |-> BodyOf({"function_declaration"}, "function_body"),
             comments         |-> Alone({"comment", "multiline_comment"}),
             strings          |-> Alone({"line_string_literal", "multi_line_string_literal"}),
             type_definitions |-> Alone({"class_declaration", "protocol_declaration"}),
             imports          |-> Alone({"import_declaration"})]]
TypeScript == [grammar |-> "typescript", extensions |-> {"ts", "tsx", "js", "jsx"},
  query |-> [function_bodies  |-> BodyOf({"function_declaration", "arrow_function",
                                          "method_definition"}, "statement_block"),
             comments         |-> Alone({"comment"}),
             strings          |-> Alone({"string", "template_string"}),
             type_definitions |-> Alone({"interface_declaration", "type_alias_declaration",
                                         "class_declaration"}),
             imports          |-> Alone({"import_statement"})]]
Tsx == [TypeScript EXCEPT !.grammar = "tsx", !.extensions = {"tsx", "jsx"}]
Zig == [grammar |-> "zig", extensions |-> {"zig"},
  query |-> [function_bodies  |-> BodyOf({"function_declaration"}, "block"),
             comments         |-> Alone({"comment"}),
             strings          |-> Alone({"string", "multiline_string"}),
             type_definitions |-> Alone({"struct_declaration", "enum_declaration",
                                         "union_declaration"}),
             imports          |-> Alone({"variable_declaration"})]]

(* get_language: the configuration of a canonical id.                       *)
Config == [go |-> Go, rust |-> Rust, python |-> Python, typescript |-> TypeScript, tsx |-> Tsx,
           svelte |-> Svelte, java |-> Java, c |-> C, cpp |-> Cpp, ruby |-> Ruby,
           csharp |-> CSharp, php |-> Php, bash |-> Bash, lua |-> Lua, swift |-> Swift,
           kotlin |-> Kotlin, zig |-> Zig]

Id == DOMAIN Config
ScopeKind == DOMAIN Go.query

(* get_scope_query: TSX is searched with the queries of TypeScript.          *)
ScopeQuery(id, scope) == Config[IF id = "tsx" THEN "typescript" ELSE id].query[scope]
-----------------------------------------------------------------------------
(* Names.                                                                   *)

Alias == [id \in Id |-> CASE id = "go" -> {"golang"} [] id = "rust" -> {"rs"}
                          [] id = "python" -> {"py"} [] id = "typescript" -> {"ts", "javascript", "js"}
                          [] id = "tsx" -> {"jsx"} [] id = "cpp" -> {"c++", "cxx"}
                          [] id = "ruby" -> {"rb"} [] id = "csharp" -> {"c#", "cs"}
                          [] id = "bash" -> {"sh"} [] id = "kotlin" -> {"kt"}
                          [] OTHER -> {}]
Names(id) == {id} \cup Alias[id]
Name == UNION {Names(id) : id \in Id}

The(S) == IF S = {} THEN NoLanguage ELSE CHOOSE x \in S : TRUE

IdOf == [name \in Name |-> The({id \in Id : name \in Names(id)})]

(* language_id                                                              *)
LanguageId(name) == IF name \in Name THEN IdOf[name] ELSE NoLanguage

(* parse_scope_kind                                                         *)
ScopeNames(scope) ==
  {scope} \cup CASE scope = "function_bodies" -> {"functions"}
                 [] scope = "type_definitions" -> {"types"} [] OTHER -> {}
ParseScopeKind(name) == The({k \in ScopeKind : name \in ScopeNames(k)})

(* Extensions; upper case is told apart where the code does.                 *)
Upper == [TSX |-> "tsx", JSX |-> "jsx", GO |-> "go"]
Extension == UNION {Config[id].extensions : id \in Id} \cup DOMAIN Upper \cup {"txt"}
Lower(e) == IF e \in DOMAIN Upper THEN Upper[e] ELSE e

(* Mutant: the name itself is compared, not the language it stands for.      *)
EffectiveByName(name, e) ==
  IF name = "typescript" /\ Lower(e) \in {"tsx", "jsx"} THEN "tsx" ELSE LanguageId(name)

(* effective_language_id: files with JSX in them need the TSX grammar.       *)
EffectiveLanguageId(name, e) ==
  IF LanguageId(name) = "typescript" /\ Lower(e) \in {"tsx", "jsx"}
  THEN "tsx" ELSE LanguageId(name)

(* detect_language: the whole TypeScript family is one language.            *)
LanguageOf == [e \in Extension |-> The({id \in Id \ {"tsx"} : e \in Config[id].extensions})]
DetectLanguage(e) == LanguageOf[e]
-----------------------------------------------------------------------------
(* The other tables.                                                        *)

(* lang_wrapper: the grammar structural search and rewrite parse with.       *)
LangWrapper(name) ==
  IF name \in Name \ {"jsx", "svelte"} THEN Config[LanguageId(name)].grammar ELSE NoLanguage

(* Mutant: file_matches_lang before #56.                                    *)
FileMatchesByLabel(e, name) ==
  DetectLanguage(e) # NoLanguage /\ name \in Names(DetectLanguage(e))

(* file_matches_lang: the files structural search and rewrite look at.       *)
FileMatchesLang(e, name) ==
  \/ DetectLanguage(e) # NoLanguage /\ name \in Names(DetectLanguage(e))
  \/ name = "tsx" /\ Lower(e) \in {"tsx", "jsx"}

(* lang_extensions and matches_language: the files /search looks at.         *)
LangExtensions(name) ==
  CASE name = "js" \/ name = "javascript" -> {"js", "jsx"}
    [] name = "ts" \/ name = "typescript" -> {"ts", "tsx"}
    [] name \in {"go", "java", "c", "cpp", "c++", "php", "swift", "rust", "rs", "python", "py",
                 "ruby", "rb", "kotlin", "kt"} -> Config[LanguageId(name)].extensions
    [] OTHER -> {}
MatchesLanguage(e, name) == LangExtensions(name) = {} \/ Lower(e) \in LangExtensions(name)

-----------------------------------------------------------------------------
(* Scoped searches of one file.                                             *)

NoSearch == [name |-> NoLanguage]

LanguagesInit ==
  /\ ext \in Extension
  /\ entries = [k \in {} |-> {}]
  /\ served = NoSearch

(* What a scoped search makes of the file when nothing is cached: the        *)
(* grammar is chosen per file, the query per language.                       *)
Wanted(name, scope) ==
  [grammar |-> Config[EffectiveLanguageId(name, ext)].grammar,
   query   |-> ScopeQuery(LanguageId(name), scope)]

(* scoped_search on the file, when its walk yields it.                      *)
ScopedSearch(name, scopeName) ==
  LET scope == ParseScopeKind(scopeName)
      key   == <<LanguageId(name), scope>>
      value == IF key \in DOMAIN entries THEN entries[key] ELSE Wanted(name, scope)
  IN /\ scope # NoLanguage
     /\ LanguageId(name) # NoLanguage
     /\ ext \in Config[LanguageId(name)].extensions
     /\ Cardinality(DOMAIN entries \cup {key}) <= MaxEntries
     /\ entries' = [k \in DOMAIN entries \cup {key} |-> IF k = key THEN value ELSE entries[k]]
     /\ served' = [name |-> name, scope |-> scope, value |-> value]
     /\ UNCHANGED ext

LanguagesNext ==
  \E name \in Name, scopeName \in UNION {ScopeNames(k) : k \in ScopeKind} :
    ScopedSearch(name, scopeName)
-----------------------------------------------------------------------------
(* A search gets from the cache what it would have made itself, whatever     *)
(* other names of languages filled the cache: the key does not hold the      *)
(* grammar, which is chosen by name and extension (scoped.rs:74).            *)
CachedGrammarIsOwn ==
  served # NoSearch => served.value = Wanted(served.name, served.scope)

(* The tables agree. For a name structural search knows, it looks at just    *)
(* the files that scoped search looks at, whatever alias the name is, and    *)
(* /search with that name looks at no others, unless it has no filter for    *)
(* it. (Upper-case extensions are left out: only some tables fold case.)     *)
TablesAgree ==
  \A name \in Name : ext = Lower(ext) =>
    LET files == Config[LanguageId(name)].extensions IN
    /\ LangWrapper(name) # NoLanguage => (FileMatchesLang(ext, name) <=> ext \in files)
    /\ LangExtensions(name) \subseteq files
=============================================================================
