----------------------------- MODULE TaintRules -----------------------------
(***************************************************************************)
(* crates/dataflow/src/taint_rules.rs: the rules the taint analysis applies  *)
(* when the request brings none. A pattern is a function's name or the end   *)
(* of one; an argument of -1 is any, others count from 0.                   *)
(***************************************************************************)
EXTENDS Integers, Sequences

Sinks(arg_index, patterns) == {[pattern |-> p, arg_index |-> arg_index] : p \in patterns}

go_rules == <<
  [id |-> "sql-injection", sources |-> {"FormValue", "Query", "ReadAll", "Getenv"},
   sinks |-> Sinks(0, {"Exec"}), sanitizers |-> {"EscapeString", "QuoteIdentifier"}],
  [id |-> "command-injection", sources |-> {"FormValue", "ReadAll"},
   sinks |-> Sinks(-1, {"Command"}), sanitizers |-> {}],
  [id |-> "xss", sources |-> {"FormValue"},
   sinks |-> Sinks(-1, {"Fprintf"}) \cup Sinks(0, {"Write"}),
   sanitizers |-> {"EscapeString", "HTMLEscapeString"}]>>

python_rules == <<
  [id |-> "sql-injection", sources |-> {"input", "getenv"},
   sinks |-> Sinks(0, {"execute"}), sanitizers |-> {}],
  [id |-> "command-injection", sources |-> {"input"},
   sinks |-> Sinks(0, {"system", "popen"}), sanitizers |-> {}]>>

rust_rules == <<
  [id |-> "rust-command-injection", sources |-> {"var", "args", "stdin", "read_line"},
   sinks |-> Sinks(0, {"new", "arg"}), sanitizers |-> {"shell_escape", "try_escape"}],
  [id |-> "rust-path-traversal", sources |-> {"args", "read_line", "text"},
   sinks |-> Sinks(0, {"read_to_string", "write", "open", "remove_file"}),
   sanitizers |-> {"canonicalize", "clean"}],
  [id |-> "rust-deserialization", sources |-> {"get", "to_bytes", "read_line"},
   sinks |-> Sinks(0, {"from_str", "deserialize"}), sanitizers |-> {}],
  [id |-> "rust-sql-injection", sources |-> {"var", "read_line", "text"},
   sinks |-> Sinks(0, {"query", "execute"}), sanitizers |-> {"query_with", "bind"}]>>

(* A language without rules of its own has none: nothing is reported.        *)
default_rules(lang) ==
  CASE lang \in {"go", "golang"} -> go_rules
    [] lang \in {"python", "py"} -> python_rules
    [] lang \in {"rust", "rs"} -> rust_rules
    [] OTHER -> <<>>

matches_pattern(name, pattern) ==
  /\ Len(pattern) <= Len(name)
  /\ SubSeq(name, Len(name) - Len(pattern) + 1, Len(name)) = pattern
=============================================================================
