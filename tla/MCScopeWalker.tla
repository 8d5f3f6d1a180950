---------------------------- MODULE MCScopeWalker ----------------------------
(* Small trees for ScopeWalker and ScopeReport, put together from pieces.    *)
EXTENDS ScopeReport

CONSTANTS x, y

Node(kind, name, const, size) == [kind |-> kind, name |-> name, const |-> const, size |-> size]
Wrap(kind, name, inner) == <<Node(kind, name, FALSE, 1 + Len(inner))>> \o inner

Read(v) == <<Node("ident", v, FALSE, 1)>>
Store(kind, v, const, value) ==
  <<Node(kind, v, const, 2 + Len(value)), Node("ident", v, FALSE, 1)>> \o value
Func(name, params, inner) ==
  Wrap("func", name, (IF name = None THEN <<>> ELSE Read(name))
                     \o [k \in DOMAIN params |-> Node("param", params[k], FALSE, 1)] \o inner)

(* x stands for the names that matter, y for another one.                    *)
Simple == {Read(v) : v \in VarName}
            \cup {Store(k, v, TRUE, <<>>) : k \in {"decl", "assign"}, v \in VarName}
            \cup {Store(k, x, FALSE, Read(v)) : k \in {"decl", "assign"}, v \in VarName}
Pairs == {s \o t : s, t \in Simple}
Loops == {Wrap("loop", None, s) : s \in Simple}
Functions == {Func(None, p, s) : p \in {<<>>, <<x>>}, s \in Simple}
Closures == {Store("decl", v, FALSE, f) : v \in VarName, f \in Functions}
Nested == {Func(None, <<y>>, Store("decl", x, TRUE, <<>>) \o Wrap("loop", None, s)) : s \in Simple}

(* A piece of B between one of A and one of C, or as the whole file.          *)
Between(A, B, C) ==
  {t[1] \o t[2] \o t[3] : t \in (A \X B \X C) \cup ({<<>>} \X B \X {<<>>})}
PlainTrees == Between(Simple \cup Loops, Functions \cup Closures \cup Nested, Simple)

Each(xs, v) == <<Node("each", xs, FALSE, 2), Node("param", v, FALSE, 1)>>
Template == Simple \cup {Each(x, y), Each(y, x), Each(x, x)}
Script == {Func(n, p, s) : n \in {None, x}, p \in {<<>>, <<x>>}, s \in Simple} \cup Simple
SvelteTrees == Between(Template, Script, Template \cup Loops)
=============================================================================
