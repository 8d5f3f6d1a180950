------------------------------- MODULE MCTaint -------------------------------
(* Small functions for Taint, put together from statements. Getenv is a      *)
(* source of Go's first rule alone, FormValue of all three.                  *)
EXTENDS Taint

CONSTANTS x, y

MCRules == default_rules("go")
read == "Getenv"
form == "PostFormValue"
escape == "HTMLEscapeString"
exec == "Exec"
print == "Fprintf"
MCFunc == {read, form, escape, exec, print}

Node(kind, targets, values, args, size) ==
  [kind |-> kind, place |-> "list", targets |-> targets, values |-> values,
   args |-> args, size |-> size]
At(place, nodes) == IF nodes = <<>> THEN nodes ELSE [nodes EXCEPT ![1].place = place]

CallOf(f) == [call |-> f, reads |-> <<>>]
Of(as) == [call |-> None, reads |-> as]
Nothing == <<Of(<<>>)>>

Values == {<<CallOf(read)>>, <<CallOf(form)>>, <<[call |-> escape, reads |-> <<x>>]>>,
           <<Of(<<y>>)>>, <<Of(<<None, x>>)>>}
Few == {<<CallOf(read)>>, <<CallOf(form)>>, <<Of(<<x>>)>>}
(* Lists of values, of which the second is lost, and a value that is Fixme.  *)
Lossy == {<<Of(<<y>>), CallOf(form)>>, <<CallOf(form), Of(<<x>>)>>, <<Of(<<None>>)>>}

Store(kind, targets, v) == <<Node(kind, targets, v, <<>>, 1)>>
Wrap(kind, inner) == <<Node(kind, <<>>, Nothing, <<>>, 1 + Len(inner))>> \o inner
Call(f, as) == <<Node("call", <<>>, <<CallOf(f)>>, as, 1)>>
Return1(f, as) == <<Node("return", <<>>, <<[call |-> f, reads |-> as]>>, as, 1)>>
Ends == {Return1(None, <<v>>) : v \in Var}

Shorts == {Store("short", <<v>>, e) : v \in Var, e \in Values}
Doubles == {Store(k, ts, e) : k \in {"short", "assign"}, ts \in {<<x, y>>, <<y, x>>},
              e \in Lossy \cup {<<CallOf(form)>>}}
Patterns == {Store("var", ts, e) : ts \in {<<>>, <<x, y>>, <<y, x>>}, e \in Values}
Assigns1 == {Store("assign", <<v>>, e) : v \in Var, e \in Values}
Unnamed == {Store("assign", <<None>>, e) : e \in Few} \cup {Store("assign", <<None, x>>, Nothing)}
SinkCalls == {Call(exec, as) : as \in {<<x>>, <<y>>, <<None, x>>}}
               \cup {Call(print, as) : as \in {<<None, x>>, <<y, x>>}}

Block(a) == Wrap("block", a)
IfNode(place, c, as, inner) ==
  <<[Node("if", <<>>, <<[call |-> c, reads |-> as]>>, as, 1 + Len(inner)) EXCEPT !.place = place]>>
    \o inner
If1(a, b) == IfNode("list", None, <<x>>, At("branch", a) \o At("branch", b))
IfInit(place, c, i, a) == IfNode(place, c, <<x>>, At("init", i) \o a)
Loop(i, a) == Wrap("for", i \o <<Node("test", <<>>, <<Of(<<x>>)>>, <<>>, 1)>> \o Block(a))

ElseIfs == {IfInit("branch", c, <<>>, Block(Store("assign", <<y>>, e))) :
              c \in {None, exec}, e \in Few}
Branches == {If1(Block(a), b) : a \in Shorts \cup SinkCalls, b \in {<<>>} \cup ElseIfs}
Loops == {Loop(Store("short", <<y>>, e), a) : e \in Few, a \in Shorts \cup SinkCalls}
(* Go's initializers: lost in an if, kept in an else if.                     *)
Initializers ==
  {IfInit("list", None, i, At("branch", Block(a))) : i \in Shorts, a \in SinkCalls}
    \cup {If1(Block(<<>>), IfInit("branch", exec, i, Block(a))) : i \in Shorts, a \in SinkCalls}
(* Branches without a block: a return, a call, an if.                        *)
Loose == {If1(a, <<>>) : a \in Ends \cup SinkCalls \cup {Return1(exec, <<x>>)}
                             \cup {IfInit("list", None, <<>>, Block(c)) : c \in SinkCalls}}
Other == {Wrap(k, Call(exec, <<v>>)) : k \in {"fixme", "other"}, v \in Var}
           \cup {<<Node("expr", <<>>, <<Of(<<v>>)>>, <<>>, 1)>> : v \in Var}

Three(A, B, C) == {a \o b \o c : a \in A, b \in B, c \in C}

(* Bodies the builder keeps whole; some have too many definitions.           *)
TaintPrograms == Three(Shorts, Branches \cup Loops, SinkCalls \cup Ends)
                   \cup Three(Shorts \cup Patterns, Shorts \cup Assigns1, SinkCalls \cup Shorts)
(* Bodies of which the builder loses something.                             *)
MixedPrograms == Three(Doubles \cup Unnamed, Branches \cup Loops, Ends)
                   \cup Three(Doubles \cup Unnamed, Shorts, SinkCalls)
                   \cup Three(Shorts, Other \cup Initializers \cup Loose \cup Doubles, SinkCalls)
Programs == TaintPrograms \cup MixedPrograms
(* a[0] = value beside named assignments.                                   *)
IndexPrograms == Three(Unnamed, Shorts, SinkCalls)
=============================================================================
