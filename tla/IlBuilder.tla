------------------------------ MODULE IlBuilder ------------------------------
(***************************************************************************)
(* crates/dataflow/src/il_builder.rs, il_build_expr.rs, il_build_lval.rs:    *)
(* the statements of a function are flattened into one list of instructions. *)
(*                                                                         *)
(* A function body is the sequence of its statement nodes in source order; a *)
(* node knows how many nodes its subtree has, and its position stands for    *)
(* its span. The kinds:                                                     *)
(*   short    x, y := value             var      const {x, y} = value        *)
(*   assign   x = value, also x += value                                    *)
(*   call     f(args) as a statement    return   return value                *)
(*   expr     another expression as a statement, as x = y in JavaScript      *)
(*   if       an if or an elif: condition, branches, perhaps an initializer  *)
(*   for      a loop: its statements; test is the condition of a for clause  *)
(*   block    a list of statements      fixme    go, defer, select, try, with *)
(*   other    any other node: a nested function, a switch, a second else,    *)
(*            a JavaScript block, an else clause around one                  *)
(* The place of a node tells how it is come by: in a list of statements, as  *)
(* the initializer of the if before it (Go's if x := f(); x > 0), or as a    *)
(* branch of an if in such a list. Of a branch the children are visited as   *)
(* statements, whatever it is: a block, the if of an else if, a return       *)
(* without a block.                                                         *)
(*                                                                         *)
(* An expression is the function it calls at the top, if it calls one by a   *)
(* name, and its operands in order: a variable, a field counting as the      *)
(* variable it is of, or None for what becomes Fixme (an index, a literal of *)
(* a composite type, a JavaScript member), with all variables in it. So are  *)
(* arguments, where anything but a variable is None, and targets, where an   *)
(* index or a tuple is. A name carries its symbol id; ids of function names  *)
(* are not kept.                                                            *)
(***************************************************************************)
EXTENDS Naturals, Sequences, SequencesExt, FiniteSets, FiniteSetsExt

CONSTANTS
  Var,         \* the variables
  Func,        \* the functions called
  Program,     \* the function bodies to build
  MaxNodes,    \* bound: nodes of a body
  None

Name == [var : Var, sid : Nat]
StatementKind == {"short", "var", "assign", "call", "expr", "return", "if", "for",
                  "test", "block", "fixme", "other"}
Place == {"list", "init", "branch"}
Expr == [call : Func \cup {None}, reads : Seq(Var \cup {None})]
NodeRec == [kind : StatementKind, place : Place, targets : Seq(Var \cup {None}),
            values : Seq(Expr), args : Seq(Var \cup {None}), size : 1..MaxNodes]

ASSUME VarAssumption == IsFiniteSet(Var)
ASSUME MaxNodesAssumption == MaxNodes \in Nat
ASSUME NoneAssumption == None \notin Var \cup Func \cup Name
ASSUME ProgramAssumption ==
  \A p \in Program :
    /\ p \in Seq(NodeRec)
    /\ Len(p) <= MaxNodes
    /\ \A n \in DOMAIN p :
         /\ n + p[n].size - 1 <= Len(p)
         /\ p[n].values # <<>>
         /\ p[n].kind \in {"short", "assign"} => p[n].targets # <<>>
         /\ p[n].kind \in {"short", "var"} => p[n].targets \in Seq(Var)
         /\ p[n].place = "init" => n > 1 /\ p[n-1].kind = "if"

VARIABLES
  program,     \* the statements of the function
  at,          \* the next node to visit
  body,        \* current_body
  nameTable,   \* name_table: the id of a variable, 0 when it has none
  sids,        \* sid_counter
  built        \* the function has been built

ilVars == <<program, at, body, nameTable, sids, built>>

InstrKind == {"assign", "call", "return", "branch", "fixme"}
Instr == [kind : InstrKind, lval : Name \cup {None}, call : Func \cup {None},
          reads : Seq(Name \cup {None}), args : Seq(Name \cup {None}), span : 1..MaxNodes]

IlTypeOK ==
  /\ program \in Seq(NodeRec)
  /\ at \in 1..MaxNodes+1
  /\ body \in Seq(Instr)
  /\ nameTable \in [Var -> Nat]
  /\ sids \in Nat
  /\ built \in BOOLEAN
-----------------------------------------------------------------------------
(* The name table, the counter and the names of the last look-up.            *)
Scan == [table |-> nameTable, next |-> sids, names |-> <<>>]

(* Declarations: each variable gets a new id, whatever the table says.       *)
DeclareAll(scan, vs) ==
  LET Places(v) == {i \in DOMAIN vs : vs[i] = v}
  IN [table |-> [v \in Var |-> IF Places(v) = {} THEN scan.table[v]
                               ELSE scan.next + Max(Places(v))],
      next  |-> scan.next + Len(vs),
      names |-> [i \in DOMAIN vs |-> [var |-> vs[i], sid |-> scan.next + i]]]

(* resolve_or_create, one after the other: the id in the table, or a new one *)
(* that a later occurrence finds there. What is not a variable has no name.  *)
ResolveAll(scan, as) ==
  LET fresh == {i \in DOMAIN as : /\ as[i] # None
                                  /\ scan.table[as[i]] = 0
                                  /\ \A j \in 1..i-1 : as[j] # as[i]}
      table == [v \in Var |->
                  IF \E i \in fresh : as[i] = v
                  THEN scan.next + Cardinality({j \in fresh : j <= CHOOSE i \in fresh : as[i] = v})
                  ELSE scan.table[v]]
  IN [table |-> table,
      next  |-> scan.next + Cardinality(fresh),
      names |-> [i \in DOMAIN as |-> IF as[i] = None THEN None
                                     ELSE [var |-> as[i], sid |-> table[as[i]]]]]

NewInstr(kind) ==
  [kind |-> kind, lval |-> None, call |-> None, reads |-> <<>>, args |-> <<>>,
   span |-> at]

BuildInit ==
  /\ program \in Program
  /\ at = 1
  /\ body = <<>>
  /\ nameTable = [v \in Var |-> 0]
  /\ sids = 0
  /\ built = FALSE

AtNode == /\ ~built
          /\ at <= Len(program)
          /\ UNCHANGED <<program, built>>

(* visit_stmt: what becomes of a node in a list is its kind's matter.        *)
Visiting(kinds) == /\ AtNode
                   /\ program[at].place # "branch"
                   /\ program[at].kind \in kinds

Names(scan) == /\ nameTable' = scan.table
               /\ sids' = scan.next

(* Of several values only the first is looked at, whatever the targets.      *)
Value(node) == Head(node.values)

(* visit_short_var_decl: only the first variable is bound, and before the    *)
(* value is built.                                                          *)
ShortVarDecl ==
  LET node == program[at]
      target == DeclareAll(Scan, <<Head(node.targets)>>)
      value == ResolveAll(target, Value(node).reads)
  IN /\ Visiting({"short"})
     /\ body' = Append(body, [NewInstr("assign") EXCEPT !.lval = target.names[1],
                                !.call = Value(node).call, !.reads = value.names])
     /\ Names(value)
     /\ at' = at + 1

(* visit_var_decl: every leaf of the pattern is bound to the whole value.    *)
VarDecl ==
  LET node == program[at]
      value == ResolveAll(Scan, Value(node).reads)
      leaves == DeclareAll(value, node.targets)
  IN /\ Visiting({"var"})
     /\ body' = body \o [k \in DOMAIN leaves.names |->
                           [NewInstr("assign") EXCEPT !.lval = leaves.names[k],
                              !.call = Value(node).call, !.reads = value.names]]
     /\ Names(leaves)
     /\ at' = at + 1

(* visit_assignment: of several targets the first alone is kept, and it may  *)
(* be one without a name.                                                   *)
Assignment ==
  LET node == program[at]
      target == ResolveAll(Scan, <<Head(node.targets)>>)
      value == ResolveAll(target, Value(node).reads)
  IN /\ Visiting({"assign"})
     /\ body' = Append(body, [NewInstr("assign") EXCEPT !.lval = target.names[1],
                                !.call = Value(node).call, !.reads = value.names])
     /\ Names(value)
     /\ at' = at + 1

(* A call instruction: it has no result, so no l-value.                      *)
EmitCall(func, as) ==
  LET found == ResolveAll(Scan, as)
  IN /\ body' = Append(body, [NewInstr("call") EXCEPT !.call = func, !.args = found.names])
     /\ Names(found)

CallStatement ==
  /\ Visiting({"call"})
  /\ EmitCall(Value(program[at]).call, program[at].args)
  /\ at' = at + 1

(* Its names get ids; there is no instruction.                              *)
ExprStatement ==
  /\ Visiting({"expr"})
  /\ Names(ResolveAll(Scan, Value(program[at]).reads))
  /\ at' = at + 1
  /\ UNCHANGED body

EmitRead(kind) ==
  LET found == ResolveAll(Scan, Value(program[at]).reads)
  IN /\ body' = Append(body, [NewInstr(kind) EXCEPT !.call = Value(program[at]).call,
                                                   !.reads = found.names])
     /\ Names(found)

(* A return, or the condition of a for clause.                              *)
ReturnOrTest ==
  /\ Visiting({"return", "test"})
  /\ EmitRead(IF program[at].kind = "return" THEN "return" ELSE "branch")
  /\ at' = at + 1

(* visit_if: the condition, then the branches; nobody visits the initializer. *)
InitializerSize(n) ==
  IF n + 1 \in DOMAIN program /\ program[n+1].place = "init" THEN program[n+1].size ELSE 0

If ==
  /\ Visiting({"if"})
  /\ EmitRead("branch")
  /\ at' = at + 1 + InitializerSize(at)

(* Mutant: an if that is a branch is not looked at.                          *)
ElseIfSkipped ==
  /\ AtNode
  /\ program[at].place = "branch"
  /\ at' = at + IF program[at].kind = "if" THEN program[at].size ELSE 1
  /\ UNCHANGED <<body, nameTable, sids>>

(* A branch: its children come next, each visited as a statement. So the if  *)
(* of an else if makes no branch instruction, a condition that is a call     *)
(* becomes a call instruction, and its initializer is visited; of a return   *)
(* only a call is left. (In parentheses a call is none here: the value of    *)
(* the node is then one without call.)                                      *)
Branch ==
  /\ AtNode
  /\ program[at].place = "branch"
  /\ IF program[at].kind \in {"if", "return", "call"} /\ Value(program[at]).call # None
     THEN EmitCall(Value(program[at]).call, program[at].args)
     ELSE UNCHANGED <<body, nameTable, sids>>
  /\ at' = at + 1

Container ==
  /\ Visiting({"for", "block"})
  /\ at' = at + 1
  /\ UNCHANGED <<body, nameTable, sids>>

(* The whole construct is one instruction that says nothing, or none.        *)
Unsupported ==
  /\ Visiting({"fixme", "other"})
  /\ body' = IF program[at].kind = "fixme" THEN Append(body, NewInstr("fixme")) ELSE body
  /\ at' = at + program[at].size
  /\ UNCHANGED <<nameTable, sids>>

EndOfFunction ==
  /\ ~built
  /\ at > Len(program)
  /\ built' = TRUE
  /\ UNCHANGED <<program, at, body, nameTable, sids>>

BuildStep == \/ ShortVarDecl \/ VarDecl \/ Assignment \/ CallStatement \/ ExprStatement
             \/ ReturnOrTest \/ If \/ Branch \/ Container \/ Unsupported
             \/ EndOfFunction
-----------------------------------------------------------------------------
Span(n) == n..n + program[n].size - 1

Mentions == UNION {(Range(body[k].reads) \cup Range(body[k].args) \cup {body[k].lval}) \ {None} : k \in DOMAIN body}

Declarations(v) ==
  Cardinality({p \in (1..at-1) \X (1..MaxNodes) :
    LET node == program[p[1]]
    IN /\ node.kind \in {"short", "var"}
       /\ p[2] \in DOMAIN node.targets
       /\ node.kind = "short" => p[2] = 1
       /\ node.targets[p[2]] = v})

(* An id names one variable, and a variable has at most one id per           *)
(* declaration and one for the uses before the first.                       *)
SidsAreUnambiguous ==
  /\ \A p, q \in Mentions : p.sid = q.sid => p = q
  /\ \A v \in Var :
       Cardinality({p \in Mentions : p.var = v}) <= Declarations(v) + 1

(* What the builder passes over with all that is in it: an unsupported       *)
(* construct, and the initializer of an if that is no branch itself.         *)
PassedOver(m) ==
  \/ program[m].place # "branch" /\ program[m].kind \in {"fixme", "other"}
  \/ program[m].place = "init" /\ program[m-1].place # "branch"
Kept(n) == \A m \in DOMAIN program : PassedOver(m) => n \notin Span(m)

(* A statement without instruction is lost in one of the ways that visit_if  *)
(* and visit_stmt have to lose one: it lies in an unsupported construct or   *)
(* in the initializer of an if, or it is a branch itself, without a block    *)
(* around it. Nothing else is lost, however deep it lies in branches, else   *)
(* ifs and loops.                                                           *)
StatementsSurvive ==
  built =>
    \A n \in DOMAIN program :
      /\ program[n].kind \in {"short", "assign", "call", "return", "if", "test"}
      /\ program[n].place # "branch"
      /\ Kept(n)
      => \E k \in DOMAIN body : body[k].span = n

(* What il.rs:12 says of a name: its id "resolves shadowing via scope-unique *)
(* numbering". A use has the id of the declaration that is visible there,    *)
(* the last one before it in a block around it.                              *)
Scopes == {m \in DOMAIN program : program[m].kind \in {"block", "for"}}
VisibleDeclaration(k, v, n) ==
  /\ body[k].kind = "assign"
  /\ program[body[k].span].kind \in {"short", "var"}
  /\ body[k].lval.var = v
  /\ body[k].span < n
  /\ \A m \in Scopes : body[k].span \in Span(m) => n \in Span(m)

ShadowingIsResolved ==
  built =>
    \A k \in DOMAIN body : \A u \in (Range(body[k].reads) \cup Range(body[k].args)) \ {None} :
      LET visible == {j \in DOMAIN body : VisibleDeclaration(j, u.var, body[k].span)}
      IN visible # {} => u.sid = body[Max(visible)].lval.sid
=============================================================================
