----------------------------- MODULE ScopeWalker -----------------------------
(***************************************************************************)
(* crates/dataflow/src/scope_walker/mod.rs: one pass over a syntax tree that *)
(* keeps a stack of open scopes, binds variables in the scope on top and     *)
(* attaches every identifier to the binding it reads.                        *)
(*                                                                         *)
(* A tree is the sequence of its nodes in the order the walk meets them; a   *)
(* node knows how many nodes its subtree has, and its position stands for    *)
(* its start byte. Kept are the nodes the walk acts on:                      *)
(*   func    pushes a scope; a name means a named declaration, whose first   *)
(*           child is the identifier of that name                            *)
(*   loop    pushes a scope                                                  *)
(*   param   the identifier of a parameter                                   *)
(*   decl    a declaration, assign an assignment: the first child is the     *)
(*           identifier it binds; const says its value is a literal          *)
(*   ident   an identifier                                                   *)
(*   each    the identifier xs of a Svelte {#each xs as x}; its child is x   *)
(* Script elements, expressions and directives of a Svelte file are walked   *)
(* through, so they are not nodes here.                                      *)
(***************************************************************************)
EXTENDS Naturals, Sequences, SequencesExt, FiniteSets, FiniteSetsExt

CONSTANTS
  VarName,     \* the names of the program
  PlainTree,   \* the syntax trees to walk, of plain files
  SvelteTree,  \* and of files walked as Svelte
  MaxNodes,    \* bound: nodes of a tree
  None

Kind == {"func", "loop", "param", "decl", "assign", "ident", "each"}
NodeRec == [kind : Kind, name : VarName \cup {None}, const : BOOLEAN,
            size : 1..MaxNodes]

ASSUME NameAssumption == None \notin VarName
ASSUME NodesAssumption == MaxNodes \in Nat
ASSUME TreeAssumption ==
  \A t \in PlainTree \cup SvelteTree :
    /\ t \in Seq(NodeRec)
    /\ Len(t) <= MaxNodes
    /\ \A n \in DOMAIN t :
         /\ n + t[n].size - 1 <= Len(t)
         /\ \A m \in n..n + t[n].size - 1 : m + t[m].size <= n + t[n].size
         /\ t[n].kind \in {"param", "ident"} => t[n].size = 1 /\ t[n].name # None
         /\ t[n].kind \in {"decl", "assign"} =>
              t[n].size > 1 /\ t[n + 1].kind = "ident" /\ t[n + 1].name = t[n].name
         /\ t[n].kind = "func" /\ t[n].name # None =>
              t[n].size > 1 /\ t[n + 1].kind = "ident" /\ t[n + 1].name = t[n].name
         /\ t[n].kind = "each" => /\ t[n].size = 2
                                  /\ t[n].name # None
                                  /\ t[n + 1].kind = "param"
ASSUME PlainAssumption ==
  \A t \in PlainTree : \A n \in DOMAIN t : t[n].kind # "each"

(* The root of the tree, which spans it all.                                *)
Root == 0

VARIABLES
  svelte,      \* the file is walked as Svelte
  tree,        \* the tree walked
  at,          \* the next node to visit
  stack,       \* the open scopes, innermost last
  finished,    \* the closed scopes
  pending,     \* pending_refs: identifiers that found no binding
  sid,         \* the last symbol id given
  done         \* the chain has been returned

walkVars == <<svelte, tree, at, stack, finished, pending, sid, done>>

Site == 1..MaxNodes
Binding == [name : VarName, sid : Nat, site : Site, const : BOOLEAN,
            param : BOOLEAN, uses : Seq(Site)]
Scope == [node : 0..MaxNodes, vars : Seq(Binding)]

WalkTypeOK ==
  /\ svelte \in BOOLEAN
  /\ tree \in Seq(NodeRec)
  /\ at \in 1..MaxNodes+1
  /\ stack \in Seq(Scope)
  /\ finished \in Seq(Scope)
  /\ pending \in Seq(Site)
  /\ sid \in Nat
  /\ done \in BOOLEAN
-----------------------------------------------------------------------------
Span(n) == IF n = Root THEN DOMAIN tree ELSE n..n + tree[n].size - 1

OpenScope(n) == [node |-> n, vars |-> <<>>]

NewBinding(name, id, site, const, param) ==
  [name |-> name, sid |-> id, site |-> site, const |-> const,
   param |-> param, uses |-> <<>>]

(* A binding, added to the scope at position i of the stack.                 *)
Bind(stk, i, b) == [stk EXCEPT ![i].vars = Append(@, b)]

(* What a query run on node n captures: the nodes of the kind in the whole   *)
(* subtree of n, nested functions included, in the order of the tree.        *)
Matches(n, kind) ==
  CHOOSE hits \in SetToSeqs({m \in Span(n) : tree[m].kind = kind}) :
    \A i, j \in DOMAIN hits : i < j => hits[i] < hits[j]

(* collect_params: each captured parameter is bound in the innermost scope.  *)
CollectParams(stk, n) ==
  LET hits == Matches(n, "param")
  IN [stk EXCEPT ![Len(stk)].vars =
        @ \o [k \in DOMAIN hits |->
                NewBinding(tree[hits[k]].name, sid + k, hits[k], FALSE, TRUE)]]

(* collect_bindings: a new binding per declaration or assignment captured,   *)
(* never an update of one.                                                   *)
CollectBindings(stk, n, kind) ==
  LET hits == Matches(n, kind)
  IN [stk EXCEPT ![Len(stk)].vars =
        @ \o [k \in DOMAIN hits |->
                NewBinding(tree[hits[k]].name, sid + k, hits[k] + 1,
                           tree[hits[k]].const, FALSE)]]

(* Mutant: the outermost scope with a binding of that name.                  *)
OutermostScope(stk, name) ==
  LET holding == {i \in DOMAIN stk :
                    \E j \in DOMAIN stk[i].vars : stk[i].vars[j].name = name}
  IN IF holding = {} THEN 0 ELSE Min(holding)

(* The innermost scope with a binding of that name, 0 if there is none.      *)
HoldingScope(stk, name) ==
  LET holding == {i \in DOMAIN stk :
                    \E j \in DOMAIN stk[i].vars : stk[i].vars[j].name = name}
  IN IF holding = {} THEN 0 ELSE Max(holding)

(* The latest binding of that name in a scope that has one.                  *)
LatestBinding(scope, name) ==
  Max({j \in DOMAIN scope.vars : scope.vars[j].name = name})

(* Mutant: every open scope with that name gets the use.                     *)
RecordEverywhere(stk, name, use) ==
  [i \in DOMAIN stk |->
     IF HoldingScope(<<stk[i]>>, name) = 0 THEN stk[i]
     ELSE [stk[i] EXCEPT !.vars[LatestBinding(stk[i], name)].uses = Append(@, use)]]

(* The use goes to the latest binding of the innermost scope that has one,   *)
(* unless it is the very place where that binding was made.                  *)
RecordUse(stk, name, use) ==
  LET i == HoldingScope(stk, name)
      j == LatestBinding(stk[i], name)
  IN IF stk[i].vars[j].site = use THEN stk
     ELSE [stk EXCEPT ![i].vars[j].uses = Append(@, use)]
-----------------------------------------------------------------------------
WalkInit ==
  /\ svelte \in BOOLEAN
  /\ tree \in IF svelte THEN SvelteTree ELSE PlainTree
  /\ at = 1
  /\ stack = <<OpenScope(Root)>>
  /\ finished = <<>>
  /\ pending = <<>>
  /\ sid = 0
  /\ done = FALSE

Leaving == /\ Len(stack) > 1
           /\ at \notin Span(Last(stack).node)

Visiting(kinds) ==
  /\ ~done
  /\ ~Leaving
  /\ at <= Len(tree)
  /\ tree[at].kind \in kinds
  /\ at' = at + 1
  /\ UNCHANGED <<svelte, tree, finished, done>>

(* A function: its scope, its parameters and, in the scripts of a Svelte     *)
(* file, its name in the scope around it.                                    *)
EnterFunction ==
  LET inner == CollectParams(Append(stack, OpenScope(at)), at)
      id == sid + Len(Matches(at, "param"))
      named == svelte /\ tree[at].name # None
  IN /\ Visiting({"func"})
     /\ stack' = IF named
                 THEN Bind(inner, Len(inner) - 1,
                           NewBinding(tree[at].name, id + 1, at + 1, FALSE, FALSE))
                 ELSE inner
     /\ sid' = IF named THEN id + 1 ELSE id
     /\ UNCHANGED pending

EnterLoop ==
  /\ Visiting({"loop"})
  /\ stack' = Append(stack, OpenScope(at))
  /\ UNCHANGED <<pending, sid>>

(* A declaration or an assignment is bound before its children, its value    *)
(* among them, are visited.                                                  *)
BindVariables ==
  /\ Visiting({"decl", "assign"})
  /\ stack' = CollectBindings(stack, at, tree[at].kind)
  /\ sid' = sid + Len(Matches(at, tree[at].kind))
  /\ UNCHANGED pending

(* An identifier is a use of the binding it finds; what finds none is kept   *)
(* for later in a Svelte file and forgotten in any other.                    *)
Reference ==
  /\ Visiting({"ident", "param"})
  /\ IF HoldingScope(stack, tree[at].name) # 0
     THEN /\ stack' = RecordUse(stack, tree[at].name, at)
          /\ UNCHANGED pending
     ELSE /\ pending' = IF svelte THEN Append(pending, at) ELSE pending
          /\ UNCHANGED stack
  /\ UNCHANGED sid

(* {#each xs as x}: xs is a reference, then x is bound as a parameter in the *)
(* innermost scope, which is the file's: a block opens none.                 *)
EachBlock ==
  LET found == HoldingScope(stack, tree[at].name) # 0
      read == IF found THEN RecordUse(stack, tree[at].name, at) ELSE stack
  IN /\ ~done
     /\ ~Leaving
     /\ at <= Len(tree)
     /\ tree[at].kind = "each"
     /\ stack' = Bind(read, Len(stack),
                      NewBinding(tree[at + 1].name, sid + 1, at + 1, FALSE, TRUE))
     /\ pending' = IF found THEN pending ELSE Append(pending, at)
     /\ sid' = sid + 1
     /\ at' = at + 2
     /\ UNCHANGED <<svelte, tree, finished, done>>

LeaveScope ==
  /\ ~done
  /\ Leaving
  /\ finished' = Append(finished, Last(stack))
  /\ stack' = Front(stack)
  /\ UNCHANGED <<svelte, tree, at, pending, sid, done>>

(* The walk is over: at the end of the tree, with the file's scope open.     *)
AtEnd == ~done /\ ~Leaving /\ at > Len(tree)

(* Mutant: what is pending is searched for in the closed scopes as well.     *)
ResolveAnywhere ==
  /\ AtEnd
  /\ pending # <<>>
  /\ LET use == Head(pending)
         scopes == finished \o stack
         found == IF HoldingScope(scopes, tree[use].name) = 0 THEN scopes
                  ELSE RecordUse(scopes, tree[use].name, use)
     IN /\ finished' = SubSeq(found, 1, Len(finished))
        /\ stack' = SubSeq(found, Len(finished) + 1, Len(found))
  /\ pending' = Tail(pending)
  /\ UNCHANGED <<svelte, tree, at, sid, done>>

(* An identifier that is pending is looked up once more in the scopes still  *)
(* open.                                                                    *)
Resolve ==
  /\ AtEnd
  /\ pending # <<>>
  /\ LET use == Head(pending)
     IN stack' = IF HoldingScope(stack, tree[use].name) = 0 THEN stack
                 ELSE RecordUse(stack, tree[use].name, use)
  /\ pending' = Tail(pending)
  /\ UNCHANGED <<svelte, tree, at, finished, sid, done>>

(* Mutant: the file's own scope is closed without a look at what is pending. *)
FinishUnresolved ==
  /\ AtEnd
  /\ finished' = finished \o Reverse(stack)
  /\ stack' = <<>>
  /\ pending' = <<>>
  /\ done' = TRUE
  /\ UNCHANGED <<svelte, tree, at, sid>>

(* Nothing is pending any more: the scopes still open are closed.            *)
Finish ==
  /\ AtEnd
  /\ pending = <<>>
  /\ finished' = finished \o Reverse(stack)
  /\ stack' = <<>>
  /\ done' = TRUE
  /\ UNCHANGED <<svelte, tree, at, pending, sid>>

WalkNext == \/ EnterFunction \/ EnterLoop \/ BindVariables \/ Reference
            \/ EachBlock \/ LeaveScope \/ Resolve \/ Finish

WalkSpec == WalkInit /\ [][WalkNext]_walkVars
-----------------------------------------------------------------------------
Scopes == finished \o stack

(* The bindings made so far, each with its place in Scopes.                  *)
Place == UNION {{i} \X (DOMAIN Scopes[i].vars) : i \in DOMAIN Scopes}
At(p) == Scopes[p[1]].vars[p[2]]

(* One identifier of the program is counted as a use once, of one binding,   *)
(* and one that waits in pending_refs is not counted yet: an identifier that *)
(* is counted twice hides a variable nobody reads.                          *)
OneUsePerIdentifier ==
  \A u \in DOMAIN tree :
    Cardinality({p \in Place : Contains(At(p).uses, u)})
      + Cardinality({k \in DOMAIN pending : pending[k] = u}) <= 1
    /\ \A p \in Place : Cardinality({k \in DOMAIN At(p).uses : At(p).uses[k] = u}) <= 1

(* A use lies inside the scope of the binding it is attached to: in          *)
(* particular a reference resolved at the end never falls on a variable of a *)
(* function that was closed before (mod.rs:106 and mod.rs:753).              *)
UsesStayInScope ==
  \A p \in Place : \A k \in DOMAIN At(p).uses :
    At(p).uses[k] \in Span(Scopes[p[1]].node)

(* Lexical scoping: no scope inside the one of the binding and around the    *)
(* use had a variable of that name before the use (the loop over             *)
(* stack.iter_mut().rev(), mod.rs:737 and mod.rs:759).                       *)
NearestBinding ==
  \A p \in Place : \A k \in DOMAIN At(p).uses : \A q \in Place :
    LET u == At(p).uses[k]
    IN ~(/\ At(q).name = At(p).name
         /\ At(q).site < u
         /\ u \in Span(Scopes[q[1]].node)
         /\ Scopes[p[1]].node < Scopes[q[1]].node)

(* In a Svelte file the order of template and script does not matter: when   *)
(* the walk is over, an identifier whose name the file's own scope binds is  *)
(* counted as a use somewhere, unless it is the place of a binding itself    *)
(* (mod.rs:102, the deferred references).                                   *)
LateDeclarationsAreFound ==
  svelte /\ done =>
    \A u \in DOMAIN tree :
      /\ tree[u].kind \in {"ident", "each"}
      /\ \E p \in Place : Scopes[p[1]].node = Root /\ At(p).name = tree[u].name
      => \E p \in Place : At(p).site = u \/ Contains(At(p).uses, u)
=============================================================================
