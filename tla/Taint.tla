-------------------------------- MODULE Taint --------------------------------
(***************************************************************************)
(* crates/dataflow/src/taint.rs: a list of rules applied to one function.    *)
(* Rule by rule the names that a source may fill are collected, spread       *)
(* through assignments by a queue, and looked for among the arguments of the *)
(* sinks.                                                                   *)
(*                                                                         *)
(* The instructions are those of IlBuilder, in the order of the list: that   *)
(* is the order of the graph's blocks, and nothing here looks at its edges.  *)
(***************************************************************************)
EXTENDS IlBuilder, TaintRules

CONSTANTS
  Rules,             \* the rules of the request, or the default ones
  MaxDefinitions     \* MAX_DEFINITIONS: definitions of a function worth chaining

Rule == [id : STRING, sources : SUBSET STRING, sanitizers : SUBSET STRING,
         sinks : SUBSET [pattern : STRING, arg_index : Int]]

ASSUME RulesAssumption == Rules \in Seq(Rule)
ASSUME MaxDefinitionsAssumption == MaxDefinitions \in Nat

VARIABLES
  phase,       \* where analyze_taint stands
  rule,        \* the rule it works on, an index of Rules
  tainted,     \* the names found tainted by that rule
  queue,       \* names whose uses are still to be looked at
  reported     \* the findings: a rule and the span of a sink call

taintVars == <<phase, rule, tainted, queue, reported>>
vars == <<ilVars, taintVars>>

TaintTypeOK ==
  /\ phase \in {"chains", "seed", "spread", "done"}
  /\ rule \in 1..Len(Rules)+1
  /\ tainted \subseteq Var
  /\ queue \in Seq(Var)
  /\ reported \subseteq (DOMAIN Rules) \X (1..MaxNodes)
TypeOK == IlTypeOK /\ TaintTypeOK
-----------------------------------------------------------------------------
IsAssign(k) == body[k].kind = "assign"

(* A call of a function of which some pattern is the name or its end.        *)
Calls(name, patterns) == name # None /\ \E p \in patterns : matches_pattern(name, p)

IsSource(name) == Calls(name, Rules[rule].sources)
IsSanitizer(name) == Calls(name, Rules[rule].sanitizers)

(* An assignment, or a call with a result, which no builder produces.        *)
IsDef(k) == IsAssign(k) \/ (body[k].kind = "call" /\ body[k].lval # None)

(* collect_definitions: the definitions of a name are numbered in order.     *)
Definitions == {k \in DOMAIN body : IsDef(k) /\ body[k].lval # None}
NumberOf(d) == Cardinality({j \in Definitions : j <= d})

(* Mutant: the assignment itself is counted before it is looked at.          *)
DefIdAfter(k) == Cardinality({j \in 1..k : IsDef(j)}) + 1

(* The counter find_tainted_defs has at instruction k: the definitions       *)
(* before it, those without a name included.                                *)
DefId(k) == Cardinality({j \in 1..k-1 : IsDef(j)}) + 1

(* find_tainted_defs: definition numbers of what a source call is assigned   *)
(* to. A number past the last definition is ignored later.                   *)
TaintedDefs == {DefId(k) : k \in {j \in DOMAIN body : IsDef(j) /\ IsSource(body[j].call)}}

(* The names of those definitions.                                          *)
Seeds == {body[d].lval.var : d \in {e \in Definitions : NumberOf(e) \in TaintedDefs}}

UsesVar(k, v) ==
  \E i \in DOMAIN body[k].reads : body[k].reads[i] # None /\ body[k].reads[i].var = v

(* Mutant: only the first assignment that uses the name is followed.         *)
FirstTarget(v) ==
  LET hits == {k \in DOMAIN body : IsAssign(k) /\ UsesVar(k, v) /\ body[k].lval # None}
  IN IF hits = {} THEN {} ELSE {body[Min(hits)].lval.var}

(* The names assigned from an expression in which v occurs.                  *)
TargetsOf(v) ==
  {body[k].lval.var : k \in {j \in DOMAIN body :
                               IsAssign(j) /\ UsesVar(j, v) /\ body[j].lval # None}}

(* find_sanitized_vars: the results of calls. The builder turns an assigned  *)
(* call into an assignment, which is not looked at here.                    *)
SanitizedVars ==
  {body[k].lval.var : k \in {j \in DOMAIN body : /\ body[j].kind = "call"
                                                /\ body[j].lval # None
                                                /\ IsSanitizer(body[j].call)}}

(* is_arg_tainted: of the sink's argument, or of any when the index is -1.   *)
ArgTainted(as, index) ==
  \E i \in DOMAIN as : /\ index \in {-1, i - 1}
                       /\ as[i] # None
                       /\ as[i].var \in tainted \ SanitizedVars
-----------------------------------------------------------------------------
Init == /\ BuildInit
        /\ phase = "chains"
        /\ rule = 1
        /\ tainted = {}
        /\ queue = <<>>
        /\ reported = {}

Build == /\ BuildStep
         /\ UNCHANGED taintVars

Enqueue(q, names) == q \o SetToSeq(names)

TooMany == Cardinality(Definitions) > MaxDefinitions

(* Chains are built for the function, once for all rules; one with too many  *)
(* definitions gets none, and no findings.                                  *)
BuildChains ==
  /\ built
  /\ phase = "chains"
  /\ phase' = IF TooMany THEN "done" ELSE "seed"
  /\ UNCHANGED <<ilVars, rule, tainted, queue, reported>>

(* The next rule starts with names of its own.                              *)
Seed ==
  /\ phase = "seed"
  /\ rule <= Len(Rules)
  /\ phase' = "spread"
  /\ tainted' = Seeds
  /\ queue' = Enqueue(<<>>, Seeds)
  /\ UNCHANGED <<ilVars, rule, reported>>

(* Mutant: the name looked at stays at the head of the queue.                *)
SpreadKeeps ==
  /\ phase = "spread"
  /\ queue # <<>>
  /\ tainted' = tainted \cup TargetsOf(Head(queue))
  /\ queue' = Enqueue(queue, TargetsOf(Head(queue)) \ tainted)
  /\ UNCHANGED <<ilVars, phase, rule, reported>>

(* The name at the head of the queue: what is assigned from it is tainted    *)
(* too, and queued when that is news.                                       *)
Spread ==
  /\ phase = "spread"
  /\ queue # <<>>
  /\ tainted' = tainted \cup TargetsOf(Head(queue))
  /\ queue' = Enqueue(Tail(queue), TargetsOf(Head(queue)) \ tainted)
  /\ UNCHANGED <<ilVars, phase, rule, reported>>

(* find_taint_at_sinks: the calls of the rule's sinks with a tainted          *)
(* argument.                                                                *)
HitSinks ==
  {k \in DOMAIN body : /\ body[k].kind = "call"
                       /\ \E s \in Rules[rule].sinks : /\ Calls(body[k].call, {s.pattern})
                                                       /\ ArgTainted(body[k].args, s.arg_index)}

(* Nothing is left to spread: the findings of the rule are added.            *)
Report ==
  /\ phase = "spread"
  /\ queue = <<>>
  /\ reported' = reported \cup {<<rule, body[k].span>> : k \in HitSinks}
  /\ rule' = rule + 1
  /\ phase' = "seed"
  /\ UNCHANGED <<ilVars, tainted, queue>>

(* All rules are through.                                                   *)
Return ==
  /\ phase = "seed"
  /\ rule > Len(Rules)
  /\ phase' = "done"
  /\ UNCHANGED <<ilVars, rule, tainted, queue, reported>>

Next == Build \/ BuildChains \/ Seed \/ Spread \/ Report \/ Return

Spec == Init /\ [][Next]_vars /\ WF_vars(Next)
-----------------------------------------------------------------------------
(* The flows of the function itself, for rule r, through the statements of   *)
(* N: a variable is dirty when one of them gives it the result of a source   *)
(* of r, or a value with a dirty variable in it, whatever their order. These *)
(* are the variables that no set closed under such statements does without.  *)
(* Of the targets and values of a statement those count that the builder     *)
(* takes up: the first of a list, all leaves of a pattern, the operands that *)
(* do not become Fixme.                                                     *)
Bound(node) ==
  {v \in Var : /\ node.place # "branch"
               /\ \/ node.kind \in {"short", "assign"} /\ v = Head(node.targets)
                  \/ node.kind = "var" /\ v \in Range(node.targets)}
DirtyFrom(r, N, dirty) ==
  {v \in Var : \E n \in N :
     /\ v \in Bound(program[n])
     /\ \/ Calls(Value(program[n]).call, Rules[r].sources)
        \/ Range(Value(program[n]).reads) \cap dirty # {}}
Dirty(r, N) == {v \in Var : \A S \in SUBSET Var : DirtyFrom(r, N, S) \subseteq S => v \in S}

(* A call that is no part of a value: a statement, or visited as one.        *)
StandsAlone(node) ==
  node.kind = "call" \/ (node.place = "branch" /\ node.kind \in {"if", "return"})

SinkGets(r, n, dirty) ==
  /\ StandsAlone(program[n])
  /\ \E s \in Rules[r].sinks, i \in DOMAIN program[n].args :
       /\ Calls(Value(program[n]).call, {s.pattern})
       /\ s.arg_index \in {-1, i - 1}
       /\ program[n].args[i] \in dirty

Nodes == DOMAIN program
KeptNodes == {n \in Nodes : Kept(n)}

(* The first target of every assignment has a name, so that the numbers of   *)
(* definitions counted with and without the unnamed ones are the same.       *)
AllNamed == \A n \in Nodes : program[n].kind = "assign" => Head(program[n].targets) # None

(* The function has no more definitions than the limit allows.               *)
Chained == Cardinality(Definitions) <= MaxDefinitions

(* The sink calls that the flows through what is kept make dirty.            *)
FlowsFound ==
  \A r \in DOMAIN Rules, n \in KeptNodes :
    SinkGets(r, n, Dirty(r, KeptNodes)) => <<r, n>> \in reported

(* No flow is missed that can be followed: when the analysis ends, every     *)
(* call statement of a sink that gets a variable dirty under the sink's rule *)
(* is reported by that rule (il_build_expr.rs:41, the patterns' "no false    *)
(* negative"), whatever else of the function is lost. It speaks of functions *)
(* of up to MaxDefinitions definitions whose first targets have names, and   *)
(* of flows through what the builder takes up.                              *)
NoFlowMissed == phase = "done" /\ Chained /\ AllNamed => FlowsFound

(* taint.rs:1: the analysis "tracks data from sources to sinks", also when   *)
(* the first target of some assignment has no name, as in a[0] = x.          *)
SourcesReachSinks == phase = "done" /\ Chained => FlowsFound

(* Nothing is invented, and nothing crosses from one rule to another: a call *)
(* is reported by a rule only when it gets an argument that is dirty under   *)
(* that rule, and no other variable is tainted while the rule is applied.    *)
OnlyDirtyReported ==
  AllNamed => /\ phase = "spread" => tainted \subseteq Dirty(rule, Nodes)
              /\ \A f \in reported : SinkGets(f[1], f[2], Dirty(f[1], Nodes))

(* taint_tests.rs:213, "sanitizer should block taint": a variable that only  *)
(* ever gets the results of sanitizers is not reported at a sink.            *)
SanitizerBlocks ==
  \A f \in reported :
    \E i \in DOMAIN program[f[2]].args :
      /\ program[f[2]].args[i] # None
      /\ \E m \in DOMAIN program :
           /\ program[f[2]].args[i] \in Bound(program[m])
           /\ ~Calls(Value(program[m]).call, Rules[f[1]].sanitizers)

(* The analysis of a function comes to an end, cycles of assignments or not. *)
AnalysisEnds == <>(phase = "done")
=============================================================================
