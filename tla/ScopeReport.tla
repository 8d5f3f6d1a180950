----------------------------- MODULE ScopeReport -----------------------------
(***************************************************************************)
(* crates/dataflow/src/analysis.rs: what is reported about the scopes a walk *)
(* has built. A finding is the kind and the place of the binding it is made  *)
(* for; the report holds one finding per binding, so two bindings of the     *)
(* same variable at the same site are two findings.                         *)
(***************************************************************************)
EXTENDS ScopeWalker

CONSTANT SkipName    \* the names is_skip_name lets go: _x and err

ASSUME SkipNameAssumption == SkipName \subseteq VarName

(* A binding that no identifier reads, of a name that has to be read.        *)
Unread == {p \in Place : ~At(p).param /\ At(p).uses = <<>> /\ At(p).name \notin SkipName}

DeadStores == {p \in Unread : At(p).const}
UnusedVars == Unread
ConstValues == {p \in Place : At(p).const}

Finding(kind, places) == {[kind |-> kind, place |-> p] : p \in places}

(* Mutant: the unused variables are not filtered.                            *)
AnalyzeAll == Finding("DeadStore", DeadStores) \cup Finding("UnusedVariable", UnusedVars)
                \cup Finding("ConstantValue", ConstValues)

(* analyze: an unused variable is left out when a dead store has its name    *)
(* and its place in the file.                                               *)
Analyze ==
  LET stored == {<<At(p).name, At(p).site>> : p \in DeadStores}
  IN Finding("DeadStore", DeadStores)
       \cup Finding("UnusedVariable",
                    {p \in UnusedVars : <<At(p).name, At(p).site>> \notin stored})
       \cup Finding("ConstantValue", ConstValues)

ReportedSites(kind) == {At(f.place).site : f \in {g \in Analyze : g.kind = kind}}
-----------------------------------------------------------------------------
(* Nothing is reported twice for the same reason: a site is a dead store or  *)
(* an unused variable, not both, although every dead store is unused, and    *)
(* this also when the site is bound several times.                          *)
DeadStoreSubsumesUnused ==
  done => ReportedSites("DeadStore") \cap ReportedSites("UnusedVariable") = {}

(* What analysis.rs:67 says of the report: "return combined, deduplicated    *)
(* findings". No variable is reported twice at one site for one kind.        *)
NoDuplicateFindings ==
  done => \A f, g \in Analyze :
            /\ f.kind = g.kind
            /\ At(f.place).site = At(g.place).site
            => f = g

(* A read of the value stored at site d: an identifier of that name after    *)
(* it, in the same function, with no other store of the name in between. A   *)
(* store happens after the reads in its own statement.                      *)
StoreSites == {m + 1 : m \in {n \in DOMAIN tree : tree[n].kind \in {"decl", "assign"}}}
StoredAt(d) == d - 2 + tree[d - 1].size
FunctionsAround(n) == {f \in DOMAIN tree : tree[f].kind = "func" /\ n \in Span(f)}

IsReadLater(d) ==
  \E u \in DOMAIN tree :
    /\ tree[u].kind = "ident"
    /\ u \notin StoreSites
    /\ tree[u].name = tree[d].name
    /\ FunctionsAround(u) = FunctionsAround(d)
    /\ StoredAt(d) < u
    /\ \A e \in StoreSites \ {d} :
         tree[e].name = tree[d].name => ~(StoredAt(d) < StoredAt(e) /\ StoredAt(e) < u)

(* What analysis.rs:3 says of a dead store: "assigned a value but never      *)
(* read".                                                                   *)
NoReadStoreReported ==
  done => \A d \in ReportedSites("DeadStore") : ~IsReadLater(d)
=============================================================================
