# A TLA+ development of ox-codes

ox-codes is a code-search server: an axum HTTP service over three libraries that
walk a directory, parse the files with tree-sitter and answer with matches, edits
or data-flow findings. This directory holds TLA+ modules that model the parts of it
with state, order or concurrency worth checking, TLC configurations that check them
on small instances, and TLAPS proofs of what matters most. `PROJECT.json` relates
every definition to the lines it models, every run to its properties, and every
property to a mutation of the code's model that breaks it.

Paths below are relative to `src/crates/`.

## 1. The system

| Component | State | Operations | Interacts with |
|---|---|---|---|
| Walk pool, `server/src/walk_guard.rs` | a semaphore with a fair queue; `in_flight`, `oldest_start_ms` | acquire with a bounded wait, count in, run on a blocking thread, deadline, count out, disconnect | every endpoint runs inside it |
| Weighted cache, `core/src/weighted_cache.rs` | a moka cache with a byte limit and a time to live | `get_or_insert_verified`, `get_or_insert_fallible`; at most one load per key | scope cache, dataflow cache |
| Scoped search, `core/src/scoped.rs`, `scope_cache.rs` | none of its own; parsed scopes in the cache | walk, stat, verified lookup, load | weighted cache, file system |
| Dataflow endpoint, `server/src/dataflow.rs`, `dataflow_cache.rs` | results in the cache | fingerprint walk, key, lookup, analysis walk, early stop, probe | weighted cache, walk, scope walker |
| Directory walk, `core/src/walk.rs` | position, count, `truncated` | next | every search |
| Rewrite, `core/src/rewrite.rs` | 64 stripe locks with poisoning; the files themselves | lock, read, resolve and apply edits, re-parse, persist, count | file system, other rewrites |
| Rewrite endpoint, `server/src/rewrite.rs` | none of its own | admit, run, answer, or answer at the deadline while the batch goes on | walk pool, rewrite, clients that retry |
| Solver, `dataflow/src/solver.rs`, `reaching_defs.rs` | worklist, bit set, IN and OUT sets | one turn of the loop | control flow graph |
| Control flow graph, `cfg_builder.rs`, `def_use.rs`, `cfg_analysis.rs` | blocks, chains, findings | cut, solve, chain, report | solver |
| Scope walker, `dataflow/src/scope_walker/mod.rs`, `analysis.rs` | stack of scopes, deferred references, symbol ids | enter, bind, refer, leave, resolve, report | dataflow endpoint |
| IL builder, `il_builder.rs`, `il_build_expr.rs`, `il_build_lval.rs` | instruction list, name table, id counter | one visit per statement kind | taint analysis |
| Taint analysis, `dataflow/src/taint.rs`, `taint_rules.rs` | the rules; for each, tainted names and a queue | seed, spread, report | IL builder, reaching definitions |
| Searches, `core/src/grep.rs`, `structural.rs`, `server/src/taint.rs` | files found, matches picked | walk, rank, pick, stop, truncate | walk, expansion |
| Expansion, `core/src/expand.rs` and its callers | the byte count of a scope | place a match, climb to its block, drop it over the budget | the three searches |
| Globs, `core/src/grep_filter.rs` | position, depth, pieces | one character | lexical search |
| Languages, `langs/src/`, tables in `core/src/structural.rs` and `grep_filter.rs` | constant tables | name to language, extension to language, grammar and query of a search | every search, scope cache |

Not modelled: the tree-sitter queries of the data-flow analyses (`ScopeWalker` takes
what they capture as input), the compilation of patterns (ast-grep), the
compilation and matching of globs (globset), the unused table of flow semantics,
descriptions and CWE numbers of taint rules, directive parsing for Svelte, symbol
names and fences of expanded blocks, the text of a diff, counters and weighers of
the caches, the fallback of `stripe_for` to the literal path, routing, `/health`,
`/cache/stats`, environment parsing, start-up, build and CI. They are pure string
functions, calls into a library, or I/O without state; `PROJECT.json` lists them
with their components.

What is hard here:

* **Concurrency** exists at four places: the pool (async handlers, blocking
  threads, clients that go away or try again), the shared cache (single-flight loads under
  edits of the files), the dataflow cache (two walks of a directory that changes
  between them), and the stripe locks of concurrent rewrites.
* **Failure**: walks that hang and cannot be cancelled, deadlines, disconnects,
  panics that poison a lock, I/O errors in the middle of a batch, an error that
  ends a walk silently.
* **Limits**: `max_results` and `max_files` are tested at different moments by
  every endpoint, and several flags report what they cut off.
* **Sequential algorithms** whose result depends on an order or on a count kept
  along the way: the worklist solver, the scope walker, the taint queue, overlapping
  edits, the bytes of a scope.
* **Tables that must agree**: five functions in three crates map names and extensions
  to languages, and a cache key leaves out the grammar that one of them chooses.

## 2. Modules

| Module | Models | Composed of |
|---|---|---|
| `WalkPool` | what the pool promises, no mechanism | |
| `WalkGuard` | `walk_guard.rs`, one action per atomic operation | implements `WalkPool` |
| `WeightedCache` | the cache and its single-flight load (moka is external) | |
| `ScopeCache` | concurrent scoped searches of files being edited | `WeightedCache` |
| `DataflowCache` | `/dataflow/analyze` over a changing directory | `WeightedCache` |
| `SerialRewrites` | what `apply=true` promises | |
| `Rewrite` | concurrent batches, locks, panics, I/O errors | implements `SerialRewrites` |
| `RewriteRequests` | `/rewrite`: batches as walks of the pool, deadlines, retries | `Rewrite`, `WalkPool` |
| `Edits` | `resolve_overlaps` and `apply_edits` on one text | |
| `Languages` | language configurations, their lookups, the scope cache's key | |
| `Globs` | the split of `file_glob` and `exclude_glob` | |
| `Expansion` | `find_enclosing_symbol` and its three callers | |
| `Solver` | `solve_forward` on reaching definitions | |
| `CfgBuilder`, `DefUse` | instructions to graph to chains to findings | `Solver` |
| `ScopeWalker`, `ScopeReport` | walk of a syntax tree, then its findings | |
| `IlBuilder`, `TaintRules`, `Taint` | statements to instructions to the findings of a list of rules | |
| `Search` | `/search`, `/search/structural`, `/dataflow/taint` over a walk | |
| `*Proofs` | theorems and proofs for the module named; `AlgorithmProofs` for `Edits`, `Languages`, `Globs`, `Search`, `ScopeWalker` and `ScopeReport` | those modules |
| `MC*` | the instances TLC runs; `MCAlgorithms` puts `Solver`, `Languages`, `Edits`, `Globs` and `Expansion` side by side, and a behaviour runs one of them | |

How state and actions correspond to the code, module by module:

* **WalkGuard.** `handler[r]` is where the async handler of request `r` stands,
  `walk[r]` the blocking closure; `available` and `queue` are tokio's fair semaphore
  (external). `CountIn`, `StoreOldest`, `CountOut`, `ClearOldest` are the single
  atomic operations of `WalkMetrics`, so that other threads may come between them.
  Timers may fire at any time. Relaxed atomics are taken as sequentially
  consistent; `QuietMetrics` is not claimed for weaker orders.
* **WeightedCache** offers `try_get_with` as "I load" or "I wait for the loader".
  Eviction and expiry may strike at any time.
* **ScopeCache.** A key is a path and a stamp (modification time and length); an
  edit may keep the stamp. `seen[r]` records the contents the file has had since
  search `r` took its stamp: the ghost against which staleness is judged. The hash
  of `verify` is taken to be injective.
* **DataflowCache.** The two walks list one directory at a time, so files come and
  go between any two steps. Requests may differ in their caps and share entries. A walk
  ends when no file is left, when it meets its cap with a file left, or on an error,
  which may come at any file (`WalkEnds`); `cut` tells of the cap alone, as `truncated`
  does, and `failed` is the history of the errors. Edits give fresh stamps (same-stamp edits are bounded
  in the code by the time to live only, which an untimed model cannot show).
* **Rewrite.** A file's content is the sequence of batches whose edits it carries,
  so a lost update is visible. Whether a batch applies or is a dry run is chosen at
  the start. What a pattern matches, whether a result parses and
  whether an I/O call fails are open choices at every file. A poisoned stripe is given
  like any other: `Mutex::lock` returns at once, and the code takes the guard out of the
  error. All paths canonicalise,
  so one file has one stripe.
* **RewriteRequests.** `active`, `ran` and `reply` are the state of `WalkPool`, which
  `WalkGuard` implements: what matters of the pool is that a batch starts under a
  permit and gives it back when it is over, and that an answer may come before.
  `Work(b)` is any step of `Rewrite`'s batch `b`, client or no client. `retryOf[b]`
  names the request that `b` repeats; a retry is sent after a 503 or a 504.
* **Edits.** A text is the sequence of its positions, a replacement as many marked
  cells as it is long. One turn of either loop is one action; ties of the sort are open.
* **Languages.** The tables are records by language; names of queries' node kinds are
  kept, captures are not. `entries` is the scope cache's part of one file, keyed as in
  `scoped.rs`: by language and scope, without the grammar.
* **Globs.** A pattern is a sequence over the four characters the code tells apart,
  by name, and one that stands for the others; one character is one action.
* **Expansion.** A file is the lengths and endings of its lines and the nodes of its
  tree. Each caller counts bytes in its own way, and `cumulative` is the count that
  `search_in_scopes` keeps.
* **Solver.** `worklist` and `inWorklist` are the stack and its bit set. The orders
  in which petgraph enumerates blocks and neighbours are left open: `SetToSeqs`
  gives every order, and the theorems hold for all of them.
* **CfgBuilder / DefUse.** One action per instruction; `Collect`, `Solve` and the
  chains follow. The declarators of one declaration have one span, so an instruction
  carries the position at which its span starts; `def_use.rs` looks definitions up by
  name, block and start, and brings all of one declaration to life with one of them
  (`LiveOwn`). Names declared as parameters are left out of the findings.
* **ScopeWalker.** A tree is the sequence of its nodes in walk order, each with
  the size of its subtree: a scope is left when the walk position leaves its span.
  `CollectBindings` and `CollectParams` run over the whole subtree, as the queries
  do. Whether a tree is Svelte, whose references wait for the end of the file, is
  chosen at the start. Positions are those of the whole file, so span offsets do not
  occur. `Resolve` is one turn of the loop of `resolve_pending_refs`, so that a turn
  that goes wrong is a step of its own; `Finish` drains the stack when none is left.
* **IlBuilder.** A body is the sequence of its statement nodes, each with the size of its
  subtree and its place: in a list, as the initializer of an if, or as a branch of one.
  `visit_if` never visits an initializer (`If` steps over it), and of a branch it visits
  the children (`Branch`), so an else if has no branch instruction, its initializer is
  visited, and a return without a block is lost. Of several targets or values the first
  is taken (`Value`, `Assignment`); a target without a name and an operand that becomes
  Fixme are `None`. `ResolveAll` and `DeclareAll` are what `resolve_or_create` and
  `next_sid` give, one after the other, for the names of an expression in evaluation
  order: a name not in the table gets the count of the new names before it.
* **Taint.** `BuildChains` ends the analysis without findings above `MaxDefinitions`;
  then one rule after the other: its seeds, its queue, its report. `DefId` is
  the counter of `find_tainted_defs`, `Definitions` the list it indexes; they count
  differently, and the model keeps the difference. Sinks are looked for in call
  instructions only, as in the code: a sink called within a value is not. `TaintRules`
  holds the default rules of every language.
* **Search.** A directory is what its walk yields, errors included; a match is the
  length of its block. Three endpoints share the walk and differ in when they stop.
  `open` is the file whose matches are looked at, and one match is one action: the loop
  over `raw_matches` in grep, over the nodes found in structural. The stable sort by
  number of matches is the one order that `Denser` allows.

## 3. Runs

Bounds are in the `.cfg` files and the `MC*` modules. Each property of a passing run
has a mutant in `PROJECT.json`, a plausible bug in a mapped definition with which TLC
reports the property violated: none of them is idle. Deadlock is left unchecked only
where the behaviour ends: a finite set of requests is answered, an analysis of one
function, graph or tree is over.

| Run | Bounds | Shows |
|---|---|---|
| `walk_guard` | 3 requests, 2 permits; walks may hang | permits are conserved, running walks are counted, metrics come to rest, `WalkPool` is implemented, every request is answered or its client is gone even when walks hang, the pool drains when none does |
| `scope_cache` | 2 searches, 1 file that may vanish, 2 stamps, 2 contents | a stale value is used only after sharing an earlier load; nobody waits for ever for another's load |
| `dataflow_cache` | 2 requests with caps 1 and 2, 2 files that are edited and go, 3 changes of the directory's clock, walks that end on an error | what a response says of a file was so during the request; a request that analysed says when its cap cut it |
| `rewrite` | 2 requests, each applying or dry, the second perhaps the retry of the first, 2 permits, 2 files on 1 stripe, up to 2 edits per file | edits are made on a current reading, no batch's edit is lost or made twice, the cap is reported exactly, serial outcome; only a retry after a 504 rewrites a file again; a batch that starts ends, and one that asks for a stripe gets it, despite panics |
| `algorithms` | every graph of 4 blocks with 2 definitions; every name, scope and extension with up to 2 cached values; up to 3 edits on a text of 4; every glob of up to 4 characters; 3 files of 6 lines, plain, mixed and CRLF, with budgets that bind and that do not | the solver ends in the meet over all paths; a cached value is what the search would have made; the tables agree; overlapping edits are resolved and applied in place; globs are cut at their separators; a match is expanded to the block around it |
| `def_use` | every body of up to 3 instructions over 2 variables, of 4 over one, neighbours joined to declarations in every way | no instruction lost, no use missed; unreal chains and findings only of the two kinds named |
| `scope_walk` | trees of up to 15 nodes put together from functions, closures, loops, `{#each}`, a single function as the whole file among them; plain and Svelte | lexical lookup, one use per identifier, one reason per site; deferred references find late declarations and never a closed scope |
| `taint` | bodies of up to 10 statement nodes with nested branches and loops, initializers, branches without a block, lists of targets and values, unnamed targets, Fixme operands; at most 3 definitions, and bodies with more | a statement is lost only in the ways `StatementsSurvive` names; each of the three overlapping rules for Go reports every flow that the builder takes up, where first targets have names and the limit is kept, and nothing but flows; the analysis ends |
| `search` | up to 3 entries of 8 kinds, all requests, 3 endpoints | the best answer, no needless read, `truncated` hides nothing |

Why the bounds are enough to be interesting: two requests suffice for every race
on a key or a stripe; in the pool a third is needed, the one that a permit must not
pass by. Two contents under one stamp are what verification is for, and a second
stamp is what a reload is for. Two files and a cap of one give a cut, an early stop
exactly at the cap and a cap that is not reached; files that are created meanwhile
("create" in `Changes`) make that run too long and are left to its theorems. Four blocks give loops, joins
and unreachable parts. Two files and one stripe make two rewrites meet at a lock,
and let one fail, or reach its cap, between two files; with three files and two stripes the
run takes three times as long and shows nothing else, and the theorems about rewrites
hold for any number. Three edits are an outer, a nested and a
touching one. Two cached values are needed for a value made under one name and
used under another. The trees hold every pairing of a binder with a
closure, a loop or a parameter before and after a use. These are bounds of the check
and not of the code: where a theorem exists (section 5) nothing depends on them.

### Disagreements found

Three runs are expected to be violated. Each checks one statement of the repository
against the model of the code, and `findings` in `PROJECT.json` quotes the line.

| Run | The code | The statement |
|---|---|---|
| `walk_guard_oldest` | a late clear overwrites the next walk's stamp, and a stuck walk is not seen | API.md:471 |
| `rewrite_bad_request` | an I/O error is a 400 after files were changed | API.md:268 |
| `taint_index` | two countings of definitions are used as one index, and a flow is lost | taint.rs:1 |

Further statements of the repository's documents stand in the modules as definitions
and in no run. TLC reports each of them when it is added to the cfg as an INVARIANT:

| Definition (module), cfg | The code | The statement |
|---|---|---|
| `InFlightWithinPool` (`WalkGuard`), `WalkGuard` | permit released before the count goes down, so `in_flight` exceeds the pool | API.md:470 |
| `NeverStale` (`ScopeCache`), `ScopeCache` | a shared load is used unverified | weighted_cache.rs |
| `NoGhostFiles` (`DataflowCache`), `DataflowCache` | findings of a file that was gone are cached | dataflow_cache.rs |
| `BeyondCapIsTold` (`DataflowCache`), `DataflowCache` | an error of the walk ends it with `truncated` false, and files beyond the cap are left out untold | walk.rs:56 |
| `TruncationReported` (`DataflowCache`), `DataflowCache` | a cached result at exactly the cap hides later files | API.md:337 |
| `TotalWithinMaxResults` (`Rewrite`), `RewriteRequests` | `max_results` is tested between files | API.md:212 |
| `ChainsAreExact` (`DefUse`), `DefUse` | GEN keeps definitions overwritten in their own block | reaching_defs.rs:3 |
| `UninitializedAreUndefined` (`DefUse`), `DefUse` | a use is tested against IN of its block only | cfg_analysis.rs:55 |
| `BranchesInTwo` (`CfgBuilder`), `DefUse` | a branch has one successor | il.rs:100 |
| `NoDuplicateFindings` (`ScopeReport`), `ScopeWalk` | a nested declaration is bound and reported twice | analysis.rs:67 |
| `NoReadStoreReported` (`ScopeReport`), `ScopeWalk` | a store in a loop makes a binding the loop takes with it | analysis.rs:3 |
| `ShadowingIsResolved` (`IlBuilder`), `Taint` | the name table knows no blocks | il.rs:12 |
| `SanitizerBlocks` (`Taint`), `Taint` | sanitizers are looked for in an instruction nobody builds | taint_tests.rs:213 |
| `TruncatedAsDocumented` (`Search`), `Search` | structural says truncated when nothing was cut | types.rs:217 |
| `MaxResultsIsCap` (`Search`), `Search` | the cap is tested after a push | API.md:40, 114 |
| `MaxTokensKeepsMatches` (`Search`), `Search` | `max_tokens` drops the match | API.md:44 |

What the tables and loops of the code show on reading, and the models take as it is:

| Code | What it does |
|---|---|
| `structural.rs`, `scoped.rs` | `jsx` is a language of scoped search and data flow, and unknown to structural search and rewrite; `svelte` likewise (`LangWrapper`) |
| `structural.rs` | structural search for `typescript` parses `.tsx` files with the grammar without JSX; only scoped search chooses by extension (`EffectiveLanguageId`) |
| `grep_filter.rs` | `/search` with a name it does not list (`golang`, `csharp`, ...) has no filter and searches every file; API.md:37 promises a filter, API.md:78 a 400 for an unknown language (`LangExtensions`) |
| `scoped.rs` | scope names are `functions` or `function_bodies` and so on; the `function`, `class` and `block` of API.md:110 are rejected (`ParseScopeKind`) |
| `scoped.rs` | every line ending counts for one byte, so in a CRLF file the byte a match is expanded from drifts towards the start of the scope; `ExpandsWhereItMatched` leaves such scopes out (`PlainEndings`) |
| `grep.rs` | a match is expanded from the start of its line: on an indented first line of a method that is still outside the method, and the block is the class or nothing |
| `expand.rs` | `module` is the kind of a Python file's root, so block expansion without a function or class around gives the whole file |
| `walk.rs:70` | an error of the walk ends the iteration without a mark in the response (`BeyondCapIsTold` above; `Search` has the error as an entry, and what it says is of the entries before it) |
| `il_build_expr.rs:175` | the initializer of Go's `if x := f(); x > 0` has no instruction, that of an `else if` has one; `StatementsSurvive` names it among the ways a statement is lost |
| `il_build_lval.rs:48`, `:142` | an index, a composite literal or a JavaScript member becomes Fixme with all variables in it, and of a list of targets or values the first is taken; flows through the rest are in no instruction, and `NoFlowMissed` leaves them out |
| `taint.rs:226` | a sink called in an assigned or returned value is not reported; `NoFlowMissed` speaks of call statements |
| `def_use.rs:71` | of `var x = 1, x = 2` both definitions reach what follows in the block, for they share name, block and span; `OnlyOverwrittenAreExtra` names this kind |
| `server/src/rewrite.rs:17` | the advice to read the file again before a retry after a 504 does not help while the first batch is still writing: `OnlyDeadlinesDouble` allows both to be in a file in exactly this case, and TLC reaches it |

## 4. Fairness

* `WalkGuard`: weak fairness of each handler's and each closure's own steps: tokio
  polls a ready task, and a timer that has elapsed is ready. The return of a walk
  is *not* fair, since a walk may hang: `EveryRequestEnds` holds all the same, and
  `PoolDrains` is conditional on `NoHang`, that every running walk returns.
* `RewriteRequests`: weak fairness of the steps of a batch that runs, for threads of
  the pool go on; clients, permits and timers are not fair, so liveness is claimed of
  batches that have started (`StartedBatchesEnd`, `LocksAreGiven`) and of no answer.
* `ScopeCache`, `Rewrite`: weak fairness of each search's and each batch's own
  steps: they run on a thread of their own and block only on a load or a lock,
  which the other side releases by fair steps. Edits, evictions and invalidations
  from outside are never fair.
* `Solver` (in `algorithms`), `Taint`: weak fairness of a loop: the program is not interrupted.
* `DataflowCache`, `DefUse`, `ScopeWalker`, `IlBuilder`, `Search`, `Languages`, `Edits`,
  `Globs`, `Expansion`: none is assumed,
  and no liveness is claimed.

## 5. Proofs

Checked by tlapm for every value of the constants; the assumptions are the ASSUMEs
of the modules, which TLC evaluates in the runs.

* **WalkGuardProofs.** Assumes a finite set of requests and at least one permit.
  `Inv` strengthens the run's invariants by what ties the queue, the two program
  counters and the counters together: the queue lists exactly the handlers that
  wait, without repetition (`QueueIsWaiting`); the phases of handler and closure fit
  (`Phases`); `in_flight` is the number of slots held (`SlotsAreCounted`); the stamp
  has an owner or a pending clear (`StampHasOwner`). `PermitConservation` alone is
  not inductive: releasing a permit hands it to the head of the queue, which must
  be known to wait. From `Inv` follow `PermitsAreConserved`, `NoPermitIdles`,
  `RunningWalksAreCounted`, `MetricsComeToRest`, and, step by step,
  `GuardImplementsPool`: every behaviour of the guard is one of `WalkPool` under the
  mapping that forgets the queue and the metrics.
* **ScopeCacheProofs.** `StaleOnlyThroughSharedLoads`: whatever a search uses was
  in the file since its stat unless the file could not be read or the value came
  from a load that began before. The invariant says that a busy search has always
  seen what is on disk (`SeesTheDisk`), and that what a loader is about to insert
  under a key (`LoadsAreKnown`), or what is cached under the key of a search that is
  about to load (`EntriesAreKnown`), is content that the search has seen, unless it
  shares an earlier load.
* **SolverProofs.** For every finite graph and all placements of definitions, in
  any order of blocks and successors: the stack and its bit set agree
  (`StackAndBitsAgree`); on an empty worklist the equations hold on every reachable
  block (`StopsAtFixpoint`); OUT sets never exceed a solution
  (`StaysBelowEverySolution`) and only grow (`OutSetsOnlyGrow`). The invariant's
  core is that a block which is not in the worklist has OUT equal to its transfer
  and its IN holds what its predecessors had when they last changed.
  `SolvesMeetOverPaths` says that it stops in the meet over all paths. One half is an
  invariant of its own, `OutOnPaths`: whatever is in an OUT set got there along a path
  of distinct blocks, none of which replaces it; a block that is added and lies on the
  path cuts it there. The other half needs the fixpoint only: on a path along which a
  definition survives, there is no first block whose OUT lacks it.
* **DataflowCacheProofs.** For any requests, files, edits, caps and stamps.
  `ResponsesAreFresh`: what a response says of a file was true of the file while the
  request was served. `Fresh` is far from inductive, as a request may be given what
  another one found, after its own fingerprint, in a file edited meanwhile. `Known(f)`
  holds the stamps and values of file `f` that may be paired without harm: everyone
  who has the stamp in its fingerprint has had the value before its eyes, and if the
  file still has the stamp, it holds the value. The invariant is that whatever is
  being found (`FoundIsKnown`) or is cached (`EntriesAreKnown`) is so paired. It needs
  fresh stamps for edits, the same that the run assumes. `OwnCutsAreReported`: a
  request that did the analysis says so when there were more files all the time than its
  cap, although the walk may have stopped early at the cap or met files that came and
  went; its invariant counts (`WalkCounts`) the files that were there all the time and
  that the walk has passed. Walks may end on an error at any file; of a request whose
  analysis walk did, nothing is claimed; `BeyondCapIsTold` would claim it, and does not hold.
* **DefUseProofs.** For every function body of any length. `BuildInv` says that the
  blocks, one behind the other, list the positions of the body read so far
  (`Lists`) and that the graph is the chain of them (`Graph`); `NothingLostAtCuts` and
  `EveryBlockVisited` are read off it. `solve_forward` is not proved about again: the
  instance `Proven` of `SolverProofs` gives its invariant from the moment the problem
  is set up, hence the dataflow equations when it stops and that it is below every
  other solution. `SetsAlongTheChain` and `WhatComesIn` then say what IN holds at each
  block, by the first block of the chain where it would not. From that follow
  `EveryUseChained`, `ExtraChainsAreOverwritten` and `UninitializedIsDefined`: nothing is
  missed, and what is too much is of the kinds that the properties name: a definition
  overwritten in its block that GEN keeps, or one that shares its declaration, hence its
  span, with the definition that does reach the use. How definitions are put together
  into declarations is any grouping of neighbours.
* **TaintProofs.** For every body, any finite set of variables, any list of rules and any
  `MaxDefinitions`. `BuildInv`: an instruction says what its statement says (`Says`), and a
  statement before the one to visit that is not passed over has its instructions
  (`Covered`). Passed over are unsupported constructs and initializers (`Kept`); hence
  `EveryStatementBuilt`. `RunInv` adds what the queue does (`Spreading`): the seeds are
  tainted, queued names are tainted, and a tainted name is queued or has its targets
  tainted. `Dirty`, the flows in the source through a set of statements, is the least set
  closed under their assignments. When the queue is empty the tainted names are a set
  closed under the kept ones, which gives `EveryFlowFound`; every set closed under all
  assignments keeps what is tainted, which gives `ReportedFlowsAreReal`. The two have the
  conditions of their properties: first targets with names, for without them flows are
  lost (`taint_index`), and for `EveryFlowFound` no more definitions than the limit, for
  above it the analysis ends at once (`Chained` in `RunInv`). What else of a function the
  builder loses takes nothing from the flows that it keeps.
* **AlgorithmProofs**, edits. For a text of any length, any set of edits and all
  replacement lengths: of two edits that overlap one is applied, and of two that start
  together the wider (`OverlapsResolved`); whatever is applied replaces the cells that
  were there before any edit (`EditsApplyWhereFound`). The invariant says that no unseen
  edit comes before one that was looked at (`InOrder`), that `lastEnd` is the greatest
  end accepted (`LastEndIsLast`), and that the text up to the end of each edit not yet
  applied is as it was read (`TextInv`): applying from the back needs no more.
* **AlgorithmProofs**, languages. `CacheServesOwnGrammar`: an entry is what a search of
  every name of its language makes of the file (`EntriesAreWanted`), because the grammar
  is chosen by the language and the extension. A choice by the name would break this
  lemma, `WantedByLanguage`, as it did the mutant of the run.
* **AlgorithmProofs**, globs. `CutOutsideGroups` holds for every string: `depth` is the
  largest surplus of opened over closed groups since any character (`DepthIsNet`), so
  it is zero just outside of all groups, unmatched braces included; and the pieces so
  far end at the separators passed (`CutSoFar`).
* **AlgorithmProofs**, searches. For any directories and limits. The matches looked at
  are those of the files opened, of the last one up to `match` (`Looked`). `SearchInv`
  says that what is picked is, in order and without repetition, what was looked at and
  fits (`PickedInOrder`), that it is not enough while the search goes on, that files are
  opened in the order of the answer (`OpenIsLast`) and read at most once
  (`ReadAreOpened`), and that grep has counted what it found (`Walked`). Then whatever is
  not looked at comes after the last pick: `AnswersAreBest`. If grep picks as many
  matches as it counted it has them all, because none is picked twice, and the other two
  call an answer complete only when the walk ended: `NothingLostUnsaid`. Before the last
  file is read the answer is short of its limit: `ReadsAreNeeded`.
* **AlgorithmProofs**, scope walker. For every tree whose subtrees nest and whose
  declarations hold the identifier they bind, plain or Svelte. A use is attached when its
  identifier is met or at the end of the file, while bindings keep coming and scopes keep
  closing; so none of the properties is inductive. `WalkInv` adds where the walk stands:
  the open scopes lie one in the other around the next node (`Nested`), the closed ones
  ended before it (`Left`). Its parts are stated of any sequence of scopes, and one lemma
  each says what a kind of change keeps: adding bindings, whose sites are at the next node
  or after it (`GrownFits`), recording a use (`UsedFits`), closing a scope (`ClosedMoves`),
  putting an identifier off and taking it up again (`DeferFits`, `TakeFits`). A binding
  that comes later is never before an identifier already settled; what is pending had no
  binding before it in any scope around it (`PendingUnbound`), so the binding of the
  file's scope that it gets at the end is the nearest. From `WalkInv` follow `OneUse`,
  `UsesInScope`, `UsesFindNearest`, `LateDeclarations` and, since the name of a binding is
  that of the identifier at its site (`SitesNamed`), `DeadStoresSubsume` of the report.
  `NearestBinding` once compared the spans of scopes: a failed proof showed that this is
  wrong for a function that is the whole file, whose span is that of the file. It now
  compares the nodes that open the scopes, and the run has such trees.
* **RewriteProofs.** For any batches, files, stripes and caps, and any pool.
  `LockInv` says that a stripe has one holder, that a batch holds a stripe only
  inside its turn, the one of its file, and one at a time; from it follows
  `SnapshotsAreCurrent`, that the text a batch edits is the text on disk. `SerialInv` adds that a batch
  has written just the files it lists and the one it is about to list, and gives
  `BatchesAreSerial`: every behaviour of the endpoint is one of `SerialRewrites`. `RequestInv`
  adds that a batch that has not been started has written nothing and that a retry
  follows a 503 or a 504, and gives `RetriesAreSafe` and the action property
  `AnswersAreFinal`. `CapsAreReported` rests on `CapInv`: the walk never passes
  `max_files`, and what the probe found stays true until the answer.

Proved and in no run: `TypeCorrect` of five modules, `SearchTypes` and `WalkTypes`, `NoPermitIdles` of the pool,
`StackAndBitsAgree`, `StopsAtFixpoint`, `StaysBelowEverySolution` and `OutSetsOnlyGrow` of
the solver, `AnswersAreFinal` of `/rewrite`, `EditsApplyWhereFound`, `EveryBlockVisited` of the graph. `CutOutsideGroups` is
the first half of `CutAtSeparators`.

Only model-checked, because the prover cannot:

* all liveness (`PoolDrains`, `EveryRequestEnds`, `EverySearchEnds`, `StartedBatchesEnd`,
  `LocksAreGiven`, `Terminates`, `AnalysisEnds`): liveness under fairness is out of its reach;
* what folds over data compute: the text after all edits as a whole (`EditsInPlace`,
  of which `OverlapsResolved` and `EditsApplyWhereFound` are the proved parts), what is
  left of the pieces of a glob (`CutAtSeparators`: trimming, empty ones dropped), the bytes
  of a scope (`ExpandsWhereItMatched`);
* the tables (`TablesAgree`), which are constants that TLC goes through completely.

Every other invariant and action property of a passing run is a theorem.

## 6. Plan

Written so far, in this order: pool, caches, rewrite, solver and graph, walker,
builder and taint, searches; then the rewrite endpoint with the pool, the small
algorithms and tables, taint over lists of rules, the proofs about edits and
rewrites; then those about the dataflow cache, the graph and its chains, the builder
and taint, those about languages, globs and searches, and last the scope walker. The most
important behaviour, what concurrent requests may do to each other and to files, came
first.

Left for modelling:

1. `ScopeWalker`: the choice of grammar by error count, several variables in one
   declaration.
2. `IlBuilder`: parameters, which take ids before the body.
3. The queries of the data-flow analyses, as tables like those of `Languages`.

The set of runs is kept small: a new question of an existing module extends that
module's run, or takes the place of a property that has been proved since.

Left for proofs: `WeightedCache` by itself, exclusive loads for any number of clients.

## 7. Running

`tlc -config X.cfg M` for a run (`module` and `cfg` in `PROJECT.json`), `tlapm M.tla`
for the proofs of `M`. The longest runs take about two minutes.
