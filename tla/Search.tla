-------------------------------- MODULE Search --------------------------------
(***************************************************************************)
(* crates/core/src/grep.rs, structural.rs and crates/server/src/taint.rs: the *)
(* searches over a walk of a directory. grep reads every file first, ranks   *)
(* the files by their number of matches and then picks; structural picks     *)
(* while it walks. Both stop when max_results matches are picked, and leave  *)
(* out a match whose enclosing block is too large for max_tokens. The taint  *)
(* analysis walks until it has five times max_results findings, which are    *)
(* matches here, and then keeps the first max_results.                      *)
(*                                                                         *)
(* A directory is the sequence of what its walk yields: files that pass its  *)
(* filters, each with its matches, and errors. A match is the length of the  *)
(* block around it, or NoBlock. A plain file is one that grep cannot expand  *)
(* (no grammar is known, or it is gone by then) and one of another language  *)
(* than structural was asked for, which it skips after the walk counted it;  *)
(* the walk for the taint analysis yields none.                             *)
(***************************************************************************)
EXTENDS Naturals, Sequences, SequencesExt, FiniteSets, FiniteSetsExt

CONSTANTS
  Directory,   \* the directories to search
  MaxResults,  \* values of max_results
  MaxTokens,   \* values of max_tokens; NoLimit is none
  MaxFiles,    \* values of max_files
  MaxYield,    \* bound: entries of a directory
  NoBlock, NoLimit

BlockLength == Nat \cup {NoBlock}
Entry == [error : BOOLEAN, plain : BOOLEAN, matches : Seq(BlockLength)]

ASSUME DirectoryAssumption ==
  \A d \in Directory : d \in Seq(Entry) /\ Len(d) <= MaxYield
ASSUME LimitAssumption ==
  /\ MaxResults \subseteq Nat
  /\ MaxFiles \subseteq Nat
  /\ MaxYield \in Nat
  /\ MaxTokens \subseteq Nat \cup {NoLimit}
ASSUME NoneAssumption == NoBlock \notin Nat /\ NoLimit \notin Nat

VARIABLES
  endpoint,    \* "grep", "structural" or "taint"
  request,     \* expand, max_tokens, max_results, max_files
  dir,         \* the directory
  pos,         \* the next entry the walk pulls
  perFile,     \* grep: files with matches, by entry; then in ranked order
  next,        \* grep: the next file of perFile to pick from
  open,        \* the file whose matches are looked at, or 0
  match,       \* the next of them
  picked,      \* the matches picked, each <<entry, index>>
  total,       \* grep, taint: the matches counted
  read,        \* files opened to look at blocks, or to analyse them
  phase        \* "walk", "pick" or "done"

vars == <<endpoint, request, dir, pos, perFile, next, open, match, picked, total, read, phase>>

Request == [expand : BOOLEAN, max_tokens : MaxTokens, max_results : MaxResults,
            max_files : MaxFiles]

TypeOK ==
  /\ endpoint \in {"grep", "structural", "taint"}
  /\ request \in Request
  /\ dir \in Seq(Entry)
  /\ pos \in 1..Len(dir)+1 /\ pos <= request.max_files + 1
  /\ perFile \in Seq(DOMAIN dir)
  /\ next \in 1..Len(perFile)+1
  /\ open \in 0..Len(dir)
  /\ match \in Nat \ {0}
  /\ picked \in Seq((DOMAIN dir) \X Nat)
  /\ total \in Nat
  /\ read \in Seq(DOMAIN dir)
  /\ phase \in {"walk", "pick", "done"}
-----------------------------------------------------------------------------
(* The block is too large: grep compares bytes, structural a quarter of them.*)
TooLarge(length) ==
  /\ endpoint # "taint"
  /\ request.expand
  /\ length # NoBlock
  /\ request.max_tokens # NoLimit
  /\ IF endpoint = "grep" THEN length > request.max_tokens
                          ELSE length \div 4 > request.max_tokens

Fits(e, i) == IF dir[e].plain THEN endpoint = "grep" ELSE ~TooLarge(dir[e].matches[i])

Init ==
  /\ endpoint \in {"grep", "structural", "taint"}
  /\ request \in Request
  /\ dir \in Directory
  /\ endpoint = "taint" => /\ ~request.expand
                           /\ \A e \in DOMAIN dir : ~dir[e].plain
  /\ pos = 1
  /\ perFile = <<>>
  /\ next = 1
  /\ open = 0
  /\ match = 1
  /\ picked = <<>>
  /\ total = 0
  /\ read = <<>>
  /\ phase = "walk"

(* FilteredWalk::next has a file to yield: no error, and max_files files      *)
(* were not yielded before. Every entry before pos was a file.               *)
WalkYields == /\ pos <= Len(dir)
              /\ ~dir[pos].error
              /\ pos - 1 < request.max_files

(* grep: the file is searched line by line.                                  *)
GrepFile ==
  /\ endpoint = "grep"
  /\ phase = "walk"
  /\ WalkYields
  /\ perFile' = IF dir[pos].matches = <<>> THEN perFile ELSE Append(perFile, pos)
  /\ total' = total + Len(dir[pos].matches)
  /\ pos' = pos + 1
  /\ UNCHANGED <<endpoint, request, dir, next, open, match, picked, read, phase>>

(* Mutant: the files stay in the order of the walk.                          *)
EarlierInWalk(a, b) == a < b

(* Most matches first; files with as many keep the order of the walk.        *)
Denser(a, b) ==
  \/ Len(dir[a].matches) > Len(dir[b].matches)
  \/ Len(dir[a].matches) = Len(dir[b].matches) /\ a < b

(* grep: the walk has ended, at its end, at the cap or at an error alike,    *)
(* and the files are sorted.                                                *)
GrepRank ==
  /\ endpoint = "grep"
  /\ phase = "walk"
  /\ ~WalkYields
  /\ \E ranked \in SetToSeqs(ToSet(perFile)) :
       /\ \A j, k \in DOMAIN ranked : j < k => Denser(ranked[j], ranked[k])
       /\ perFile' = ranked
  /\ phase' = "pick"
  /\ UNCHANGED <<endpoint, request, dir, pos, next, open, match, picked, total, read>>

(* grep: the next ranked file, which is read again if blocks are asked for.  *)
GrepOpen ==
  /\ endpoint = "grep"
  /\ phase = "pick"
  /\ open = 0
  /\ next <= Len(perFile)
  /\ open' = perFile[next]
  /\ match' = 1
  /\ next' = next + 1
  /\ read' = IF request.expand THEN Append(read, perFile[next]) ELSE read
  /\ UNCHANGED <<endpoint, request, dir, pos, perFile, picked, total, phase>>

(* structural: the file is parsed at once, unless it is in another language. *)
StructuralOpen ==
  /\ endpoint = "structural"
  /\ phase = "walk"
  /\ open = 0
  /\ WalkYields
  /\ IF dir[pos].plain
     THEN UNCHANGED <<open, match, read>>
     ELSE open' = pos /\ match' = 1 /\ read' = Append(read, pos)
  /\ pos' = pos + 1
  /\ UNCHANGED <<endpoint, request, dir, perFile, next, picked, total, phase>>

(* Mutant: enough ends the loop over the matches, and not that over the files.*)
LookAtMatchOfFile ==
  /\ phase # "done"
  /\ open # 0
  /\ match <= Len(dir[open].matches)
  /\ picked' = IF Fits(open, match) THEN Append(picked, <<open, match>>) ELSE picked
  /\ open' = IF Fits(open, match) /\ Len(picked') >= request.max_results THEN 0 ELSE open
  /\ match' = match + 1
  /\ UNCHANGED <<endpoint, request, dir, pos, perFile, next, total, read, phase>>

(* grep, structural: a match of the open file is pushed if it fits; after a   *)
(* push the number picked is looked at, and enough ends the search.          *)
LookAtMatch ==
  /\ phase # "done"
  /\ open # 0
  /\ match <= Len(dir[open].matches)
  /\ IF Fits(open, match)
     THEN /\ picked' = Append(picked, <<open, match>>)
          /\ phase' = IF Len(picked') >= request.max_results THEN "done" ELSE phase
     ELSE UNCHANGED <<picked, phase>>
  /\ match' = match + 1
  /\ UNCHANGED <<endpoint, request, dir, pos, perFile, next, open, total, read>>

EndOfMatches ==
  /\ phase # "done"
  /\ open # 0
  /\ match > Len(dir[open].matches)
  /\ open' = 0
  /\ UNCHANGED <<endpoint, request, dir, pos, perFile, next, match, picked, total, read, phase>>

GrepDone ==
  /\ endpoint = "grep"
  /\ phase = "pick"
  /\ open = 0
  /\ next > Len(perFile)
  /\ phase' = "done"
  /\ UNCHANGED <<endpoint, request, dir, pos, perFile, next, open, match, picked, total, read>>

StructuralDone ==
  /\ endpoint = "structural"
  /\ phase = "walk"
  /\ open = 0
  /\ ~WalkYields
  /\ phase' = "done"
  /\ UNCHANGED <<endpoint, request, dir, pos, perFile, next, open, match, picked, total, read>>

(* taint: the file is analysed, and all its findings kept.                   *)
TaintFile ==
  /\ endpoint = "taint"
  /\ phase = "walk"
  /\ WalkYields
  /\ picked' = picked \o [i \in DOMAIN dir[pos].matches |-> <<pos, i>>]
  /\ phase' = IF Len(picked') >= 5 * request.max_results THEN "pick" ELSE "walk"
  /\ read' = Append(read, pos)
  /\ pos' = pos + 1
  /\ UNCHANGED <<endpoint, request, dir, perFile, next, open, match, total>>

(* taint: the findings are counted and cut to max_results.                   *)
TaintDone ==
  /\ endpoint = "taint"
  /\ phase = "pick" \/ (phase = "walk" /\ ~WalkYields)
  /\ total' = Len(picked)
  /\ picked' = SubSeq(picked, 1, Min({Len(picked), request.max_results}))
  /\ phase' = "done"
  /\ UNCHANGED <<endpoint, request, dir, pos, perFile, next, open, match, read>>

Next == \/ GrepFile \/ GrepRank \/ GrepOpen \/ GrepDone
        \/ StructuralOpen \/ StructuralDone
        \/ LookAtMatch \/ EndOfMatches
        \/ TaintFile \/ TaintDone

Spec == Init /\ [][Next]_vars

(* Mutant: only what max_results cut off is said to be missing.              *)
TruncatedByResults == Len(picked) >= request.max_results

(* total_matches, for taint total_findings.                                  *)
TotalMatches == IF endpoint = "structural" THEN Len(picked) ELSE total

(* The truncated field of the response.                                     *)
Truncated == CASE endpoint = "grep"       -> TotalMatches > Len(picked)
               [] endpoint = "structural" -> TotalMatches >= request.max_results
               [] endpoint = "taint"      -> TotalMatches > request.max_results
-----------------------------------------------------------------------------
(* What the walk can reach: the entries before the first error, max_files at *)
(* most.                                                                   *)
Reached == {e \in DOMAIN dir : /\ \A d \in 1..e : ~dir[d].error
                               /\ e <= request.max_files}

Found == UNION {{e} \X (DOMAIN dir[e].matches) :
                e \in {r \in Reached : endpoint = "structural" => ~dir[r].plain}}

(* The order of the answer: by density, path and place for grep, by path and *)
(* place for the others.                                                    *)
Before(m, n) ==
  LET density(e) == IF endpoint = "grep" THEN Len(dir[e].matches) ELSE 0
  IN \/ density(m[1]) > density(n[1])
     \/ density(m[1]) = density(n[1]) /\ m[1] < n[1]
     \/ m[1] = n[1] /\ m[2] < n[2]

Fitting == {m \in Found : Fits(m[1], m[2])}

(* The answer is the first max_results of all fitting matches in that order: *)
(* a match too large is made up for by a later one (grep.rs:90-94).          *)
AnswerIsBest ==
  phase = "done" /\ request.max_results > 0 =>
    /\ Range(picked) \subseteq Fitting
    /\ \A j, k \in DOMAIN picked : j < k => Before(picked[j], picked[k])
    /\ Len(picked) <= request.max_results
    /\ \A m \in Fitting \ Range(picked) :
         Len(picked) = request.max_results /\ Before(Last(picked), m)

(* #46: a file is opened for its blocks at most once, and none after the     *)
(* answer is complete: the files before the last one opened left it short of *)
(* max_results, or of five times that for taint.                            *)
NoNeedlessRead ==
  LET enough == IF endpoint = "taint" THEN 5 * request.max_results ELSE request.max_results
      earlier == {k \in DOMAIN picked : read # <<>> /\ picked[k][1] # Last(read)}
  IN IsInjective(read) /\ Cardinality(earlier) < Max({1, enough})

(* truncated never hides a loss: when it is false, every match of the files  *)
(* that the walk reached was returned; for structural, every one that fits.  *)
(* A max_results of zero is left out: see MaxResultsIsCap.                   *)
FalseMeansComplete ==
  phase = "done" /\ ~Truncated /\ request.max_results > 0 =>
    Range(picked) = IF endpoint = "structural" THEN Fitting ELSE Found

(* types.rs:217 of the response the two searches share: "`truncated` is      *)
(* `total_matches > returned matches count`".                               *)
TruncatedAsDocumented ==
  phase = "done" => (Truncated <=> TotalMatches > Len(picked))

(* API.md:40 and 114: max_results is the "Cap on returned matches".           *)
MaxResultsIsCap == phase = "done" => Len(picked) <= request.max_results

(* API.md:44: max_tokens is there to "Truncate `expanded.body`". It does not *)
(* cost a match: with room for all of them, every match is returned.         *)
MaxTokensKeepsMatches ==
  phase = "done" /\ Cardinality(Found) < request.max_results => Range(picked) = Found
=============================================================================
