--------------------------- MODULE AlgorithmProofs ---------------------------
(***************************************************************************)
(* Proofs about the algorithms that run alone: the resolution and the        *)
(* application of edits (Edits), for files of any length and any number of   *)
(* edits; the cache of languages (Languages), for every order of searches;   *)
(* the split of globs (Globs), for every string; the searches (Search), for  *)
(* every directory and every limit; and the scope walker with its report     *)
(* (ScopeWalker, ScopeReport), for every tree.                               *)
(***************************************************************************)
EXTENDS Edits, Languages, Globs, Search, ScopeReport, FiniteSetTheorems, SequenceTheorems,
        WellFoundedInduction, TLAPS

-----------------------------------------------------------------------------
(* The edits are looked at in their order, and lastEnd is the end of the     *)
(* last of the accepted ones, which lie one after the other.                *)
InOrder ==
  \A e \in accepted \cup skipped, f \in unseen : ~ComesBefore(f, e)
LastEndIsLast ==
  /\ \A e \in accepted : End(e) <= lastEnd
  /\ accepted # {} => \E e \in accepted : End(e) = lastEnd
EditsTypes ==
  /\ unseen \subseteq Edit /\ accepted \subseteq Edit /\ skipped \subseteq Edit
  /\ lastEnd \in 0..Length
EditsInv == EditsTypes /\ InOrder /\ LastEndIsLast /\ OuterEditWins

(* The order of the sort is total up to edits of the same range.             *)
LEMMA EditIsRecord ==
  ASSUME NEW e \in Edit
  PROVE  e.pos \in Nat /\ e.del \in Nat /\ e.del > 0 /\ e.pos + e.del <= Length
BY EditsAssumption, SMT DEF Edit

LEMMA OrderKept ==
  ASSUME NEW e \in Edit, NEW f \in Edit, NEW g \in Edit,
         ~ComesBefore(f, e), ~ComesBefore(g, f)
  PROVE  ~ComesBefore(g, e)
BY EditIsRecord, SMT DEF ComesBefore

(* Before the first edit is looked at.                                      *)
LEMMA EditsInitOK == EditsInit => EditsInv
<1> SUFFICES ASSUME EditsInit PROVE EditsInv
  OBVIOUS
<1>1. EditsTypes
  BY EditsAssumption DEF EditsInit, EditsTypes
<1>2. InOrder /\ LastEndIsLast /\ OuterEditWins
  BY DEF EditsInit, InOrder, LastEndIsLast, OuterEditWins
<1> QED BY <1>1, <1>2 DEF EditsInv

(* An edit that is accepted starts where the accepted ones have ended.       *)
LEMMA AcceptOK ==
  ASSUME EditsInv, NEW e \in Edit, Accept(e)
  PROVE  EditsInv'
<1>1. e \in unseen /\ (\A f \in unseen : ~ComesBefore(f, e)) /\ ~Overlaps(e)
  BY DEF Accept, IsNext
<1>2. unseen' = unseen \ {e} /\ accepted' = accepted \cup {e} /\ skipped' = skipped
      /\ lastEnd' = End(e)
  BY DEF Accept
<1>3. e.pos \in Nat /\ e.del \in Nat /\ e.del > 0 /\ End(e) \in 0..Length /\ e.pos < End(e)
  BY EditIsRecord, EditsAssumption, SMT DEF End
<1>4. \A f \in accepted : End(f) \in Nat /\ End(f) <= e.pos
  <2> SUFFICES ASSUME NEW f \in accepted PROVE End(f) \in Nat /\ End(f) <= e.pos
    OBVIOUS
  <2>1. f \in Edit /\ lastEnd \in Nat /\ End(f) <= lastEnd
    BY EditsAssumption DEF EditsInv, EditsTypes, LastEndIsLast
  <2>2. ~(e.pos < lastEnd)
    BY <1>1 DEF Overlaps
  <2>3. End(f) \in Nat
    BY <2>1, EditIsRecord, SMT DEF End
  <2> QED BY <1>3, <2>1, <2>2, <2>3, SMT
<1>5. EditsTypes'
  BY <1>2, <1>3 DEF EditsInv, EditsTypes
<1>6. InOrder'
  BY <1>1, <1>2 DEF EditsInv, InOrder
<1>7. LastEndIsLast'
  <2>1. \A f \in accepted' : End(f) <= End(e)
    BY <1>2, <1>3, <1>4, SMT
  <2> QED BY <1>2, <2>1 DEF LastEndIsLast, End
<1>8. OuterEditWins'
  <2>1. \A f, g \in accepted' : f = g \/ End(f) <= g.pos \/ End(g) <= f.pos
    BY <1>2, <1>4 DEF EditsInv, OuterEditWins
  <2>2. \A s \in skipped' : \E f \in accepted' :
          f.pos <= s.pos /\ s.pos < End(f) /\ (f.pos = s.pos => s.del <= f.del)
    BY <1>2 DEF EditsInv, OuterEditWins
  <2> QED BY <2>1, <2>2 DEF OuterEditWins, End
<1> QED BY <1>5, <1>6, <1>7, <1>8 DEF EditsInv

(* An edit that is skipped starts in the last accepted one, which came       *)
(* before it in the order.                                                  *)
LEMMA SkipOK ==
  ASSUME EditsInv, NEW e \in Edit, Skip(e)
  PROVE  EditsInv'
<1>1. e \in unseen /\ (\A f \in unseen : ~ComesBefore(f, e)) /\ Overlaps(e)
  BY DEF Skip, IsNext
<1>2. unseen' = unseen \ {e} /\ accepted' = accepted /\ skipped' = skipped \cup {e}
      /\ lastEnd' = lastEnd
  BY DEF Skip
<1>3. PICK f \in accepted : End(f) = lastEnd
  BY <1>1 DEF EditsInv, LastEndIsLast, Overlaps
<1>4. f \in Edit /\ ~ComesBefore(e, f)
  BY <1>1 DEF EditsInv, EditsTypes, InOrder
<1>5. f.pos <= e.pos /\ e.pos < End(f) /\ (f.pos = e.pos => e.del <= f.del)
  <2>1. e.pos < End(f)
    BY <1>1, <1>3 DEF Overlaps
  <2> QED BY <1>4, <2>1, EditIsRecord, SMT DEF ComesBefore
<1>6. EditsTypes'
  BY <1>2 DEF EditsInv, EditsTypes
<1>7. InOrder'
  BY <1>1, <1>2 DEF EditsInv, InOrder
<1>8. LastEndIsLast'
  BY <1>2 DEF EditsInv, LastEndIsLast, End
<1>9. OuterEditWins'
  BY <1>2, <1>5 DEF EditsInv, OuterEditWins, End
<1> QED BY <1>6, <1>7, <1>8, <1>9 DEF EditsInv

LEMMA EditsStepOK == EditsInv /\ [EditsNext]_editVars => EditsInv'
<1> SUFFICES ASSUME EditsInv, [EditsNext]_editVars PROVE EditsInv'
  OBVIOUS
<1>1. ASSUME NEW e \in Edit, Accept(e) PROVE EditsInv'
  BY <1>1, AcceptOK
<1>2. ASSUME NEW e \in Edit, Skip(e) PROVE EditsInv'
  BY <1>2, SkipOK
<1>3. ASSUME UNCHANGED <<unseen, accepted, skipped, lastEnd>> PROVE EditsInv'
  BY <1>3 DEF EditsInv, EditsTypes, InOrder, LastEndIsLast, OuterEditWins, End
<1>4. ASSUME NEW e \in Edit, Apply(e) PROVE EditsInv'
  BY <1>3, <1>4 DEF Apply
<1> QED BY <1>1, <1>2, <1>3, <1>4 DEF EditsNext, editVars

(* Whatever a pattern finds, the edits that are applied do not overlap, and  *)
(* one is skipped only for an outer or earlier one.                         *)
THEOREM OverlapsResolved == EditsSpec => []OuterEditWins
<1>1. EditsInv => OuterEditWins
  BY DEF EditsInv
<1> QED BY <1>1, EditsInitOK, EditsStepOK, PTL DEF EditsSpec
-----------------------------------------------------------------------------
(* What an edit replaces is what it was found for: up to its end the text is *)
(* as it was read, whatever was applied behind it.                          *)
AsRead(n) == \A i \in 1..n : i \in DOMAIN text /\ text[i] = Old(i - 1)
EditsMeetTheirText == \A e \in unapplied : AsRead(End(e))

Cells == [new : BOOLEAN, pos : Nat]
TextInv ==
  /\ text \in Seq(Cells)
  /\ unapplied \subseteq accepted
  /\ unseen # {} => AsRead(Length)
  /\ EditsMeetTheirText

LEMMA AsReadKept ==
  ASSUME NEW m \in Nat, NEW n \in Nat, n <= m, text \in Seq(Cells), AsRead(m),
         NEW t \in Seq(Cells), text' = SubSeq(text, 1, m) \o t
  PROVE  AsRead(n)'
<1>1. m <= Len(text)
  <2>1. CASE m = 0
    BY <2>1, SMT
  <2>2. CASE m > 0
    BY <2>2, m \in 1..m, SMT DEF AsRead
  <2> QED BY <2>1, <2>2, SMT
<1>2. \A i \in 1..m : i \in DOMAIN text' /\ text'[i] = text[i]
  BY <1>1, SMT
<1> QED BY <1>2, SMT DEF AsRead

LEMMA TextInitOK == EditsInit => TextInv
<1> SUFFICES ASSUME EditsInit PROVE TextInv
  OBVIOUS
<1>1. text \in Seq(Cells)
  <2>1. \A i \in 1..Length : Old(i - 1) \in Cells
    BY EditsAssumption, SMT DEF Old, Cells
  <2> QED BY <2>1, EditsAssumption, SMT DEF EditsInit
<1>2. AsRead(Length)
  BY EditsAssumption DEF EditsInit, AsRead
<1> QED BY <1>1, <1>2 DEF TextInv, EditsMeetTheirText, EditsInit

LEMMA TextStepOK == EditsInv /\ TextInv /\ [EditsNext]_editVars => TextInv'
<1> SUFFICES ASSUME EditsInv, TextInv, [EditsNext]_editVars PROVE TextInv'
  OBVIOUS
<1>1. ASSUME NEW e \in Edit, Accept(e) PROVE TextInv'
  <2>1. End(e) \in 0..Length
    BY EditIsRecord, EditsAssumption, SMT DEF End
  <2>2. AsRead(Length) /\ e \in unseen
    BY <1>1 DEF TextInv, Accept, IsNext
  <2>3. AsRead(End(e))
    BY <2>1, <2>2, EditsAssumption, SMT DEF AsRead
  <2> QED BY <1>1, <2>2, <2>3 DEF Accept, TextInv, EditsMeetTheirText, AsRead, End
<1>2. ASSUME NEW e \in Edit, Skip(e) PROVE TextInv'
  BY <1>2 DEF Skip, IsNext, TextInv, EditsMeetTheirText, AsRead, End
<1>3. ASSUME NEW e \in Edit, Apply(e) PROVE TextInv'
  <2> DEFINE new == [i \in 1..e.ins |-> New(e.pos)]
             rest == SubSeq(text, End(e) + 1, Len(text))
  <2>1. e.pos \in Nat /\ e.ins \in Nat /\ End(e) \in Nat /\ e.pos <= End(e)
    <3>1. e.ins \in Inserts
      BY DEF Edit
    <3>2. e.ins \in Nat
      BY <3>1, EditsAssumption
    <3>3. e.pos \in Nat /\ e.del \in Nat
      BY EditIsRecord
    <3>4. End(e) = e.pos + e.del
      BY DEF End
    <3> HIDE DEF new, rest
    <3> QED BY <3>2, <3>3, <3>4, SMT
  <2>2. new \in Seq(Cells) /\ rest \in Seq(Cells) /\ SubSeq(text, 1, e.pos) \in Seq(Cells)
    <3>1. New(e.pos) \in Cells
      BY <2>1 DEF New, Cells
    <3>2. text \in Seq(Cells)
      BY DEF TextInv
    <3>3. AsRead(End(e))
      BY <1>3 DEF Apply, TextInv, EditsMeetTheirText
    <3>4. \A i \in 1..e.pos : text[i] \in Cells
      BY <2>1, <3>2, <3>3, LenProperties, SMT DEF AsRead
    <3>5. SubSeq(text, 1, e.pos) \in Seq(Cells)
      BY <2>1, <3>4, SubSeqProperties, SMT
    <3>6. \A i \in End(e) + 1..Len(text) : text[i] \in Cells
      BY <2>1, <3>2, SMT
    <3>7. rest \in Seq(Cells)
      BY <2>1, <3>2, <3>6, LenProperties, SubSeqProperties, SMT
    <3>8. new \in [1..e.ins -> Cells]
      BY <3>1
    <3> HIDE DEF new
    <3>9. new \in Seq(Cells)
      BY <2>1, <3>8, SMT
    <3> QED BY <3>5, <3>7, <3>9
  <2>3. text' = SubSeq(text, 1, e.pos) \o (new \o rest)
    <3>1. text' = SubSeq(text, 1, e.pos) \o new \o rest
      BY <1>3 DEF Apply
    <3> DEFINE before == SubSeq(text, 1, e.pos)
    <3>2. before \in Seq(Cells)
      BY <2>2
    <3> HIDE DEF before, new, rest
    <3>3. (before \o new) \o rest = before \o (new \o rest)
      BY <2>2, <3>2, ConcatAssociative
    <3> QED BY <3>1, <3>3 DEF before
  <2>4. AsRead(e.pos) /\ new \o rest \in Seq(Cells)
    <3>1. AsRead(End(e))
      BY <1>3 DEF Apply, TextInv, EditsMeetTheirText
    <3>2. AsRead(e.pos)
      BY <2>1, <3>1, SMT DEF AsRead
    <3> HIDE DEF new, rest
    <3> QED BY <2>2, <3>2, ConcatProperties
  <2>5. ASSUME NEW n \in Nat, n <= e.pos PROVE AsRead(n)'
    <3> HIDE DEF new, rest
    <3> QED BY <2>1, <2>3, <2>4, <2>5, AsReadKept DEF TextInv
  <2>6. \A f \in unapplied' : End(f) \in Nat /\ End(f) <= e.pos
    <3> SUFFICES ASSUME NEW f \in unapplied' PROVE End(f) \in Nat /\ End(f) <= e.pos
      OBVIOUS
    <3>1. f \in unapplied /\ f # e /\ f.pos <= e.pos /\ e \in accepted /\ f \in accepted
      BY <1>3 DEF Apply, IsLast, TextInv
    <3>2. f \in Edit
      BY <3>1 DEF EditsInv, EditsTypes
    <3>3. End(f) <= e.pos \/ End(e) <= f.pos
      BY <3>1 DEF EditsInv, OuterEditWins
    <3> QED BY <3>1, <3>2, <3>3, EditIsRecord, SMT DEF End
  <2>7. text' \in Seq(Cells)
    <3> HIDE DEF new, rest
    <3> QED BY <2>2, <2>3, <2>4, ConcatProperties
  <2>8. \A f \in unapplied' : AsRead(End(f))'
    BY <2>5, <2>6
  <2>9. unapplied' = unapplied \ {e} /\ accepted' = accepted /\ unseen' = {}
    BY <1>3 DEF Apply
  <2> QED BY <2>7, <2>8, <2>9 DEF TextInv, EditsMeetTheirText, End
<1>4. CASE UNCHANGED editVars
  BY <1>4 DEF editVars, TextInv, EditsMeetTheirText, AsRead, End
<1> QED BY <1>1, <1>2, <1>3, <1>4 DEF EditsNext

(* Every edit replaces the text it was found for.                           *)
THEOREM EditsApplyWhereFound == EditsSpec => []EditsMeetTheirText
<1>1. TextInv => EditsMeetTheirText
  BY DEF TextInv
<1> QED BY <1>1, EditsInitOK, EditsStepOK, TextInitOK, TextStepOK, PTL DEF EditsSpec
-----------------------------------------------------------------------------
(* Languages: whatever filled the cache, and in whatever order.              *)
LanguagesSpec == LanguagesInit /\ [][LanguagesNext]_langVars

(* A cached value is what a search of any name of the entry's language makes.*)
EntriesAreWanted ==
  \A key \in DOMAIN entries : \A name \in Name :
    LanguageId(name) = key[1] => entries[key] = Wanted(name, key[2])

(* The grammar is chosen by the language alone, whichever name it has.       *)
LEMMA WantedByLanguage ==
  ASSUME NEW m, NEW n, LanguageId(m) = LanguageId(n), NEW scope
  PROVE  Wanted(m, scope) = Wanted(n, scope)
BY DEF Wanted, EffectiveLanguageId

LEMMA ScopedSearchOK ==
  ASSUME EntriesAreWanted, NEW name \in Name, NEW scopeName, ScopedSearch(name, scopeName)
  PROVE  EntriesAreWanted' /\ CachedGrammarIsOwn'
<1> DEFINE scope == ParseScopeKind(scopeName)
           key == <<LanguageId(name), scope>>
           value == IF key \in DOMAIN entries THEN entries[key] ELSE Wanted(name, scope)
<1>1. /\ entries' = [k \in DOMAIN entries \cup {key} |-> IF k = key THEN value ELSE entries[k]]
      /\ served' = [name |-> name, scope |-> scope, value |-> value]
      /\ ext' = ext
  BY DEF ScopedSearch
<1>2. key[1] = LanguageId(name) /\ key[2] = scope
  OBVIOUS
<1> HIDE DEF scope, key
<1>3. value = Wanted(name, scope)
  BY <1>2 DEF EntriesAreWanted
<1> HIDE DEF value
<1>4. \A n, s : Wanted(n, s)' = Wanted(n, s)
  BY <1>1 DEF Wanted, EffectiveLanguageId
<1>5. EntriesAreWanted'
  <2>1. ASSUME NEW k \in DOMAIN entries', NEW n \in Name, LanguageId(n) = k[1]
        PROVE  entries'[k] = Wanted(n, k[2])
    <3>1. CASE k = key
      <4>1. entries'[k] = Wanted(name, scope)
        BY <1>1, <1>3, <3>1
      <4>2. Wanted(name, scope) = Wanted(n, scope)
        BY <1>2, <2>1, <3>1, WantedByLanguage
      <4> QED BY <1>2, <3>1, <4>1, <4>2
    <3>2. CASE k # key
      BY <1>1, <2>1, <3>2 DEF EntriesAreWanted
    <3> QED BY <3>1, <3>2
  <2> QED BY <1>4, <2>1 DEF EntriesAreWanted
<1>6. CachedGrammarIsOwn'
  BY <1>1, <1>3, <1>4 DEF CachedGrammarIsOwn
<1> QED BY <1>5, <1>6

(* What a scoped search takes from the cache is what it would have made,     *)
(* under whatever names of whatever languages the cache was filled.          *)
THEOREM CacheServesOwnGrammar == LanguagesSpec => []CachedGrammarIsOwn
<1> DEFINE Inv == EntriesAreWanted /\ CachedGrammarIsOwn
<1>1. LanguagesInit => Inv
  BY DEF LanguagesInit, EntriesAreWanted, CachedGrammarIsOwn
<1>2. Inv /\ [LanguagesNext]_langVars => Inv'
  <2> SUFFICES ASSUME Inv, [LanguagesNext]_langVars PROVE Inv'
    OBVIOUS
  <2>1. CASE LanguagesNext
    BY <2>1, ScopedSearchOK DEF LanguagesNext
  <2>2. CASE UNCHANGED langVars
    BY <2>2 DEF langVars, EntriesAreWanted, CachedGrammarIsOwn, Wanted, EffectiveLanguageId
  <2> QED BY <2>1, <2>2
<1>3. Inv => CachedGrammarIsOwn
  OBVIOUS
<1> QED BY <1>1, <1>2, <1>3, PTL DEF LanguagesSpec
-----------------------------------------------------------------------------
(* What appending does.                                                    *)
LEMMA AppendOne ==
  ASSUME NEW S, NEW s \in Seq(S), NEW x \in S
  PROVE  /\ Append(s, x) \in Seq(S) /\ Append(s, x) # <<>>
         /\ Len(Append(s, x)) = Len(s) + 1 /\ DOMAIN Append(s, x) = 1..Len(s)+1
         /\ \A k \in DOMAIN s : Append(s, x)[k] = s[k]
         /\ Append(s, x)[Len(s) + 1] = x /\ Last(Append(s, x)) = x
         /\ ToSet(Append(s, x)) = ToSet(s) \cup {x}
         /\ IsInjective(s) /\ x \notin ToSet(s) => IsInjective(Append(s, x))
<1> DEFINE t == Append(s, x)
<1>1. /\ t \in Seq(S) /\ Len(t) = Len(s) + 1 /\ Len(s) \in Nat /\ DOMAIN s = 1..Len(s)
      /\ \A k \in 1..Len(s) : t[k] = s[k]
      /\ t[Len(s) + 1] = x
  BY AppendProperties
<1> HIDE DEF t
<1>2. DOMAIN t = 1..Len(s)+1 /\ t # <<>>
  BY <1>1
<1>3. Last(t) = x
  BY <1>1 DEF Last
<1>4. ToSet(t) = ToSet(s) \cup {x}
  <2>1. ToSet(t) \subseteq ToSet(s) \cup {x}
    BY <1>1, <1>2 DEF ToSet
  <2>2. \A k \in DOMAIN s : k \in DOMAIN t /\ t[k] = s[k]
    BY <1>1, <1>2
  <2>3. Len(s) + 1 \in DOMAIN t
    BY <1>1, <1>2
  <2> QED BY <1>1, <2>1, <2>2, <2>3 DEF ToSet
<1>5. ASSUME IsInjective(s), x \notin ToSet(s), NEW i \in DOMAIN t, NEW j \in DOMAIN t, t[i] = t[j]
      PROVE  i = j
  <2>1. \A k \in DOMAIN s : s[k] # x
    BY <1>5 DEF ToSet
  <2> QED BY <1>1, <1>2, <1>5, <2>1 DEF IsInjective
<1>6. IsInjective(s) /\ x \notin ToSet(s) => IsInjective(t)
  BY <1>5 DEF IsInjective
<1> QED BY <1>1, <1>2, <1>3, <1>4, <1>6 DEF t

(* Globs: the depth of the scan is the largest number of groups opened and    *)
(* not closed since some character.                                         *)
GlobsSpec == GlobsInit /\ [][GlobsNext]_globVars

Net(j, i) == Count("open", j, i) - Count("close", j, i)
DepthIsNet ==
  index <= Len(patterns) + 1 => /\ \A j \in 1..index : Net(j, index - 1) <= depth
                             /\ \E j \in 1..index : Net(j, index - 1) = depth

(* The pieces end at the separators passed, and the next one starts at the    *)
(* last of them.                                                            *)
Passed == {i \in Separators : i < index}
Ends == {p[2] + 1 : p \in ToSet(pieces)}
Starts == {p[1] - 1 : p \in ToSet(pieces)}
CutSoFar ==
  index <= Len(patterns) + 1 => /\ Ends = Passed
                             /\ Starts \cup {start - 1} = Passed \cup {0}

GlobsTypes ==
  /\ patterns \in Seq(Char)
  /\ index \in Nat /\ index >= 1 /\ index <= Len(patterns) + 2
  /\ depth \in Nat
  /\ start \in Nat
  /\ pieces \in Seq(Nat \X Nat)
GlobsInv == GlobsTypes /\ DepthIsNet /\ CutSoFar
            /\ (index > Len(patterns) + 1 => CutsAreSeparators)

LEMMA CountNone ==
  ASSUME NEW ch, NEW j \in Nat, NEW i \in Nat, i < j
  PROVE  Count(ch, j, i) = 0
<1>1. j..i = {}
  OBVIOUS
<1>2. {k \in j..i : patterns[k] = ch} = {}
  BY <1>1
<1> QED BY <1>2, FS_EmptySet DEF Count

LEMMA CountNext ==
  ASSUME NEW ch, NEW i \in Nat, NEW j \in Nat, j <= i
  PROVE  /\ Count(ch, j, i - 1) \in Nat
         /\ Count(ch, j, i) = Count(ch, j, i - 1) + (IF patterns[i] = ch THEN 1 ELSE 0)
<1> DEFINE S == {k \in j..i-1 : patterns[k] = ch}
           T == {k \in j..i : patterns[k] = ch}
<1>1. i - 1 \in Int /\ j \in Int
  OBVIOUS
<1>2. IsFiniteSet(j..i-1)
  BY <1>1, FS_Interval
<1>3. IsFiniteSet(S)
  BY <1>2, FS_Subset
<1>4. Cardinality(S) \in Nat
  BY <1>3, FS_CardinalityType
<1>5. j..i = (j..i-1) \cup {i} /\ i \notin j..i-1
  OBVIOUS
<1>6. T = (IF patterns[i] = ch THEN S \cup {i} ELSE S) /\ i \notin S
  BY <1>5
<1> HIDE DEF S, T
<1>7. Cardinality(S \cup {i}) = Cardinality(S) + 1
  BY <1>3, <1>6, FS_AddElement
<1>8. Cardinality(T) = Cardinality(S) + (IF patterns[i] = ch THEN 1 ELSE 0)
  <2>1. CASE patterns[i] = ch
    BY <1>6, <1>7, <2>1
  <2>2. CASE patterns[i] # ch
    BY <1>4, <1>6, <2>2
  <2> QED BY <2>1, <2>2
<1> QED BY <1>4, <1>8 DEF Count, S, T

(* A comma is cut at when the depth is zero, and that is when it is in no     *)
(* group.                                                                   *)
LEMMA DepthZero ==
  ASSUME GlobsTypes, DepthIsNet, index <= Len(patterns) + 1
  PROVE  depth = 0 <=> ~InGroup(index)
<1>1. index \in Nat /\ depth \in Nat /\ index >= 1
  BY DEF GlobsTypes
<1>2. Net(index, index - 1) = 0
  <2>1. index - 1 \in Nat /\ index - 1 < index
    BY <1>1
  <2>2. \A ch : Count(ch, index, index - 1) = 0
    BY <1>1, <2>1, CountNone
  <2> QED BY <2>2 DEF Net
<1>3. ASSUME NEW j \in 1..index-1
      PROVE  Net(j, index - 1) > 0 <=> Count("open", j, index - 1) > Count("close", j, index - 1)
  <2>1. j \in Nat /\ index - 1 \in Nat /\ index - 1 >= j
    BY <1>1
  <2>2. /\ Count("open", j, index - 1) \in Nat
        /\ Count("close", j, index - 1) \in Nat
    <3>1. index \in Nat /\ j <= index
      BY <1>1
    <3> QED BY <2>1, <3>1, CountNext
  <2> QED BY <2>2 DEF Net
<1>4. ASSUME depth = 0, NEW j \in 1..index-1 PROVE ~(Count("open", j, index - 1) > Count("close", j, index - 1))
  <2>1. j \in 1..index
    BY <1>1
  <2>2. Net(j, index - 1) <= 0
    BY <1>4, <2>1 DEF DepthIsNet
  <2>3. Net(j, index - 1) \in Int
    <3>1. j \in Nat /\ j <= index
      BY <1>1
    <3>2. Count("open", j, index - 1) \in Nat /\ Count("close", j, index - 1) \in Nat
      BY <1>1, <3>1, CountNext
    <3> QED BY <3>2 DEF Net
  <2> QED BY <1>3, <2>2, <2>3
<1>5. ASSUME depth # 0 PROVE InGroup(index)
  <2>1. PICK j \in 1..index : Net(j, index - 1) = depth
    BY DEF DepthIsNet
  <2>2. j # index /\ depth > 0
    BY <1>1, <1>2, <1>5, <2>1
  <2>3. j \in 1..index-1
    BY <1>1, <2>2
  <2> QED BY <1>3, <2>1, <2>2, <2>3 DEF InGroup
<1> QED BY <1>4, <1>5 DEF InGroup

LEMMA ScanOK ==
  ASSUME GlobsInv, Scan
  PROVE  GlobsInv'
<1> DEFINE ch == patterns[index]
           piece == <<start, index - 1>>
<1>0. GlobsTypes /\ DepthIsNet /\ CutSoFar
  BY DEF GlobsInv
<1>1. /\ Len(patterns) \in Nat /\ index \in Nat /\ index >= 1 /\ index <= Len(patterns)
      /\ depth \in Nat /\ start \in Nat
  BY <1>0 DEF GlobsTypes, Scan
<1>2. /\ depth' = Depth(ch) /\ index' = index + 1 /\ patterns' = patterns
      /\ IF ch = "comma" /\ depth = 0
         THEN pieces' = Append(pieces, piece) /\ start' = index + 1
         ELSE UNCHANGED <<pieces, start>>
  BY DEF Scan
<1>3. index \in DOMAIN patterns
  BY <1>0, <1>1 DEF GlobsTypes
<1>4. pieces \in Seq(Nat \X Nat) /\ piece \in Nat \X Nat
  BY <1>0, <1>1 DEF GlobsTypes
<1>5. piece[1] = start /\ piece[2] = index - 1
  OBVIOUS
<1> HIDE DEF ch, piece
<1>6. /\ Append(pieces, piece) \in Seq(Nat \X Nat)
      /\ ToSet(Append(pieces, piece)) = ToSet(pieces) \cup {piece}
  BY <1>4, AppendOne
<1>7. GlobsTypes'
  <2>1. Depth(ch) \in Nat
    BY <1>1 DEF Depth
  <2>2. start' \in Nat /\ pieces' \in Seq(Nat \X Nat)
    <3>1. index + 1 \in Nat
      BY <1>1
    <3>2. CASE ch = "comma" /\ depth = 0
      BY <1>2, <1>6, <3>1, <3>2
    <3>3. CASE ~(ch = "comma" /\ depth = 0)
      BY <1>1, <1>2, <1>4, <3>3
    <3> QED BY <3>2, <3>3
  <2>3. index' \in Nat /\ index' >= 1 /\ index' <= Len(patterns) + 2
    BY <1>1, <1>2
  <2> QED BY <1>0, <1>2, <2>1, <2>2, <2>3 DEF GlobsTypes
<1>8. Separators' = Separators /\ \A c, j, i : Count(c, j, i)' = Count(c, j, i)
  BY <1>2 DEF Separators, InGroup, Count
<1>9. ASSUME NEW j \in 1..index
      PROVE  /\ Net(j, index - 1) \in Int
             /\ Net(j, index) = Net(j, index - 1) + (IF ch = "open" THEN 1 ELSE IF ch = "close" THEN 0 - 1 ELSE 0)
  <2>1. j \in Nat /\ j <= index
    BY <1>1
  <2>2. /\ Count("open", j, index - 1) \in Nat
        /\ Count("open", j, index) = Count("open", j, index - 1) + (IF ch = "open" THEN 1 ELSE 0)
    BY <1>1, <2>1, CountNext DEF ch
  <2>3. /\ Count("close", j, index - 1) \in Nat
        /\ Count("close", j, index) = Count("close", j, index - 1) + (IF ch = "close" THEN 1 ELSE 0)
    BY <1>1, <2>1, CountNext DEF ch
  <2>4. "open" # "close"
    OBVIOUS
  <2> HIDE DEF ch
  <2> QED BY <2>2, <2>3, <2>4 DEF Net
<1>10. Net(index + 1, index) = 0
  <2>1. index + 1 \in Nat /\ index < index + 1
    BY <1>1
  <2>2. ASSUME NEW c PROVE Count(c, index + 1, index) = 0
    BY <1>1, <2>1, CountNone
  <2> QED BY <2>2 DEF Net
<1>11. Depth(ch) = IF ch = "open" THEN depth + 1 ELSE IF ch = "close" /\ depth > 0 THEN depth - 1 ELSE depth
  BY DEF Depth
<1>12. /\ \A j \in 1..index+1 : Net(j, index) <= Depth(ch)
       /\ \E j \in 1..index+1 : Net(j, index) = Depth(ch)
  <2>1. \A j \in 1..index : Net(j, index - 1) <= depth
    BY <1>0, <1>1 DEF DepthIsNet
  <2>2. PICK l \in 1..index : Net(l, index - 1) = depth
    BY <1>0, <1>1 DEF DepthIsNet
  <2>3. ASSUME NEW j \in 1..index+1 PROVE Net(j, index) <= Depth(ch)
    <3>1. CASE j = index + 1
      BY <1>1, <1>10, <1>11, <3>1
    <3>2. CASE j # index + 1
      <4>1. j \in 1..index
        BY <1>1, <3>2
      <4>2. Net(j, index - 1) <= depth /\ Net(j, index - 1) \in Int
        BY <1>9, <2>1, <4>1
      <4>3. CASE ch = "close" /\ depth = 0
        BY <1>1, <1>9, <1>11, <4>1, <4>2, <4>3
      <4>4. CASE ~(ch = "close" /\ depth = 0)
        BY <1>1, <1>9, <1>11, <4>1, <4>2, <4>4
      <4> QED BY <4>3, <4>4
    <3> QED BY <3>1, <3>2
  <2>4. CASE ch = "close" /\ depth = 0
    <3>1. index + 1 \in 1..index+1 /\ Depth(ch) = 0
      BY <1>1, <1>11, <2>4
    <3> QED BY <1>10, <2>3, <3>1
  <2>5. CASE ~(ch = "close" /\ depth = 0)
    <3>1. l \in 1..index+1
      BY <1>1
    <3>2. Net(l, index) = Depth(ch)
      BY <1>1, <1>9, <1>11, <2>2, <2>5
    <3> QED BY <2>3, <3>1, <3>2
  <2> QED BY <2>4, <2>5
<1>13. DepthIsNet'
  <2>1. index' - 1 = index
    BY <1>1, <1>2
  <2>2. \A j : Net(j, index - 1)' = Net(j, index)
    BY <1>2, <2>1 DEF Net, Count
  <2> QED BY <1>2, <1>12, <2>2 DEF DepthIsNet
<1>14. index \in Separators <=> ch = "comma" /\ depth = 0
  BY <1>0, <1>1, <1>3, DepthZero DEF Separators, ch
<1>15. Separators \subseteq Nat
  BY <1>0 DEF Separators, GlobsTypes
<1>16. CutSoFar'
  <2>1. Passed' = IF index \in Separators THEN Passed \cup {index} ELSE Passed
    <3>1. \A i \in Separators : i < index + 1 <=> i < index \/ i = index
      BY <1>1, <1>15
    <3>2. Passed' = {i \in Separators : i < index + 1}
      BY <1>2, <1>8 DEF Passed
    <3> QED BY <3>1, <3>2 DEF Passed
  <2>2. Ends = Passed /\ Starts \cup {start - 1} = Passed \cup {0}
    BY <1>0, <1>1 DEF CutSoFar
  <2>3. CASE index \in Separators
    <3>1. pieces' = Append(pieces, piece) /\ start' = index + 1
      BY <1>2, <1>14, <2>3
    <3>2. index - 1 + 1 = index /\ start' - 1 = index
      BY <1>1, <3>1
    <3>3. Ends' = Ends \cup {index}
      BY <1>5, <1>6, <3>1, <3>2 DEF Ends
    <3>4. Starts' = Starts \cup {start - 1}
      BY <1>5, <1>6, <3>1 DEF Starts
    <3>5. Starts' \cup {start' - 1} = (Passed \cup {0}) \cup {index}
      BY <2>2, <3>2, <3>4
    <3> QED BY <2>1, <2>2, <2>3, <3>3, <3>5 DEF CutSoFar
  <2>4. CASE index \notin Separators
    <3>1. UNCHANGED <<pieces, start>>
      BY <1>2, <1>14, <2>4
    <3>2. Ends' = Ends /\ Starts' = Starts
      BY <3>1 DEF Ends, Starts
    <3> QED BY <2>1, <2>2, <2>4, <3>1, <3>2 DEF CutSoFar
  <2> QED BY <2>3, <2>4
<1>17. ~(index' > Len(patterns') + 1)
  BY <1>1, <1>2
<1> QED BY <1>7, <1>13, <1>16, <1>17 DEF GlobsInv

LEMMA LastPieceOK ==
  ASSUME GlobsInv, LastPiece
  PROVE  GlobsInv'
<1> DEFINE piece == <<start, Len(patterns)>>
<1>0. GlobsTypes /\ CutSoFar
  BY DEF GlobsInv
<1>1. /\ Len(patterns) \in Nat /\ index = Len(patterns) + 1 /\ index' = index + 1 /\ start \in Nat
      /\ UNCHANGED <<patterns, depth, start>>
  BY <1>0 DEF GlobsTypes, LastPiece
<1>2. pieces \in Seq(Nat \X Nat) /\ piece \in Nat \X Nat
  BY <1>0, <1>1 DEF GlobsTypes
<1>3. piece[1] = start /\ piece[2] = Len(patterns) /\ pieces' = Append(pieces, piece)
  BY DEF LastPiece
<1> HIDE DEF piece
<1>4. /\ Append(pieces, piece) \in Seq(Nat \X Nat)
      /\ ToSet(Append(pieces, piece)) = ToSet(pieces) \cup {piece}
  BY <1>2, AppendOne
<1>5. GlobsTypes'
  <2>1. index' \in Nat /\ index' >= 1 /\ index' <= Len(patterns) + 2
    BY <1>1
  <2> QED BY <1>0, <1>1, <1>3, <1>4, <2>1 DEF GlobsTypes
<1>6. DepthIsNet' /\ CutSoFar'
  BY <1>1 DEF DepthIsNet, CutSoFar
<1>7. Separators = Passed
  <2>1. \A i \in DOMAIN patterns : i < Len(patterns) + 1
    BY <1>0, <1>1 DEF GlobsTypes
  <2> QED BY <1>1, <2>1 DEF Separators, Passed
<1>8. Ends = Separators /\ Starts \cup {start - 1} = Separators \cup {0}
  <2>1. index <= Len(patterns) + 1
    BY <1>1
  <2> QED BY <1>0, <1>7, <2>1 DEF CutSoFar
<1>9. CutsAreSeparators'
  <2>1. Separators' = Separators
    BY <1>1 DEF Separators, InGroup, Count
  <2>2. Ends' = Ends \cup {Len(patterns) + 1}
    BY <1>3, <1>4 DEF Ends
  <2>3. Starts' = Starts \cup {start - 1}
    BY <1>3, <1>4 DEF Starts
  <2>4. Ends' = Separators' \cup {Len(patterns') + 1} /\ Starts' = Separators' \cup {0}
    BY <1>1, <1>8, <2>1, <2>2, <2>3
  <2> QED BY <2>4 DEF CutsAreSeparators, Ends, Starts
<1> QED BY <1>5, <1>6, <1>9 DEF GlobsInv

(* A file_glob is cut at every comma outside of all groups, and at no other   *)
(* place, however its braces match (grep_filter.rs:43).                      *)
THEOREM CutOutsideGroups == GlobsSpec => [](index > Len(patterns) + 1 => CutsAreSeparators)
<1>1. GlobsInit => GlobsInv
  <2> SUFFICES ASSUME GlobsInit PROVE GlobsInv
    OBVIOUS
  <2>1. patterns \in Seq(Char) /\ index = 1 /\ depth = 0 /\ start = 1 /\ pieces = <<>>
    BY PatternsAssumption DEF GlobsInit
  <2>2. Len(patterns) \in Nat
    BY <2>1
  <2>3. GlobsTypes
    BY <2>1, <2>2 DEF GlobsTypes
  <2>4. Net(1, 0) = 0
    <3>1. \A c : Count(c, 1, 0) = 0
      BY CountNone
    <3> QED BY <3>1 DEF Net
  <2>5. DepthIsNet
    <3>1. 1..index = {1} /\ index - 1 = 0
      BY <2>1
    <3> QED BY <2>1, <2>4, <3>1 DEF DepthIsNet
  <2>6. CutSoFar
    <3>1. ToSet(pieces) = {}
      BY <2>1 DEF ToSet
    <3>2. Passed = {}
      BY <2>1 DEF Passed, Separators
    <3> QED BY <2>1, <3>1, <3>2 DEF CutSoFar, Ends, Starts
  <2>7. ~(index > Len(patterns) + 1)
    BY <2>1, <2>2
  <2> QED BY <2>3, <2>5, <2>6, <2>7 DEF GlobsInv
<1>2. GlobsInv /\ [GlobsNext]_globVars => GlobsInv'
  <2> SUFFICES ASSUME GlobsInv, [GlobsNext]_globVars PROVE GlobsInv'
    OBVIOUS
  <2>1. CASE UNCHANGED globVars
    <3>1. Separators' = Separators
      BY <2>1 DEF globVars, Separators, InGroup, Count
    <3>2. Ends' = Ends /\ Starts' = Starts /\ Passed' = Passed
      BY <2>1, <3>1 DEF globVars, Ends, Starts, Passed
    <3>3. \A j : Net(j, index - 1)' = Net(j, index - 1)
      BY <2>1 DEF globVars, Net, Count
    <3>4. GlobsTypes' /\ DepthIsNet' /\ CutSoFar'
      BY <2>1, <3>2, <3>3 DEF globVars, GlobsInv, GlobsTypes, DepthIsNet, CutSoFar
    <3>5. CutsAreSeparators' <=> CutsAreSeparators
      BY <2>1, <3>1 DEF globVars, CutsAreSeparators
    <3> QED BY <2>1, <3>4, <3>5 DEF globVars, GlobsInv
  <2> QED BY <2>1, ScanOK, LastPieceOK DEF GlobsNext
<1>3. GlobsInv => (index > Len(patterns) + 1 => CutsAreSeparators)
  BY DEF GlobsInv
<1> QED BY <1>1, <1>2, <1>3, PTL DEF GlobsSpec
-----------------------------------------------------------------------------
(* Search: the walk, the ranking and the picking of matches.                 *)

MatchesOf(S) == UNION {{e} \X (DOMAIN dir[e].matches) : e \in S}

(* The order of the files in the answer.                                    *)
FileBefore(a, b) == IF endpoint = "grep" THEN Denser(a, b) ELSE a < b

(* The files opened so far, and their matches looked at.                    *)
Opened == IF endpoint = "grep" THEN {perFile[k] : k \in 1..next-1}
                               ELSE {e \in 1..pos-1 : ~dir[e].plain}
Looked == {m \in MatchesOf(Opened) : m[1] = open => m[2] < match}

Enough == IF endpoint = "taint" THEN 5 * request.max_results ELSE request.max_results

Walked ==
  /\ \A d \in 1..pos-1 : ~dir[d].error
  /\ endpoint = "taint" => open = 0 /\ \A e \in DOMAIN dir : ~dir[e].plain
  /\ endpoint = "structural" => phase # "pick"
  /\ endpoint = "grep" =>
       /\ phase = "walk" => next = 1 /\ open = 0
       /\ phase # "walk" => /\ ~WalkYields
                            /\ \A j, k \in DOMAIN perFile : j < k => Denser(perFile[j], perFile[k])
       /\ ToSet(perFile) = {e \in 1..pos-1 : dir[e].matches # <<>>}
       /\ IsFiniteSet(MatchesOf(1..pos-1)) /\ total = Cardinality(MatchesOf(1..pos-1))

(* The file that is open was opened last, and comes last in the order.       *)
OpenIsLast ==
  open # 0 => /\ open \in Opened
              /\ \A e \in Opened : e = open \/ FileBefore(e, open)

(* Picked are, in order, the matches looked at that fit; before the end,     *)
(* they are not enough.                                                     *)
Sorted == \A j, k \in DOMAIN picked : j < k => Before(picked[j], picked[k])
PickedInOrder ==
  /\ (endpoint = "taint" /\ phase = "done") \/ ToSet(picked) = {m \in Looked : Fits(m[1], m[2])}
  /\ Sorted
  /\ phase = "walk" \/ (phase = "pick" /\ endpoint = "grep")
       => picked = <<>> \/ Len(picked) < Enough
  /\ phase = "pick" /\ endpoint = "taint" => Len(picked) >= Enough

ReadAreOpened ==
  /\ ToSet(read) \subseteq Opened
  /\ open # 0 /\ read # <<>> => Last(read) = open
  /\ endpoint = "grep" /\ ~request.expand => read = <<>>

SearchInv == /\ TypeOK /\ Walked /\ OpenIsLast /\ PickedInOrder /\ ReadAreOpened
             /\ NoNeedlessRead /\ AnswerIsBest /\ FalseMeansComplete

LEMMA Shape ==
  ASSUME TypeOK
  PROVE  /\ Len(dir) \in Nat /\ DOMAIN dir = 1..Len(dir)
         /\ \A e \in DOMAIN dir : /\ Len(dir[e].matches) \in Nat
                                  /\ DOMAIN dir[e].matches = 1..Len(dir[e].matches)
                                  /\ dir[e].matches = <<>> <=> Len(dir[e].matches) = 0
         /\ request.max_results \in Nat /\ request.max_files \in Nat /\ Enough \in Nat
         /\ pos \in Nat /\ pos >= 1 /\ pos - 1 <= Len(dir) /\ pos - 1 \in Nat
         /\ Len(perFile) \in Nat /\ DOMAIN perFile = 1..Len(perFile)
         /\ Len(picked) \in Nat /\ DOMAIN picked = 1..Len(picked)
         /\ Len(read) \in Nat /\ DOMAIN read = 1..Len(read)
<1>1. Len(dir) \in Nat /\ DOMAIN dir = 1..Len(dir) /\ \A e \in DOMAIN dir : dir[e] \in Entry
  BY DEF TypeOK
<1>2. ASSUME NEW e \in DOMAIN dir
      PROVE  /\ Len(dir[e].matches) \in Nat
             /\ DOMAIN dir[e].matches = 1..Len(dir[e].matches)
             /\ dir[e].matches = <<>> <=> Len(dir[e].matches) = 0
  <2>1. dir[e].matches \in Seq(BlockLength)
    BY <1>1 DEF Entry
  <2> QED BY <2>1, EmptySeq
<1>3. request.max_results \in Nat /\ request.max_files \in Nat
  BY LimitAssumption DEF TypeOK, Request
<1>4. Enough \in Nat
  BY <1>3 DEF Enough
<1>5. pos \in Nat /\ pos >= 1 /\ pos - 1 <= Len(dir) /\ pos - 1 \in Nat
  BY <1>1 DEF TypeOK
<1>6. Len(perFile) \in Nat /\ DOMAIN perFile = 1..Len(perFile)
  BY DEF TypeOK
<1>7. Len(picked) \in Nat /\ DOMAIN picked = 1..Len(picked)
  BY DEF TypeOK
<1>8. Len(read) \in Nat /\ DOMAIN read = 1..Len(read)
  BY DEF TypeOK
<1> QED BY <1>1, <1>2, <1>3, <1>4, <1>5, <1>6, <1>7, <1>8

LEMMA InMatches ==
  ASSUME NEW S, NEW m
  PROVE  m \in MatchesOf(S) <=> \E e \in S : \E i \in DOMAIN dir[e].matches : m = <<e, i>>
BY DEF MatchesOf

LEMMA MatchIn ==
  ASSUME NEW S, NEW m \in MatchesOf(S)
  PROVE  m[1] \in S /\ m[2] \in DOMAIN dir[m[1]].matches
<1>1. PICK e \in S : m \in {e} \X (DOMAIN dir[e].matches)
  BY DEF MatchesOf
<1>2. m[1] = e /\ m[2] \in DOMAIN dir[e].matches
  BY <1>1
<1> QED BY <1>2

LEMMA PassedInDir ==
  ASSUME TypeOK
  PROVE  1..pos-1 \subseteq DOMAIN dir
<1>1. Len(dir) \in Nat /\ DOMAIN dir = 1..Len(dir) /\ pos \in Nat /\ pos - 1 <= Len(dir)
  BY Shape
<1> QED BY ONLY <1>1

LEMMA BeforeIs ==
  ASSUME NEW m, NEW n
  PROVE  Before(m, n) <=> FileBefore(m[1], n[1]) \/ (m[1] = n[1] /\ m[2] < n[2])
BY DEF Before, FileBefore, Denser

(* What an answer is judged by depends on the request and the directory.     *)
LEMMA Same ==
  ASSUME UNCHANGED <<endpoint, request, dir>>
  PROVE  /\ \A e, i : Fits(e, i)' <=> Fits(e, i)
         /\ \A a, b : (Denser(a, b)' <=> Denser(a, b)) /\ (FileBefore(a, b)' <=> FileBefore(a, b))
         /\ \A m, n : Before(m, n)' <=> Before(m, n)
         /\ \A S : MatchesOf(S)' = MatchesOf(S)
         /\ Reached' = Reached /\ Found' = Found /\ Fitting' = Fitting /\ Enough' = Enough
<1>1. \A e, i : Fits(e, i)' <=> Fits(e, i)
  BY DEF Fits, TooLarge
<1>2. \A a, b : (Denser(a, b)' <=> Denser(a, b)) /\ (FileBefore(a, b)' <=> FileBefore(a, b))
  BY DEF Denser, FileBefore
<1>3. \A m, n : Before(m, n)' <=> Before(m, n)
  BY DEF Before
<1>4. \A S : MatchesOf(S)' = MatchesOf(S)
  BY DEF MatchesOf
<1>5. Reached' = Reached /\ Found' = Found /\ Enough' = Enough
  BY DEF Reached, Found, Enough
<1>6. Fitting' = Fitting
  BY <1>1, <1>5 DEF Fitting
<1> QED BY <1>1, <1>2, <1>3, <1>4, <1>5, <1>6

LEMMA MinOfTwo ==
  ASSUME NEW a \in Nat, NEW b \in Nat
  PROVE  /\ Min({a, b}) = IF a <= b THEN a ELSE b
         /\ Max({a, b}) = IF a <= b THEN b ELSE a
BY DEF Min, Max

LEMMA SetToSeqsLists ==
  ASSUME NEW S, IsFiniteSet(S), NEW s \in SetToSeqs(S)
  PROVE  s \in Seq(S) /\ ToSet(s) = S
<1> DEFINE n == Cardinality(S)
<1>1. n \in Nat
  BY FS_CardinalityType
<1>2. s \in [1..n -> S] /\ \A i, j \in 1..n : i # j => s[i] # s[j]
  BY DEF SetToSeqs
<1> HIDE DEF n
<1>3. s \in Seq(S)
  BY <1>1, <1>2, SeqDef
<1>4. s \in Injection(1..n, S)
  BY <1>2 DEF Injection, IsInjective
<1>5. IsFiniteSet(1..n) /\ Cardinality(1..n) = n
  BY <1>1, FS_Interval
<1>6. s \in Surjection(1..n, S)
  BY <1>4, <1>5, FS_Injection DEF n
<1>7. \A x \in S : \E i \in 1..n : s[i] = x
  BY <1>6 DEF Surjection
<1> QED BY <1>2, <1>3, <1>7 DEF ToSet

(* A request whose walk has ended has passed all it can reach.               *)
LEMMA WalkEnds ==
  ASSUME TypeOK, Walked, ~WalkYields
  PROVE  Reached = 1..pos-1
<1>1. \A e \in Reached : e <= pos - 1
  BY Shape DEF Reached, WalkYields
<1>2. \A e \in 1..pos-1 : e \in Reached
  BY Shape DEF Reached, Walked, TypeOK
<1> QED BY <1>1, <1>2, Shape DEF Reached

LEMMA PassedAreReached ==
  ASSUME TypeOK, Walked
  PROVE  1..pos-1 \subseteq Reached
<1>1. (\A d \in 1..pos-1 : ~dir[d].error) /\ pos <= request.max_files + 1
  BY DEF Walked, TypeOK
<1> SUFFICES ASSUME NEW e \in 1..pos-1 PROVE e \in Reached
  OBVIOUS
<1>2. e \in DOMAIN dir /\ e <= request.max_files /\ \A d \in 1..e : d \in 1..pos-1
  BY <1>1, Shape
<1> QED BY <1>1, <1>2 DEF Reached

(* The picks of files before the last one read, few enough.                  *)
Earlier == {k \in DOMAIN picked : read # <<>> /\ picked[k][1] # Last(read)}

LEMMA NeedlessIs ==
  NoNeedlessRead <=> IsInjective(read) /\ Cardinality(Earlier) < Max({1, Enough})
BY DEF NoNeedlessRead, Earlier, Enough

LEMMA EarlierIsFew ==
  ASSUME TypeOK, picked = <<>> \/ Len(picked) < Enough
  PROVE  \A S \in SUBSET DOMAIN picked : Cardinality(S) < Max({1, Enough})
<1>1. Len(picked) \in Nat /\ DOMAIN picked = 1..Len(picked) /\ Enough \in Nat
  BY Shape
<1>2. IsFiniteSet(DOMAIN picked) /\ Cardinality(DOMAIN picked) = Len(picked)
  <2> DEFINE n == Len(picked)
  <2>1. n \in Nat /\ DOMAIN picked = 1..n
    BY <1>1
  <2> HIDE DEF n
  <2>2. 1 \in Int /\ n \in Int /\ (1 > n => n = 0) /\ n - 1 + 1 = n
    BY <2>1
  <2>3. IsFiniteSet(1..n) /\ Cardinality(1..n) = n
    BY <2>2, FS_Interval
  <2> QED BY <2>1, <2>3 DEF n
<1>3. Max({1, Enough}) = IF 1 <= Enough THEN Enough ELSE 1
  BY <1>1, MinOfTwo
<1>4. Len(picked) < Max({1, Enough})
  BY <1>1, <1>3
<1>5. ASSUME NEW S \in SUBSET DOMAIN picked PROVE Cardinality(S) \in Nat /\ Cardinality(S) <= Len(picked)
  BY <1>2, <1>5, FS_Subset, FS_CardinalityType
<1> QED BY <1>1, <1>3, <1>4, <1>5

(* The next file is opened: it comes after those opened before.              *)
LEMMA OpenOne ==
  ASSUME SearchInv, NEW f \in DOMAIN dir, f \notin Opened, \A e \in Opened : FileBefore(e, f),
         open = 0, open' = f, match' = 1, Opened' = Opened \cup {f},
         UNCHANGED <<endpoint, request, dir, picked, phase>>,
         phase = "walk" \/ (phase = "pick" /\ endpoint = "grep"),
         \/ read' = Append(read, f) /\ ~(endpoint = "grep" /\ ~request.expand)
         \/ read' = <<>>
  PROVE  /\ OpenIsLast' /\ PickedInOrder' /\ ReadAreOpened'
         /\ NoNeedlessRead' /\ AnswerIsBest' /\ FalseMeansComplete'
<1>0. TypeOK /\ OpenIsLast /\ PickedInOrder /\ ReadAreOpened /\ NoNeedlessRead
  BY DEF SearchInv
<1>1. \/ read' = <<>>
      \/ /\ Last(read') = f
         /\ ToSet(read') = ToSet(read) \cup {f}
         /\ IsInjective(read) /\ f \notin ToSet(read) => IsInjective(read')
  <2>1. read \in Seq(DOMAIN dir)
    BY <1>0 DEF TypeOK
  <2>2. /\ Last(Append(read, f)) = f
        /\ ToSet(Append(read, f)) = ToSet(read) \cup {f}
        /\ IsInjective(read) /\ f \notin ToSet(read) => IsInjective(Append(read, f))
    BY <2>1, AppendOne
  <2> QED BY <2>2
<1>2. OpenIsLast'
  BY <1>0, Same DEF OpenIsLast
<1>3. Looked' = Looked
  <2>1. f \in Nat /\ f # 0
    BY <1>0, Shape
  <2>2. \A m \in MatchesOf(Opened) : m[1] # f
    BY InMatches
  <2>3. \A m : m \in MatchesOf(Opened \cup {f}) <=>
             m \in MatchesOf(Opened) \/ \E i \in DOMAIN dir[f].matches : m = <<f, i>>
    BY InMatches
  <2>4. \A i \in DOMAIN dir[f].matches : ~(i < 1)
    BY <1>0, Shape
  <2>5. Looked' = {m \in MatchesOf(Opened \cup {f}) : m[1] = f => m[2] < 1}
    BY Same DEF Looked
  <2>6. Looked = MatchesOf(Opened)
    <3>1. \A m \in MatchesOf(Opened) : m[1] # 0
      <4>1. 0 \notin Opened
        <5>1. \A k \in DOMAIN perFile : perFile[k] \in DOMAIN dir
          BY <1>0 DEF TypeOK
        <5>2. 0 \notin DOMAIN dir /\ 0 \notin 1..pos-1
          BY <1>0, Shape
        <5>3. \A k \in 1..next-1 : k \in DOMAIN perFile
          BY <1>0, Shape DEF TypeOK
        <5> QED BY <5>1, <5>2, <5>3 DEF Opened
      <4> QED BY <4>1, InMatches
    <3> QED BY <3>1 DEF Looked
  <2>7. \A i \in DOMAIN dir[f].matches : <<f, i>>[1] = f /\ <<f, i>>[2] = i
    OBVIOUS
  <2>8. ASSUME NEW m PROVE m \in Looked' <=> m \in MatchesOf(Opened)
    <3>1. ASSUME NEW i \in DOMAIN dir[f].matches, m = <<f, i>> PROVE m \notin Looked'
      BY <2>4, <2>5, <2>7, <3>1
    <3> QED BY <2>2, <2>3, <2>5, <3>1
  <2> QED BY <2>6, <2>8
<1>4. PickedInOrder'
  BY <1>0, <1>3, Same DEF PickedInOrder, Sorted
<1>5. ReadAreOpened'
  <2>1. read' # <<>> => Last(read') = f
    BY <1>1
  <2>2. ToSet(read') \subseteq Opened'
    BY <1>0, <1>1 DEF ReadAreOpened, ToSet
  <2> QED BY <1>0, <2>1, <2>2 DEF ReadAreOpened
<1>6. NoNeedlessRead'
  <2>1. IsInjective(read')
    <3>1. IsInjective(<<>>)
      BY DEF IsInjective
    <3>2. IsInjective(read) /\ f \notin ToSet(read)
      BY <1>0, NeedlessIs DEF ReadAreOpened
    <3> QED BY <1>1, <3>1, <3>2
  <2>2. Earlier' \in SUBSET DOMAIN picked
    BY DEF Earlier
  <2>3. Cardinality(Earlier') < Max({1, Enough})
    BY <1>0, <2>2, EarlierIsFew DEF PickedInOrder
  <2>4. Enough' = Enough
    BY Same
  <2> QED BY <2>1, <2>3, <2>4 DEF NoNeedlessRead, Earlier, Enough
<1>7. AnswerIsBest' /\ FalseMeansComplete'
  BY DEF AnswerIsBest, FalseMeansComplete
<1> QED BY <1>2, <1>4, <1>5, <1>6, <1>7

LEMMA OpenedPassed ==
  ASSUME TypeOK, Walked
  PROVE  /\ Opened \subseteq 1..pos-1 /\ Opened \subseteq DOMAIN dir /\ Opened \subseteq Reached
         /\ \A e \in Opened : endpoint = "structural" => ~dir[e].plain
<1>1. Opened \subseteq 1..pos-1
  <2>1. CASE endpoint = "grep"
    <3>1. 1..next-1 \subseteq DOMAIN perFile
      BY Shape DEF TypeOK
    <3> QED BY <2>1, <3>1 DEF Opened, Walked, ToSet
  <2>2. CASE endpoint # "grep"
    BY <2>2 DEF Opened
  <2> QED BY <2>1, <2>2
<1>2. 1..pos-1 \subseteq DOMAIN dir
  BY Shape
<1>3. \A e \in Opened : endpoint = "structural" => ~dir[e].plain
  BY DEF Opened
<1> QED BY <1>1, <1>2, <1>3, PassedAreReached

LEMMA FoundIs ==
  ASSUME NEW m
  PROVE  m \in Found <=>
           \E e \in Reached : /\ endpoint = "structural" => ~dir[e].plain
                             /\ \E i \in DOMAIN dir[e].matches : m = <<e, i>>
BY DEF Found

LEMMA LookedAreFound ==
  ASSUME TypeOK, Walked
  PROVE  Looked \subseteq Found
<1>1. ASSUME NEW m \in Looked PROVE m \in Found
  <2>1. m \in MatchesOf(Opened)
    BY DEF Looked
  <2>2. PICK e \in Opened : \E i \in DOMAIN dir[e].matches : m = <<e, i>>
    BY <2>1, InMatches
  <2> QED BY <2>2, OpenedPassed, FoundIs
<1> QED BY <1>1

(* What is found and not looked at comes after the match that is next.       *)
LEMMA LaterIs ==
  ASSUME TypeOK, Walked, OpenIsLast, open # 0,
         NEW m \in Found, m \notin Looked, m # <<open, match>>
  PROVE  Before(<<open, match>>, m)
<1>1. PICK e \in Reached : /\ endpoint = "structural" => ~dir[e].plain
                           /\ \E i \in DOMAIN dir[e].matches : m = <<e, i>>
  BY FoundIs
<1>2. PICK i \in DOMAIN dir[e].matches : m = <<e, i>>
  BY <1>1
<1>3. e \in DOMAIN dir /\ i \in Nat /\ match \in Nat /\ open \in Opened /\ endpoint # "taint"
  <2>1. e \in DOMAIN dir
    BY DEF Reached
  <2>2. DOMAIN dir[e].matches = 1..Len(dir[e].matches)
    BY <2>1, Shape
  <2>3. i \in Nat
    BY <2>2
  <2>4. match \in Nat
    BY DEF TypeOK
  <2>5. open \in Opened /\ endpoint # "taint"
    BY DEF OpenIsLast, Walked
  <2> QED BY <2>1, <2>3, <2>4, <2>5
<1>4. m[1] = e /\ m[2] = i
  BY <1>2
<1>5. CASE e \in Opened
  <2>1. m \in MatchesOf(Opened)
    BY <1>2, <1>5, InMatches
  <2>2. e = open /\ ~(i < match)
    BY <1>4, <2>1 DEF Looked
  <2>3. match < i
    BY <1>2, <1>3, <2>2
  <2> QED BY <1>4, <2>2, <2>3, BeforeIs
<1>6. CASE e \notin Opened
  <2>1. FileBefore(open, e)
    <3>1. CASE endpoint = "grep"
      <4>1. phase # "walk" /\ ~WalkYields
        BY <3>1 DEF Walked
      <4>2. e \in 1..pos-1
        BY <4>1, WalkEnds
      <4>3. dir[e].matches # <<>>
        BY <1>2, <1>3, Shape
      <4>4. e \in ToSet(perFile)
        BY <3>1, <4>2, <4>3 DEF Walked
      <4>5. PICK k \in DOMAIN perFile : e = perFile[k]
        BY <4>4 DEF ToSet
      <4>6. PICK j \in 1..next-1 : open = perFile[j]
        BY <1>3, <3>1 DEF Opened
      <4>7. k \notin 1..next-1
        BY <1>6, <3>1, <4>5 DEF Opened
      <4>8. j < k /\ j \in DOMAIN perFile
        <5>1. /\ Len(perFile) \in Nat /\ DOMAIN perFile = 1..Len(perFile)
              /\ next \in 1..Len(perFile)+1
          BY Shape DEF TypeOK
        <5>2. j \in Nat /\ j >= 1 /\ j <= next - 1
          BY <4>6, <5>1
        <5>3. k \in Nat /\ k <= Len(perFile) /\ ~(k <= next - 1)
          BY <4>5, <4>7, <5>1
        <5> QED BY <5>1, <5>2, <5>3
      <4> QED BY <3>1, <4>1, <4>5, <4>6, <4>8 DEF Walked, FileBefore
    <3>2. CASE endpoint = "structural"
      <4>1. ~(e <= pos - 1)
        BY <1>1, <1>3, <1>6, <3>2, Shape DEF Opened
      <4>2. open <= pos - 1 /\ open \in Nat /\ e \in Nat
        BY <1>3, OpenedPassed, Shape
      <4> QED BY <3>2, <4>1, <4>2, Shape DEF FileBefore
    <3> QED BY <1>3, <3>1, <3>2 DEF TypeOK
  <2> QED BY <1>4, <2>1, BeforeIs
<1> QED BY <1>5, <1>6

(* No match is picked twice, so when as many are picked as there are, all    *)
(* are.                                                                     *)
LEMMA NoneTwice ==
  ASSUME TypeOK, Sorted
  PROVE  IsInjective(picked)
<1>1. ASSUME NEW m \in (DOMAIN dir) \X Nat PROVE ~Before(m, m)
  <2>1. m[1] \in Nat /\ m[2] \in Nat /\ Len(dir[m[1]].matches) \in Nat
    BY Shape
  <2> QED BY <2>1, BeforeIs DEF FileBefore, Denser
<1>2. ASSUME NEW j \in DOMAIN picked, NEW k \in DOMAIN picked, picked[j] = picked[k], j # k
      PROVE  FALSE
  <2>1. picked \in Seq((DOMAIN dir) \X Nat) /\ j \in 1..Len(picked) /\ k \in 1..Len(picked)
    BY Shape DEF TypeOK
  <2>2. picked[j] \in (DOMAIN dir) \X Nat
    BY <2>1, ElementOfSeq
  <2>3. j < k \/ k < j
    BY <1>2, <2>1
  <2> QED BY <1>1, <1>2, <2>2, <2>3 DEF Sorted
<1> QED BY <1>2 DEF IsInjective

LEMMA AllPicked ==
  ASSUME NEW F, IsFiniteSet(F), NEW s \in Seq(F), IsInjective(s), Cardinality(F) <= Len(s)
  PROVE  ToSet(s) = F
<1> DEFINE n == Len(s)
<1>1. n \in Nat /\ s \in [1..n -> F] /\ DOMAIN s = 1..n
  BY LenProperties
<1> HIDE DEF n
<1>2. s \in Injection(1..n, F)
  BY <1>1 DEF Injection
<1>3. n - 1 + 1 = n /\ (1 > n => n = 0) /\ 1 \in Int /\ n \in Int
  BY <1>1
<1>4. Cardinality(1..n) = n
  BY <1>3, FS_Interval
<1>5. Cardinality(F) \in Nat
  BY FS_CardinalityType
<1>6. Cardinality(1..n) <= Cardinality(F)
  BY <1>2, FS_Injection
<1>7. Cardinality(1..n) = Cardinality(F)
  BY <1>1, <1>4, <1>5, <1>6 DEF n
<1>8. s \in Surjection(1..n, F)
  BY <1>2, <1>7, FS_Injection
<1> QED BY <1>1, <1>8 DEF Surjection, ToSet

(* When the search for matches ends because nothing is left, everything that  *)
(* fits was picked; when it ends because enough are picked, the rest comes    *)
(* after them.                                                              *)
LEMMA CompleteAnswer ==
  ASSUME TypeOK, PickedInOrder, Looked = Found, endpoint # "taint", phase # "done",
         phase = "walk" \/ endpoint = "grep",
         endpoint = "grep" => IsFiniteSet(Found) /\ total = Cardinality(Found),
         phase' = "done", UNCHANGED <<endpoint, request, dir, picked, total>>
  PROVE  AnswerIsBest' /\ FalseMeansComplete'
<1>1. ToSet(picked) = Fitting
  BY DEF PickedInOrder, Fitting
<1>2. Range(picked) = ToSet(picked) /\ Range(picked)' = Range(picked)
  BY DEF Range, ToSet
<1>3. picked = <<>> \/ Len(picked) < request.max_results
  BY DEF PickedInOrder, Enough, TypeOK
<1>4. AnswerIsBest'
  <2>1. request.max_results > 0 => Len(picked) <= request.max_results
    BY <1>3, Shape, EmptySeq
  <2>2. Sorted'
    BY Same DEF PickedInOrder, Sorted
  <2> QED BY <1>1, <1>2, <2>1, <2>2, Same DEF AnswerIsBest, Sorted
<1>5. FalseMeansComplete'
  <2>1. CASE endpoint = "structural"
    BY <1>1, <1>2, <2>1, Same DEF FalseMeansComplete
  <2>2. CASE endpoint = "grep"
    <3>1. Truncated' <=> total > Len(picked)
      BY <2>2 DEF Truncated, TotalMatches
    <3>2. ASSUME ~(total > Len(picked)) PROVE Range(picked) = Found
      <4>1. IsInjective(picked) /\ ToSet(picked) \subseteq Found
        BY <1>1, NoneTwice DEF PickedInOrder, Fitting
      <4>2. picked \in Seq(Found)
        <5>1. picked \in Seq((DOMAIN dir) \X Nat)
          BY DEF TypeOK
        <5>2. Len(picked) \in Nat /\ picked \in [1..Len(picked) -> (DOMAIN dir) \X Nat]
          BY <5>1, LenProperties
        <5>3. \A k \in 1..Len(picked) : picked[k] \in Found
          BY <4>1, <5>2 DEF ToSet
        <5>4. picked \in [1..Len(picked) -> Found]
          BY <5>2, <5>3
        <5> QED BY <5>2, <5>4, SeqDef
      <4>3. Cardinality(Found) <= Len(picked)
        BY <2>2, <3>2, Shape DEF TypeOK
      <4> QED BY <1>2, <2>2, <4>1, <4>2, <4>3, AllPicked
    <3> QED BY <1>2, <2>2, <3>1, <3>2, Same DEF FalseMeansComplete
  <2> QED BY <2>1, <2>2 DEF TypeOK
<1> QED BY <1>4, <1>5

LEMMA GrepFound ==
  ASSUME TypeOK, Walked, endpoint = "grep", phase # "walk"
  PROVE  IsFiniteSet(Found) /\ total = Cardinality(Found)
<1>1. Reached = 1..pos-1
  BY WalkEnds DEF Walked
<1>2. Found = MatchesOf(1..pos-1)
  BY <1>1 DEF Found, MatchesOf
<1> QED BY <1>2 DEF Walked

LEMMA AtGrepDone == ASSUME SearchInv, GrepDone PROVE SearchInv'
<1>0. TypeOK /\ Walked /\ OpenIsLast /\ PickedInOrder /\ ReadAreOpened /\ NoNeedlessRead
  BY DEF SearchInv
<1>1. Opened' = Opened /\ Looked' = Looked
  BY DEF GrepDone, Opened, Looked, MatchesOf
<1>2. Looked = Found
  <2>1. Reached = 1..pos-1
    BY <1>0, WalkEnds DEF GrepDone, Walked
  <2>2. ASSUME NEW m \in Found PROVE m \in Looked
    <3>1. PICK e \in Reached : \E i \in DOMAIN dir[e].matches : m = <<e, i>>
      BY FoundIs
    <3>2. e \in Nat /\ e # 0 /\ m[1] = e /\ dir[e].matches # <<>>
      BY <1>0, <2>1, <3>1, Shape
    <3>3. e \in ToSet(perFile)
      BY <1>0, <2>1, <3>2 DEF GrepDone, Walked
    <3>4. PICK k \in DOMAIN perFile : e = perFile[k]
      BY <3>3 DEF ToSet
    <3>5. k \in 1..next-1
      <4>1. Len(perFile) \in Nat /\ DOMAIN perFile = 1..Len(perFile) /\ next \in Nat
        BY <1>0, Shape DEF TypeOK
      <4> QED BY <3>4, <4>1 DEF GrepDone
    <3>6. e \in Opened
      BY <3>4, <3>5 DEF Opened, GrepDone
    <3> QED BY <3>1, <3>2, <3>6, InMatches DEF Looked, GrepDone
  <2> QED BY <1>0, <2>2, LookedAreFound
<1>3. TypeOK' /\ Walked'
  BY <1>0 DEF GrepDone, TypeOK, Walked, Denser, MatchesOf, WalkYields, Entry, Request
<1>4. OpenIsLast' /\ ReadAreOpened'
  BY <1>0, <1>1 DEF GrepDone, OpenIsLast, ReadAreOpened
<1>5. PickedInOrder'
  BY <1>0, <1>1, Same DEF GrepDone, PickedInOrder, Sorted
<1>6. NoNeedlessRead'
  BY <1>0 DEF NoNeedlessRead, GrepDone
<1>7. AnswerIsBest' /\ FalseMeansComplete'
  BY <1>0, <1>2, GrepFound, CompleteAnswer DEF GrepDone
<1> QED BY <1>3, <1>4, <1>5, <1>6, <1>7 DEF SearchInv

LEMMA AtStructuralDone == ASSUME SearchInv, StructuralDone PROVE SearchInv'
<1>0. TypeOK /\ Walked /\ OpenIsLast /\ PickedInOrder /\ ReadAreOpened /\ NoNeedlessRead
  BY DEF SearchInv
<1>1. Opened' = Opened /\ Looked' = Looked
  BY DEF StructuralDone, Opened, Looked, MatchesOf
<1>2. Looked = Found
  <2>1. Reached = 1..pos-1
    BY <1>0, WalkEnds DEF StructuralDone
  <2>2. ASSUME NEW m \in Found PROVE m \in Looked
    <3>1. PICK e \in Reached : /\ endpoint = "structural" => ~dir[e].plain
                               /\ \E i \in DOMAIN dir[e].matches : m = <<e, i>>
      BY FoundIs
    <3>2. e \in Nat /\ e # 0 /\ m[1] = e
      BY <1>0, <2>1, <3>1, Shape
    <3>3. e \in Opened
      BY <2>1, <3>1 DEF Opened, StructuralDone
    <3> QED BY <3>1, <3>2, <3>3, InMatches DEF Looked, StructuralDone
  <2> QED BY <1>0, <2>2, LookedAreFound
<1>3. TypeOK' /\ Walked'
  BY <1>0 DEF StructuralDone, TypeOK, Walked
<1>4. OpenIsLast' /\ ReadAreOpened'
  BY <1>0, <1>1 DEF StructuralDone, OpenIsLast, ReadAreOpened
<1>5. PickedInOrder'
  BY <1>0, <1>1, Same DEF StructuralDone, PickedInOrder, Sorted
<1>6. NoNeedlessRead'
  BY <1>0 DEF NoNeedlessRead, StructuralDone
<1>7. AnswerIsBest' /\ FalseMeansComplete'
  BY <1>0, <1>2, CompleteAnswer DEF StructuralDone
<1> QED BY <1>3, <1>4, <1>5, <1>6, <1>7 DEF SearchInv

LEMMA AtEndOfMatches == ASSUME SearchInv, EndOfMatches PROVE SearchInv'
<1>0. TypeOK /\ Walked /\ OpenIsLast /\ PickedInOrder /\ ReadAreOpened /\ NoNeedlessRead
  BY DEF SearchInv
<1>1. Opened' = Opened
  BY DEF EndOfMatches, Opened
<1>2. Looked' = Looked
  <2>1. open \in DOMAIN dir
    BY <1>0, OpenedPassed DEF OpenIsLast, EndOfMatches
  <2>2. \A i \in DOMAIN dir[open].matches : i < match
    <3>1. match > Len(dir[open].matches) /\ match \in Nat
      BY <1>0 DEF EndOfMatches, TypeOK
    <3>2. Len(dir[open].matches) \in Nat /\ DOMAIN dir[open].matches = 1..Len(dir[open].matches)
      BY <1>0, <2>1, Shape
    <3> QED BY <3>1, <3>2
  <2>3. ASSUME NEW m \in MatchesOf(Opened) PROVE m[1] # 0 /\ (m[1] = open => m[2] < match)
    <3>1. PICK e \in Opened : \E i \in DOMAIN dir[e].matches : m = <<e, i>>
      BY InMatches
    <3>2. e \in Nat /\ e # 0 /\ m[1] = e /\ m[2] \in DOMAIN dir[e].matches
      BY <1>0, <3>1, OpenedPassed, Shape
    <3> QED BY <2>2, <3>2
  <2>4. MatchesOf(Opened)' = MatchesOf(Opened)
    BY <1>1 DEF MatchesOf, EndOfMatches
  <2> QED BY <2>3, <2>4 DEF Looked, EndOfMatches
<1>3. TypeOK' /\ Walked'
  BY <1>0 DEF EndOfMatches, TypeOK, Walked, Denser, MatchesOf, WalkYields, Entry, Request
<1>4. OpenIsLast' /\ ReadAreOpened'
  BY <1>0, <1>1 DEF EndOfMatches, OpenIsLast, ReadAreOpened
<1>5. PickedInOrder'
  BY <1>0, <1>2, Same DEF EndOfMatches, PickedInOrder, Sorted
<1>6. NoNeedlessRead'
  BY <1>0 DEF NoNeedlessRead, EndOfMatches
<1>7. AnswerIsBest' /\ FalseMeansComplete'
  BY DEF AnswerIsBest, FalseMeansComplete, EndOfMatches
<1> QED BY <1>3, <1>4, <1>5, <1>6, <1>7 DEF SearchInv

(* A match looked at, picked or not.                                        *)
LEMMA LookOne ==
  ASSUME TypeOK, Walked, OpenIsLast, LookAtMatch
  PROVE  /\ open \in DOMAIN dir /\ match \in DOMAIN dir[open].matches
         /\ <<open, match>> \in (DOMAIN dir) \X Nat
         /\ Opened' = Opened /\ Looked' = Looked \cup {<<open, match>>}
         /\ \A m \in Looked : Before(m, <<open, match>>)
         /\ endpoint # "taint"
<1>1. open \in Opened /\ open \in DOMAIN dir /\ match \in DOMAIN dir[open].matches
  <2>1. open \in Opened /\ open \in DOMAIN dir
    BY OpenedPassed DEF LookAtMatch, OpenIsLast
  <2>2. match \in Nat /\ match >= 1 /\ match <= Len(dir[open].matches)
    BY DEF LookAtMatch, TypeOK
  <2>3. Len(dir[open].matches) \in Nat /\ DOMAIN dir[open].matches = 1..Len(dir[open].matches)
    BY <2>1, Shape
  <2> QED BY <2>1, <2>2, <2>3
<1>2. Opened' = Opened
  BY DEF LookAtMatch, Opened
<1>3. MatchesOf(Opened)' = MatchesOf(Opened)
  BY <1>2 DEF MatchesOf, LookAtMatch
<1>4. match \in Nat
  BY DEF TypeOK
<1>5. ASSUME NEW m PROVE m \in Looked' <=> m \in Looked \/ m = <<open, match>>
  <2>1. m \in Looked' <=> m \in MatchesOf(Opened) /\ (m[1] = open => m[2] < match + 1)
    BY <1>3 DEF Looked, LookAtMatch
  <2>2. CASE m = <<open, match>>
    <3>1. m \in MatchesOf(Opened) /\ m[2] = match
      BY <1>1, <2>2, InMatches
    <3> QED BY <1>4, <2>1, <2>2, <3>1
  <2>3. CASE m # <<open, match>> /\ m \in MatchesOf(Opened)
    <3>1. PICK e \in Opened : \E i \in DOMAIN dir[e].matches : m = <<e, i>>
      BY <2>3, InMatches
    <3>2. PICK i \in DOMAIN dir[e].matches : m = <<e, i>>
      BY <3>1
    <3>3. m[1] = e /\ m[2] = i /\ i \in Nat
      BY <3>2, OpenedPassed, Shape
    <3>4. e = open => i # match
      BY <2>3, <3>2
    <3>5. (m[1] = open => m[2] < match + 1) <=> (m[1] = open => m[2] < match)
      BY <1>4, <3>3, <3>4
    <3> QED BY <2>1, <2>3, <3>5 DEF Looked
  <2> QED BY <2>1, <2>2, <2>3 DEF Looked
<1>6. ASSUME NEW m \in Looked PROVE Before(m, <<open, match>>)
  <2>1. m \in MatchesOf(Opened) /\ (m[1] = open => m[2] < match)
    BY DEF Looked
  <2>2. PICK e \in Opened : \E i \in DOMAIN dir[e].matches : m = <<e, i>>
    BY <2>1, InMatches
  <2>3. m[1] = e
    BY <2>2
  <2>4. <<open, match>>[1] = open /\ <<open, match>>[2] = match
    OBVIOUS
  <2> QED BY <2>1, <2>3, <2>4, BeforeIs DEF OpenIsLast, LookAtMatch
<1>7. endpoint # "taint"
  BY DEF Walked, LookAtMatch
<1>8. Looked' = Looked \cup {<<open, match>>}
  BY <1>5
<1> QED BY <1>1, <1>2, <1>4, <1>6, <1>7, <1>8

(* The push that makes the answer complete.                                 *)
LEMMA CutAnswer ==
  ASSUME SearchInv, LookAtMatch, Fits(open, match), phase' = "done"
  PROVE  AnswerIsBest' /\ FalseMeansComplete'
<1> DEFINE m0 == <<open, match>>
<1>0. TypeOK /\ Walked /\ OpenIsLast /\ PickedInOrder
  BY DEF SearchInv
<1>1. /\ picked' = Append(picked, m0) /\ ~(phase = "done")
      /\ UNCHANGED <<endpoint, request, dir, pos, total>>
  BY DEF LookAtMatch
<1>2. /\ m0 \in (DOMAIN dir) \X Nat /\ endpoint # "taint"
      /\ Looked' = Looked \cup {m0} /\ \A m \in Looked : Before(m, m0)
  BY <1>0, LookOne
<1>3. picked \in Seq((DOMAIN dir) \X Nat)
  BY <1>0 DEF TypeOK
<1>4. ToSet(picked) = {m \in Looked : Fits(m[1], m[2])}
  BY <1>0, <1>1 DEF PickedInOrder
<1>5. m0[1] = open /\ m0[2] = match
  OBVIOUS
<1> HIDE DEF m0
<1>6. /\ Len(picked') = Len(picked) + 1 /\ DOMAIN picked' = 1..Len(picked)+1
      /\ \A k \in DOMAIN picked : picked'[k] = picked[k]
      /\ picked'[Len(picked) + 1] = m0 /\ Last(picked') = m0
      /\ ToSet(picked') = ToSet(picked) \cup {m0}
  BY <1>1, <1>2, <1>3, AppendOne
<1>7. ToSet(picked') = {m \in Looked' : Fits(m[1], m[2])}
  BY <1>2, <1>4, <1>5, <1>6
<1>8. Looked' \subseteq Found
  <2>1. m0 \in Found
    <3>1. open \in Reached /\ (endpoint = "structural" => ~dir[open].plain)
      BY <1>0, OpenedPassed DEF OpenIsLast, LookAtMatch
    <3>2. match \in DOMAIN dir[open].matches
      BY <1>0, LookOne
    <3> QED BY <3>1, <3>2, FoundIs DEF m0
  <2> QED BY <1>0, <1>2, <2>1, LookedAreFound
<1>9. Range(picked') = ToSet(picked')
  BY DEF Range, ToSet
<1>10. (Len(picked') >= request.max_results) /\ (picked = <<>> \/ Len(picked) < request.max_results)
  BY <1>0, <1>1, <1>2 DEF PickedInOrder, Enough, LookAtMatch, Walked, TypeOK
<1>11. request.max_results > 0 => Len(picked') = request.max_results
  BY <1>0, <1>6, <1>10, Shape, EmptySeq
<1>12. \A m \in Fitting \ ToSet(picked') : Before(m0, m)
  <2>1. ASSUME NEW m \in Fitting, m \notin ToSet(picked') PROVE Before(m0, m)
    <3>1. m \in Found /\ m \notin Looked' /\ m # m0 /\ m \notin Looked
      BY <1>2, <1>6, <1>7, <2>1 DEF Fitting
    <3>2. open # 0
      BY DEF LookAtMatch
    <3> QED BY <1>0, <3>1, <3>2, LaterIs DEF m0
  <2> QED BY <2>1
<1>13. Sorted'
  <2>1. \A j \in DOMAIN picked : picked[j] \in Looked
    BY <1>4 DEF ToSet
  <2>2. ASSUME NEW j \in DOMAIN picked', NEW k \in DOMAIN picked', j < k
        PROVE  Before(picked'[j], picked'[k])
    <3>1. DOMAIN picked = 1..Len(picked) /\ Len(picked) \in Nat
      BY <1>3
    <3>2. j \in DOMAIN picked /\ (k \in DOMAIN picked \/ k = Len(picked) + 1)
      BY <1>6, <2>2, <3>1
    <3>3. CASE k \in DOMAIN picked
      BY <1>0, <1>6, <2>2, <3>2, <3>3 DEF PickedInOrder, Sorted
    <3>4. CASE k = Len(picked) + 1
      BY <1>2, <1>6, <2>1, <3>2, <3>4
    <3> QED BY <3>2, <3>3, <3>4
  <2>3. ASSUME NEW j \in DOMAIN picked', NEW k \in DOMAIN picked', j < k
        PROVE  (\A m, n : Before(m, n)' <=> Before(m, n)) /\ Before(picked'[j], picked'[k])
    BY <1>1, <2>2, <2>3, Same
  <2> QED BY <2>3 DEF Sorted
<1>14. AnswerIsBest'
  <2>1. Range(picked') \subseteq Fitting
    BY <1>7, <1>8, <1>9 DEF Fitting
  <2>2. ASSUME request.max_results > 0
        PROVE  \A m \in Fitting \ Range(picked') : Before(Last(picked'), m)
    BY <1>6, <1>9, <1>12
  <2>3. Fitting' = Fitting /\ (\A m, n : Before(m, n)' <=> Before(m, n)) /\ Range(picked)' = Range(picked')
    BY <1>1, Same DEF Range
  <2>4. Len(picked') \in Nat /\ Len(picked)' = Len(picked')
    BY <1>3, <1>6
  <2> QED BY <1>1, <1>11, <1>13, <2>1, <2>2, <2>3, <2>4 DEF AnswerIsBest, Sorted
<1>15. FalseMeansComplete'
  <2>1. CASE endpoint = "structural"
    BY <1>1, <1>10, <2>1 DEF FalseMeansComplete, Truncated, TotalMatches
  <2>2. CASE endpoint = "grep"
    <3>1. IsFiniteSet(Found) /\ total = Cardinality(Found)
      BY <1>0, <2>2, GrepFound DEF Walked, LookAtMatch
    <3>2. ASSUME ~(total > Len(picked')) PROVE Range(picked') = Found
      <4>1. ToSet(picked') \subseteq Found
        BY <1>7, <1>8
      <4>2. picked' \in Seq((DOMAIN dir) \X Nat)
        BY <1>1, <1>2, <1>3, AppendOne
      <4>3. picked' \in Seq(Found)
        BY <4>1, <4>2 DEF ToSet
      <4>4. IsInjective(picked')
        <5>1. IsInjective(picked)
          BY <1>0, NoneTwice DEF PickedInOrder
        <5>2. m0 \notin ToSet(picked)
          <6>1. m0 \notin Looked
            BY <1>0, <1>5 DEF Looked, TypeOK
          <6> QED BY <1>4, <6>1
        <5> QED BY <1>1, <1>2, <1>3, <5>1, <5>2, AppendOne
      <4>5. Cardinality(Found) <= Len(picked')
        BY <1>0, <1>3, <1>6, <3>1, <3>2 DEF TypeOK
      <4> QED BY <1>9, <3>1, <4>3, <4>4, <4>5, AllPicked
    <3>3. Truncated' <=> total > Len(picked')
      BY <1>1, <2>2 DEF Truncated, TotalMatches
    <3>4. Found' = Found /\ Range(picked)' = Range(picked')
      BY <1>1, Same DEF Range
    <3> QED BY <1>1, <2>2, <3>2, <3>3, <3>4 DEF FalseMeansComplete
  <2> QED BY <1>0, <1>2, <2>1, <2>2 DEF TypeOK
<1> QED BY <1>14, <1>15

LEMMA AtLookAtMatch == ASSUME SearchInv, LookAtMatch PROVE SearchInv'
<1> DEFINE m0 == <<open, match>>
<1>0. TypeOK /\ Walked /\ OpenIsLast /\ PickedInOrder /\ ReadAreOpened /\ NoNeedlessRead
  BY DEF SearchInv
<1>1. UNCHANGED <<endpoint, request, dir, pos, perFile, next, open, total, read>> /\ open # 0
  BY DEF LookAtMatch
<1>2. /\ m0 \in (DOMAIN dir) \X Nat /\ endpoint # "taint"
      /\ Opened' = Opened /\ Looked' = Looked \cup {m0} /\ \A m \in Looked : Before(m, m0)
  BY <1>0, LookOne
<1>3. picked \in Seq((DOMAIN dir) \X Nat)
  BY <1>0 DEF TypeOK
<1>4. ToSet(picked) = {m \in Looked : Fits(m[1], m[2])}
  BY <1>0, <1>2 DEF PickedInOrder
<1>5. m0[1] = open /\ m0[2] = match
  OBVIOUS
<1>6. \/ ~Fits(open, match) /\ UNCHANGED <<picked, phase>>
      \/ /\ Fits(open, match) /\ picked' = Append(picked, m0)
         /\ phase' = IF Len(picked') >= request.max_results THEN "done" ELSE phase
  BY DEF LookAtMatch
<1> HIDE DEF m0
<1>7. /\ Len(Append(picked, m0)) = Len(picked) + 1 /\ DOMAIN Append(picked, m0) = 1..Len(picked)+1
      /\ \A k \in DOMAIN picked : Append(picked, m0)[k] = picked[k]
      /\ Append(picked, m0)[Len(picked) + 1] = m0
      /\ ToSet(Append(picked, m0)) = ToSet(picked) \cup {m0}
      /\ Append(picked, m0) \in Seq((DOMAIN dir) \X Nat)
  BY <1>2, <1>3, AppendOne
<1>8. DOMAIN picked = 1..Len(picked) /\ Len(picked) \in Nat
  BY <1>3
<1>9. TypeOK'
  <2>1. picked' \in Seq((DOMAIN dir) \X Nat)
    BY <1>3, <1>6, <1>7
  <2>2. match' \in Nat \ {0}
    BY <1>0 DEF TypeOK, LookAtMatch
  <2>3. phase' \in {"walk", "pick", "done"}
    BY <1>0, <1>6 DEF TypeOK
  <2> QED BY <1>0, <1>1, <2>1, <2>2, <2>3 DEF TypeOK, Request, Entry
<1>10. Walked'
  <2>1. endpoint = "grep" => phase # "walk" /\ phase' # "walk"
    BY <1>0, <1>1, <1>6 DEF Walked
  <2>2. endpoint = "structural" => phase' # "pick"
    BY <1>0, <1>6 DEF Walked
  <2> QED BY <1>0, <1>1, <1>2, <2>1, <2>2, Same DEF Walked, WalkYields
<1>11. OpenIsLast' /\ ReadAreOpened'
  BY <1>0, <1>1, <1>2, Same DEF OpenIsLast, ReadAreOpened
<1>12. PickedInOrder'
  <2>1. ToSet(picked)' = {m \in Looked' : Fits(m[1], m[2])}
    <3>1. CASE Fits(open, match) /\ picked' = Append(picked, m0)
      BY <1>2, <1>4, <1>5, <1>7, <3>1
    <3>2. CASE ~Fits(open, match) /\ picked' = picked
      BY <1>2, <1>4, <1>5, <3>2
    <3> QED BY <1>6, <3>1, <3>2
  <2>2. Sorted'
    <3>1. CASE picked' = Append(picked, m0)
      <4>1. \A j \in DOMAIN picked : picked[j] \in Looked
        BY <1>4 DEF ToSet
      <4>2. ASSUME NEW j \in DOMAIN picked', NEW k \in DOMAIN picked', j < k
            PROVE  Before(picked'[j], picked'[k])
        <5>1. j \in DOMAIN picked /\ (k \in DOMAIN picked \/ k = Len(picked) + 1)
          BY <1>7, <1>8, <3>1, <4>2
        <5>2. CASE k \in DOMAIN picked
          BY <1>0, <1>7, <3>1, <4>2, <5>1, <5>2 DEF PickedInOrder, Sorted
        <5>3. CASE k = Len(picked) + 1
          BY <1>2, <1>7, <3>1, <4>1, <5>1, <5>3
        <5> QED BY <5>1, <5>2, <5>3
      <4>3. \A m, n : Before(m, n)' <=> Before(m, n)
        BY <1>1, Same
      <4> QED BY <4>2, <4>3 DEF Sorted
    <3>2. CASE picked' = picked
      BY <1>0, <1>1, <3>2, Same DEF PickedInOrder, Sorted
    <3> QED BY <1>6, <3>1, <3>2
  <2>3. phase' # "done" => picked' = <<>> \/ Len(picked') < Enough
    <3>1. phase # "done" /\ (phase = "pick" => endpoint = "grep") /\ Enough = request.max_results
      BY <1>0, <1>2 DEF LookAtMatch, Walked, TypeOK, Enough
    <3>2. picked = <<>> \/ Len(picked) < Enough
      BY <1>0, <3>1 DEF PickedInOrder, TypeOK
    <3>3. CASE phase' # "done" /\ picked' = Append(picked, m0)
      <4>1. ~(Len(picked') >= request.max_results)
        BY <1>1, <1>6, <3>3 DEF LookAtMatch
      <4>2. Len(picked') \in Nat /\ request.max_results \in Nat
        BY <1>0, <1>7, <1>8, <3>3, Shape
      <4> QED BY <3>1, <4>1, <4>2
    <3> QED BY <1>6, <3>2, <3>3
  <2>4. /\ \A e, i : Fits(e, i)' <=> Fits(e, i)
        /\ Enough' = Enough
    BY <1>1, Same
  <2> QED BY <1>1, <1>2, <2>1, <2>2, <2>3, <2>4 DEF PickedInOrder
<1>13. NoNeedlessRead'
  <2>1. Earlier' = Earlier
    <3>1. CASE picked' = Append(picked, m0)
      <4>1. read # <<>> => m0[1] = Last(read)
        BY <1>0, <1>1, <1>5 DEF ReadAreOpened
      <4>2. DOMAIN picked' = DOMAIN picked \cup {Len(picked) + 1}
        BY <1>7, <1>8, <3>1
      <4>3. \A k \in DOMAIN picked : picked'[k] = picked[k]
        BY <1>7, <3>1
      <4>4. picked'[Len(picked) + 1] = m0
        BY <1>7, <3>1
      <4>5. Earlier' = {k \in DOMAIN picked' : read # <<>> /\ picked'[k][1] # Last(read)}
        BY <1>1 DEF Earlier
      <4> QED BY <4>1, <4>2, <4>3, <4>4, <4>5 DEF Earlier
    <3>2. CASE picked' = picked
      BY <1>1, <3>2 DEF Earlier
    <3> QED BY <1>6, <3>1, <3>2
  <2>2. IsInjective(read) /\ Cardinality(Earlier) < Max({1, Enough})
    BY <1>0, NeedlessIs
  <2>3. Enough' = Enough
    BY <1>1, Same
  <2> QED BY <1>1, <2>1, <2>2, <2>3 DEF NoNeedlessRead, Earlier, Enough
<1>14. AnswerIsBest' /\ FalseMeansComplete'
  <2>1. CASE phase' = "done"
    <3>1. Fits(open, match)
      BY <1>6, <2>1 DEF LookAtMatch
    <3> QED BY <2>1, <3>1, CutAnswer
  <2>2. CASE phase' # "done"
    BY <2>2 DEF AnswerIsBest, FalseMeansComplete
  <2> QED BY <2>1, <2>2
<1> QED BY <1>9, <1>10, <1>11, <1>12, <1>13, <1>14 DEF SearchInv

LEMMA AtGrepFile == ASSUME SearchInv, GrepFile PROVE SearchInv'
<1>0. TypeOK /\ Walked /\ OpenIsLast /\ PickedInOrder /\ ReadAreOpened /\ NoNeedlessRead
  BY DEF SearchInv
<1>1. next = 1 /\ open = 0 /\ endpoint = "grep" /\ phase = "walk"
  BY <1>0 DEF GrepFile, Walked
<1>2. /\ pos \in DOMAIN dir /\ pos \in Nat /\ pos' = pos + 1 /\ ~dir[pos].error
      /\ pos <= request.max_files
      /\ Len(dir[pos].matches) \in Nat /\ DOMAIN dir[pos].matches = 1..Len(dir[pos].matches)
  BY <1>0, Shape DEF GrepFile, WalkYields
<1>3. Opened = {} /\ Opened' = {} /\ Looked = {} /\ Looked' = {}
  BY <1>1 DEF GrepFile, Opened, Looked, MatchesOf
<1>4. 1..pos'-1 = (1..pos-1) \cup {pos}
  BY <1>2
<1>5. /\ perFile' \in Seq(DOMAIN dir)
      /\ ToSet(perFile') = {e \in 1..pos'-1 : dir[e].matches # <<>>}
  <2>1. perFile \in Seq(DOMAIN dir) /\ ToSet(perFile) = {e \in 1..pos-1 : dir[e].matches # <<>>}
    BY <1>0, <1>1 DEF TypeOK, Walked
  <2>2. Append(perFile, pos) \in Seq(DOMAIN dir) /\ ToSet(Append(perFile, pos)) = ToSet(perFile) \cup {pos}
    BY <1>2, <2>1, AppendOne
  <2>3. CASE dir[pos].matches = <<>>
    BY <1>4, <2>1, <2>3 DEF GrepFile
  <2>4. CASE dir[pos].matches # <<>>
    BY <1>4, <2>1, <2>2, <2>4 DEF GrepFile
  <2> QED BY <2>3, <2>4
<1>6. /\ IsFiniteSet(MatchesOf(1..pos'-1))
      /\ Cardinality(MatchesOf(1..pos'-1)) = total + Len(dir[pos].matches)
  <2> DEFINE n == Len(dir[pos].matches)
             added == {pos} \X (1..n)
  <2>1. n \in Nat /\ total \in Nat
    BY <1>0, <1>2 DEF TypeOK
  <2>2. IsFiniteSet(MatchesOf(1..pos-1)) /\ Cardinality(MatchesOf(1..pos-1)) = total
    BY <1>0, <1>1 DEF Walked
  <2>3. MatchesOf(1..pos'-1) = MatchesOf(1..pos-1) \cup added
    BY <1>2, <1>4 DEF MatchesOf
  <2>4. MatchesOf(1..pos-1) \cap added = {}
    <3>1. \A m \in added : m[1] = pos
      OBVIOUS
    <3>2. \A m \in MatchesOf(1..pos-1) : m[1] \in 1..pos-1
      BY MatchIn
    <3> QED BY <1>2, <3>1, <3>2
  <2> HIDE DEF n
  <2>5. IsFiniteSet(1..n) /\ Cardinality(1..n) = n
    <3>1. 1 \in Int /\ n \in Int /\ (1 > n => n = 0) /\ n - 1 + 1 = n
      BY <2>1
    <3> QED BY <3>1, FS_Interval
  <2>6. IsFiniteSet(added) /\ Cardinality(added) = n
    <3>1. IsFiniteSet({pos}) /\ Cardinality({pos}) = 1
      BY FS_Singleton
    <3>2. 1 * n = n
      BY <2>1
    <3>3. /\ IsFiniteSet({pos} \X (1..n))
          /\ Cardinality({pos} \X (1..n)) = Cardinality({pos}) * Cardinality(1..n)
      BY <2>5, <3>1, FS_Product
    <3> QED BY <2>5, <3>1, <3>2, <3>3
  <2> HIDE DEF added
  <2>7. Cardinality({}) = 0
    BY FS_EmptySet
  <2>8. /\ IsFiniteSet(MatchesOf(1..pos-1) \cup added)
        /\ Cardinality(MatchesOf(1..pos-1) \cup added) = total + n - 0
    <3> DEFINE before == MatchesOf(1..pos-1)
    <3>1. /\ IsFiniteSet(before) /\ Cardinality(before) = total /\ before \cap added = {}
          /\ IsFiniteSet(added) /\ Cardinality(added) = n
      BY <2>2, <2>4, <2>6
    <3> HIDE DEF before
    <3>2. /\ IsFiniteSet(before \cup added)
          /\ Cardinality(before \cup added)
               = Cardinality(before) + Cardinality(added) - Cardinality(before \cap added)
      BY ONLY <3>1, FS_Union
    <3>3. Cardinality(before \cup added) = total + n - 0
      BY ONLY <2>7, <3>1, <3>2
    <3> QED BY <3>2, <3>3 DEF before
  <2>9. total + n - 0 = total + n
    BY <2>1
  <2> QED BY <2>3, <2>8, <2>9 DEF n
<1>7. TypeOK'
  <2>1. pos' \in 1..Len(dir)+1 /\ pos' <= request.max_files + 1
    BY <1>0, <1>2, Shape
  <2>2. total' \in Nat
    BY <1>0, <1>2 DEF TypeOK, GrepFile
  <2>3. next \in 1..Len(perFile')+1
    BY <1>1, <1>5
  <2> QED BY <1>0, <1>5, <2>1, <2>2, <2>3 DEF TypeOK, GrepFile, Request, Entry
<1>8. Walked'
  <2>1. \A d \in 1..pos'-1 : ~dir[d].error
    BY <1>0, <1>2, <1>4 DEF Walked
  <2>2. \A S : MatchesOf(S)' = MatchesOf(S)
    BY Same DEF GrepFile
  <2>3. total' = Cardinality(MatchesOf(1..pos'-1)) /\ IsFiniteSet(MatchesOf(1..pos'-1))
    BY <1>6 DEF GrepFile
  <2>4. MatchesOf(1..pos-1)' = MatchesOf(1..pos'-1)
    BY DEF MatchesOf, GrepFile
  <2>5. UNCHANGED <<endpoint, dir, next, open, phase>>
    BY DEF GrepFile
  <2> QED BY <1>1, <1>5, <2>1, <2>3, <2>4, <2>5 DEF Walked, ToSet
<1>9. OpenIsLast' /\ ReadAreOpened'
  BY <1>0, <1>1, <1>3 DEF GrepFile, OpenIsLast, ReadAreOpened
<1>10. PickedInOrder'
  BY <1>0, <1>3, Same DEF GrepFile, PickedInOrder, Sorted
<1>11. NoNeedlessRead'
  BY <1>0 DEF NoNeedlessRead, GrepFile
<1>12. AnswerIsBest' /\ FalseMeansComplete'
  BY DEF AnswerIsBest, FalseMeansComplete, GrepFile
<1> QED BY <1>7, <1>8, <1>9, <1>10, <1>11, <1>12 DEF SearchInv

LEMMA AtGrepRank == ASSUME SearchInv, GrepRank PROVE SearchInv'
<1>0. TypeOK /\ Walked /\ OpenIsLast /\ PickedInOrder /\ ReadAreOpened /\ NoNeedlessRead
  BY DEF SearchInv
<1>1. next = 1 /\ open = 0 /\ endpoint = "grep" /\ phase = "walk"
  BY <1>0 DEF GrepRank, Walked
<1>2. PICK ranked \in SetToSeqs(ToSet(perFile)) :
        /\ \A j, k \in DOMAIN ranked : j < k => Denser(ranked[j], ranked[k])
        /\ perFile' = ranked
  BY DEF GrepRank
<1>3. ToSet(perFile) = {e \in 1..pos-1 : dir[e].matches # <<>>}
  BY <1>0, <1>1 DEF Walked
<1>4. IsFiniteSet(ToSet(perFile))
  <2>1. pos - 1 \in Int /\ 1 \in Int
    BY <1>0, Shape
  <2>2. IsFiniteSet(1..pos-1) /\ ToSet(perFile) \in SUBSET (1..pos-1)
    BY <1>3, <2>1, FS_Interval
  <2> QED BY <2>2, FS_Subset
<1>5. perFile' \in Seq(ToSet(perFile)) /\ ToSet(perFile') = ToSet(perFile)
  BY <1>2, <1>4, SetToSeqsLists
<1>6. perFile' \in Seq(DOMAIN dir)
  <2>1. ToSet(perFile) \subseteq DOMAIN dir
    BY <1>0, <1>3, Shape
  <2> QED BY <1>5, <2>1, SeqMonotonic
<1>7. UNCHANGED <<endpoint, request, dir, pos, next, open, match, picked, total, read>> /\ phase' = "pick"
  BY DEF GrepRank
<1>8. Opened = {} /\ Opened' = {} /\ Looked = {} /\ Looked' = {}
  BY <1>1, <1>7 DEF Opened, Looked, MatchesOf
<1>9. TypeOK'
  <2>1. next \in 1..Len(perFile')+1
    BY <1>1, <1>6
  <2> QED BY <1>0, <1>6, <1>7, <2>1 DEF TypeOK, Request, Entry
<1>10. Walked'
  <2>1. \A j, k \in DOMAIN perFile' : j < k => Denser(perFile'[j], perFile'[k])
    BY <1>2
  <2>2. ~WalkYields'
    BY <1>7 DEF GrepRank, WalkYields
  <2>3. \A a, b : Denser(a, b)' <=> Denser(a, b)
    BY <1>7, Same
  <2>4. ToSet(perFile)' = {e \in 1..pos-1 : dir[e].matches # <<>>}
    BY <1>3, <1>5 DEF ToSet
  <2>5. MatchesOf(1..pos-1)' = MatchesOf(1..pos-1)
    BY <1>7 DEF MatchesOf
  <2> QED BY <1>0, <1>1, <1>7, <2>1, <2>2, <2>3, <2>4, <2>5 DEF Walked
<1>11. OpenIsLast' /\ ReadAreOpened'
  BY <1>0, <1>1, <1>7, <1>8 DEF OpenIsLast, ReadAreOpened
<1>12. PickedInOrder'
  BY <1>0, <1>1, <1>7, <1>8, Same DEF PickedInOrder, Sorted
<1>13. NoNeedlessRead'
  BY <1>0, <1>7 DEF NoNeedlessRead
<1>14. AnswerIsBest' /\ FalseMeansComplete'
  BY <1>7 DEF AnswerIsBest, FalseMeansComplete
<1> QED BY <1>9, <1>10, <1>11, <1>12, <1>13, <1>14 DEF SearchInv

LEMMA AtGrepOpen == ASSUME SearchInv, GrepOpen PROVE SearchInv'
<1> DEFINE f == perFile[next]
<1>0. TypeOK /\ Walked /\ OpenIsLast /\ PickedInOrder /\ ReadAreOpened /\ NoNeedlessRead
  BY DEF SearchInv
<1>1. /\ endpoint = "grep" /\ phase = "pick" /\ open = 0 /\ open' = f /\ match' = 1
      /\ next' = next + 1 /\ UNCHANGED <<endpoint, request, dir, pos, perFile, picked, total, phase>>
      /\ read' = IF request.expand THEN Append(read, f) ELSE read
  BY DEF GrepOpen
<1>2. /\ next \in DOMAIN perFile /\ next \in Nat /\ Len(perFile) \in Nat
      /\ DOMAIN perFile = 1..Len(perFile)
  BY <1>0, Shape DEF GrepOpen, TypeOK
<1>3. f \in DOMAIN dir
  BY <1>0, <1>2 DEF TypeOK
<1>4. \A j \in 1..next-1 : Denser(perFile[j], f)
  <2>1. \A j \in 1..next-1 : j \in DOMAIN perFile /\ j < next
    BY <1>2
  <2> QED BY <1>0, <1>1, <1>2, <2>1 DEF Walked
<1>5. ~Denser(f, f)
  <2>1. Len(dir[f].matches) \in Nat /\ f \in Nat
    BY <1>0, <1>3, Shape
  <2> QED BY <2>1 DEF Denser
<1> HIDE DEF f
<1>6. f \notin Opened /\ \A e \in Opened : FileBefore(e, f)
  <2>1. \A e \in Opened : Denser(e, f)
    BY <1>1, <1>4 DEF Opened
  <2> QED BY <1>1, <1>5, <2>1 DEF FileBefore
<1>7. Opened' = Opened \cup {f}
  <2>1. 1..next'-1 = (1..next-1) \cup {next}
    BY <1>1, <1>2
  <2> QED BY <1>1, <2>1 DEF Opened, f
<1>8. \/ read' = Append(read, f) /\ ~(endpoint = "grep" /\ ~request.expand)
      \/ read' = <<>>
  BY <1>0, <1>1 DEF ReadAreOpened
<1>9. UNCHANGED <<endpoint, request, dir, picked, phase>>
  BY <1>1
<1>10. /\ OpenIsLast' /\ PickedInOrder' /\ ReadAreOpened'
       /\ NoNeedlessRead' /\ AnswerIsBest' /\ FalseMeansComplete'
  BY <1>1, <1>3, <1>6, <1>7, <1>8, <1>9, OpenOne
<1>11. TypeOK'
  <2>1. read' \in Seq(DOMAIN dir)
    BY <1>0, <1>1, <1>3, AppendOne DEF TypeOK
  <2>2. next' \in 1..Len(perFile)+1
    BY <1>1, <1>2
  <2>3. open' \in 0..Len(dir)
    BY <1>0, <1>1, <1>3, Shape
  <2> QED BY <1>0, <1>1, <2>1, <2>2, <2>3 DEF TypeOK, Request, Entry
<1>12. Walked'
  BY <1>0, <1>1, Same DEF Walked, WalkYields
<1> QED BY <1>10, <1>11, <1>12 DEF SearchInv

LEMMA AtStructuralOpen == ASSUME SearchInv, StructuralOpen PROVE SearchInv'
<1>0. TypeOK /\ Walked /\ OpenIsLast /\ PickedInOrder /\ ReadAreOpened /\ NoNeedlessRead
  BY DEF SearchInv
<1>1. /\ endpoint = "structural" /\ phase = "walk" /\ open = 0 /\ pos' = pos + 1
      /\ UNCHANGED <<endpoint, request, dir, perFile, next, picked, total, phase>>
  BY DEF StructuralOpen
<1>2. pos \in DOMAIN dir /\ pos \in Nat /\ pos >= 1 /\ ~dir[pos].error /\ pos <= request.max_files
  BY <1>0, Shape DEF StructuralOpen, WalkYields
<1>3. 1..pos'-1 = (1..pos-1) \cup {pos}
  BY <1>1, <1>2
<1>4. Walked'
  <2>1. \A d \in 1..pos'-1 : ~dir[d].error
    BY <1>0, <1>2, <1>3 DEF Walked
  <2> QED BY <1>0, <1>1, <2>1 DEF Walked
<1>5. pos' \in 1..Len(dir)+1 /\ pos' <= request.max_files + 1
  BY <1>0, <1>1, <1>2, Shape
<1>6. CASE dir[pos].plain
  <2>1. UNCHANGED <<open, match, read>>
    BY <1>6 DEF StructuralOpen
  <2>2. Opened' = Opened
    BY <1>1, <1>3, <1>6 DEF Opened
  <2>3. Looked' = Looked
    BY <1>1, <2>1, <2>2 DEF Looked, MatchesOf
  <2>4. TypeOK'
    BY <1>0, <1>1, <1>5, <2>1 DEF TypeOK, Request, Entry
  <2>5. OpenIsLast' /\ ReadAreOpened'
    BY <1>0, <1>1, <2>1, <2>2 DEF OpenIsLast, ReadAreOpened
  <2>6. PickedInOrder'
    BY <1>0, <1>1, <2>3, Same DEF PickedInOrder, Sorted
  <2>7. NoNeedlessRead'
    BY <1>0, <1>1, <2>1 DEF NoNeedlessRead
  <2>8. AnswerIsBest' /\ FalseMeansComplete'
    BY <1>1 DEF AnswerIsBest, FalseMeansComplete
  <2> QED BY <1>4, <2>4, <2>5, <2>6, <2>7, <2>8 DEF SearchInv
<1>7. CASE ~dir[pos].plain
  <2>1. open' = pos /\ match' = 1 /\ read' = Append(read, pos)
    BY <1>7 DEF StructuralOpen
  <2>2. Opened' = Opened \cup {pos}
    BY <1>1, <1>3, <1>7 DEF Opened
  <2>3. pos \notin Opened /\ \A e \in Opened : FileBefore(e, pos)
    BY <1>1, <1>2 DEF Opened, FileBefore
  <2>4. UNCHANGED <<endpoint, request, dir, picked, phase>> /\ ~(endpoint = "grep" /\ ~request.expand)
    BY <1>1
  <2>5. /\ OpenIsLast' /\ PickedInOrder' /\ ReadAreOpened'
        /\ NoNeedlessRead' /\ AnswerIsBest' /\ FalseMeansComplete'
    BY <1>1, <1>2, <2>1, <2>2, <2>3, <2>4, OpenOne
  <2>6. TypeOK'
    <3>1. read' \in Seq(DOMAIN dir)
      BY <1>0, <1>2, <2>1, AppendOne DEF TypeOK
    <3>2. open' \in 0..Len(dir)
      BY <1>0, <1>2, <2>1, Shape
    <3> QED BY <1>0, <1>1, <1>5, <2>1, <3>1, <3>2 DEF TypeOK, Request, Entry
  <2> QED BY <1>4, <2>5, <2>6 DEF SearchInv
<1> QED BY <1>6, <1>7

(* For the taint analysis every match fits, and all of a file are kept.      *)
LEMMA TaintLooked ==
  ASSUME TypeOK, Walked, endpoint = "taint"
  PROVE  Opened = 1..pos-1 /\ Looked = MatchesOf(1..pos-1)
<1>1. Opened = 1..pos-1
  BY Shape DEF Opened, Walked
<1>2. ASSUME NEW m \in MatchesOf(Opened) PROVE m[1] # open
  <2>1. PICK e \in Opened : \E i \in DOMAIN dir[e].matches : m = <<e, i>>
    BY InMatches
  <2> QED BY <1>1, <2>1, Shape DEF Walked
<1> QED BY <1>1, <1>2 DEF Looked

LEMMA TaintFits ==
  ASSUME Walked, endpoint = "taint", NEW e \in DOMAIN dir, NEW i
  PROVE  Fits(e, i)
BY DEF Walked, Fits, TooLarge

LEMMA AtTaintFile == ASSUME SearchInv, TaintFile PROVE SearchInv'
<1> DEFINE n == Len(dir[pos].matches)
           new == [i \in 1..n |-> <<pos, i>>]
<1>0. TypeOK /\ Walked /\ OpenIsLast /\ PickedInOrder /\ ReadAreOpened /\ NoNeedlessRead
  BY DEF SearchInv
<1>1. /\ endpoint = "taint" /\ phase = "walk" /\ open = 0 /\ pos' = pos + 1 /\ read' = Append(read, pos)
      /\ phase' = IF Len(picked') >= 5 * request.max_results THEN "pick" ELSE "walk"
      /\ UNCHANGED <<endpoint, request, dir, perFile, next, open, match, total>>
  BY <1>0 DEF TaintFile, Walked
<1>2. /\ pos \in DOMAIN dir /\ pos \in Nat /\ pos >= 1 /\ ~dir[pos].error /\ pos <= request.max_files
      /\ n \in Nat /\ DOMAIN dir[pos].matches = 1..n
  BY <1>0, Shape DEF TaintFile, WalkYields
<1>3. 1..pos'-1 = (1..pos-1) \cup {pos}
  BY <1>1, <1>2
<1>4. picked' = picked \o new
  BY <1>2 DEF TaintFile
<1>5. picked \in Seq((DOMAIN dir) \X Nat) /\ DOMAIN picked = 1..Len(picked) /\ Len(picked) \in Nat
  BY <1>0, Shape DEF TypeOK
<1>6. /\ new \in Seq((DOMAIN dir) \X Nat) /\ Len(new) = n
      /\ \A i \in 1..n : new[i] = <<pos, i>>
  <2> HIDE DEF n
  <2>1. \A i \in 1..n : <<pos, i>> \in (DOMAIN dir) \X Nat
    BY <1>2
  <2>2. new \in [1..n -> (DOMAIN dir) \X Nat]
    BY <2>1
  <2> HIDE DEF new
  <2>3. new \in Seq((DOMAIN dir) \X Nat)
    BY <1>2, <2>2, SeqDef
  <2>4. Len(new) = n
    BY <1>2, <2>2, <2>3, LenProperties
  <2> QED BY <2>3, <2>4 DEF new
<1> HIDE DEF new, n
<1>7. /\ picked' \in Seq((DOMAIN dir) \X Nat) /\ Len(picked') = Len(picked) + n
      /\ DOMAIN picked' = 1..Len(picked)+n
      /\ \A k \in DOMAIN picked : k \in DOMAIN picked' /\ picked'[k] = picked[k]
      /\ \A i \in 1..n : Len(picked) + i \in DOMAIN picked' /\ picked'[Len(picked) + i] = <<pos, i>>
  <2>1. /\ picked \o new \in Seq((DOMAIN dir) \X Nat) /\ Len(picked \o new) = Len(picked) + n
        /\ \A i \in 1..Len(picked)+n :
             (picked \o new)[i] = IF i <= Len(picked) THEN picked[i] ELSE new[i - Len(picked)]
    BY <1>5, <1>6, ConcatProperties
  <2>2. DOMAIN picked' = 1..Len(picked)+n
    BY <1>4, <2>1
  <2>3. ASSUME NEW k \in DOMAIN picked PROVE k \in DOMAIN picked' /\ picked'[k] = picked[k]
    BY <1>2, <1>4, <1>5, <2>1, <2>2
  <2>4. ASSUME NEW i \in 1..n
        PROVE  Len(picked) + i \in DOMAIN picked' /\ picked'[Len(picked) + i] = <<pos, i>>
    <3>1. /\ Len(picked) + i \in 1..Len(picked)+n /\ ~(Len(picked) + i <= Len(picked))
          /\ Len(picked) + i - Len(picked) = i
      BY <1>2, <1>5
    <3> QED BY <1>4, <1>6, <2>1, <2>2, <3>1
  <2> QED BY <1>4, <2>1, <2>2, <2>3, <2>4
<1>8. ASSUME NEW k \in DOMAIN picked', k \notin DOMAIN picked
      PROVE  \E i \in 1..n : k = Len(picked) + i /\ picked'[k] = <<pos, i>>
  <2>1. k - Len(picked) \in 1..n /\ Len(picked) + (k - Len(picked)) = k
    BY <1>2, <1>5, <1>7, <1>8
  <2> QED BY <1>7, <2>1
<1>9. TypeOK'
  <2>1. pos' \in 1..Len(dir)+1 /\ pos' <= request.max_files + 1
    <3>1. /\ Len(dir) \in Nat /\ pos \in Nat /\ pos <= Len(dir) /\ pos' = pos + 1
          /\ request.max_files \in Nat /\ pos <= request.max_files
      BY <1>0, <1>1, <1>2, Shape
    <3> QED BY ONLY <3>1
  <2>2. read' \in Seq(DOMAIN dir)
    BY <1>0, <1>1, <1>2, AppendOne DEF TypeOK
  <2> QED BY <1>0, <1>1, <1>7, <2>1, <2>2 DEF TypeOK, Request, Entry
<1>10. Walked'
  <2>1. \A d \in 1..pos'-1 : ~dir[d].error
    BY <1>0, <1>2, <1>3 DEF Walked
  <2> QED BY <1>0, <1>1, <2>1 DEF Walked
<1>11. /\ Opened = 1..pos-1 /\ Looked = MatchesOf(1..pos-1)
       /\ Opened' = Opened \cup {pos}
  <2>1. Opened = 1..pos-1 /\ Looked = MatchesOf(1..pos-1)
    BY <1>0, <1>1, TaintLooked
  <2>2. 1..pos-1 \subseteq DOMAIN dir /\ \A e \in DOMAIN dir : ~dir[e].plain
    BY <1>0, <1>1, Shape DEF Walked
  <2>3. Opened' = {e \in (1..pos-1) \cup {pos} : ~dir[e].plain}
    BY <1>1, <1>3 DEF Opened
  <2> QED BY <1>2, <2>1, <2>2, <2>3
<1>12. Looked' = Looked \cup {<<pos, i>> : i \in 1..n}
  <2>1. Looked' = {m \in MatchesOf(Opened)' : m[1] = open' => m[2] < match'}
    BY DEF Looked
  <2>2. MatchesOf(Opened)' = MatchesOf((1..pos-1) \cup {pos})
    BY <1>1, <1>11 DEF MatchesOf
  <2>4. \A m \in MatchesOf((1..pos-1) \cup {pos}) : m[1] # 0
    <3>1. ASSUME NEW m \in MatchesOf((1..pos-1) \cup {pos}) PROVE m[1] # 0
      <4>1. PICK e \in (1..pos-1) \cup {pos} : m \in {e} \X (DOMAIN dir[e].matches)
        BY DEF MatchesOf
      <4> QED BY <1>2, <4>1
    <3> QED BY <3>1
  <2>3. MatchesOf((1..pos-1) \cup {pos}) = MatchesOf(1..pos-1) \cup {<<pos, i>> : i \in 1..n}
    BY <1>2 DEF MatchesOf
  <2> QED BY <1>1, <1>11, <2>1, <2>2, <2>3, <2>4
<1>13. ToSet(picked) = Looked
  <2>1. ASSUME NEW m \in Looked PROVE Fits(m[1], m[2])
    <3>1. m[1] \in DOMAIN dir
      BY <1>0, <1>11, MatchIn, PassedInDir
    <3> QED BY <1>0, <1>1, <3>1, TaintFits
  <2> QED BY <1>0, <1>1, <2>1 DEF PickedInOrder
<1>14. ToSet(picked') = Looked'
  <2>1. ToSet(picked') \subseteq Looked'
    BY <1>8, <1>7, <1>12, <1>13 DEF ToSet
  <2>2. Looked' \subseteq ToSet(picked')
    BY <1>7, <1>12, <1>13 DEF ToSet
  <2> QED BY <2>1, <2>2
<1>15. PickedInOrder'
  <2>1. \A m \in Looked' : Fits(m[1], m[2])'
    <3>1. ASSUME NEW m \in Looked' PROVE Fits(m[1], m[2])
      <4>1. m[1] \in DOMAIN dir
        <5>1. CASE m \in Looked
          BY <1>0, <1>11, <5>1, MatchIn, PassedInDir
        <5>2. CASE m \notin Looked
          BY <1>2, <1>12, <5>2
        <5> QED BY <5>1, <5>2
      <4> QED BY <1>0, <1>1, <4>1, TaintFits
    <3> QED BY <1>1, <3>1, Same
  <2>2. ToSet(picked)' = {m \in Looked' : Fits(m[1], m[2])'}
    BY <1>14, <2>1 DEF ToSet
  <2>3. Sorted'
    <3>1. ASSUME NEW j \in DOMAIN picked', NEW k \in DOMAIN picked', j < k
          PROVE  Before(picked'[j], picked'[k])
      <4>1. CASE k \in DOMAIN picked
        <5>1. j \in DOMAIN picked
          BY <1>5, <1>7, <3>1, <4>1
        <5> QED BY <1>0, <1>7, <3>1, <4>1, <5>1 DEF PickedInOrder, Sorted
      <4>2. CASE k \notin DOMAIN picked
        <5>1. PICK i \in 1..n : k = Len(picked) + i /\ picked'[k] = <<pos, i>>
          BY <1>8, <4>2
        <5>2. CASE j \in DOMAIN picked
          <6>1. picked[j] \in Looked
            BY <1>13, <5>2 DEF ToSet
          <6>2. picked[j][1] \in 1..pos-1
            <7>1. \A m \in MatchesOf(1..pos-1) : m[1] \in 1..pos-1
              BY MatchIn
            <7> QED BY <1>11, <6>1, <7>1
          <6>3. picked'[j] = picked[j] /\ picked'[k][1] = pos
            BY <1>7, <5>1, <5>2
          <6>4. picked'[j][1] < picked'[k][1]
            BY <1>2, <6>2, <6>3
          <6> QED BY <1>1, <6>4, BeforeIs DEF FileBefore
        <5>3. CASE j \notin DOMAIN picked
          <6>1. PICK l \in 1..n : j = Len(picked) + l /\ picked'[j] = <<pos, l>>
            BY <1>8, <5>3
          <6>2. l < i
            BY <1>2, <1>5, <3>1, <5>1, <6>1
          <6> QED BY <5>1, <6>1, <6>2, BeforeIs
        <5> QED BY <5>2, <5>3
      <4> QED BY <4>1, <4>2
    <3>2. \A l, m : Before(l, m)' <=> Before(l, m)
      BY <1>1, Same
    <3> QED BY <3>1, <3>2 DEF Sorted
  <2>4. Enough' = 5 * request.max_results
    BY <1>1 DEF Enough
  <2>5. Enough' \in Nat /\ Len(picked') \in Nat
    <3>1. Enough' = Enough
      BY <1>1, Same
    <3> QED BY <1>0, <1>2, <1>5, <1>7, <3>1, Shape
  <2>6. phase' = "walk" => Len(picked') < Enough'
    BY <1>1, <2>4, <2>5
  <2>7. phase' = "pick" => Len(picked') >= Enough'
    BY <1>1, <2>4, <2>5
  <2> QED BY <1>1, <2>2, <2>3, <2>6, <2>7 DEF PickedInOrder
<1>16. /\ read \in Seq(DOMAIN dir) /\ Last(read') = pos /\ ToSet(read') = ToSet(read) \cup {pos}
       /\ IsInjective(read) /\ pos \notin ToSet(read) => IsInjective(read')
  <2>1. read \in Seq(DOMAIN dir)
    BY <1>0 DEF TypeOK
  <2> QED BY <1>1, <1>2, <2>1, AppendOne
<1>17. OpenIsLast' /\ ReadAreOpened'
  <2>1. ToSet(read') \subseteq Opened'
    BY <1>0, <1>11, <1>16 DEF ReadAreOpened
  <2> QED BY <1>1, <2>1 DEF OpenIsLast, ReadAreOpened, ToSet
<1>18. NoNeedlessRead'
  <2>1. IsInjective(read) /\ pos \notin ToSet(read)
    <3>1. pos \notin Opened
      BY <1>2, <1>11
    <3> QED BY <1>0, <3>1, NeedlessIs DEF ReadAreOpened
  <2>2. Earlier' \in SUBSET DOMAIN picked
    <3>1. ASSUME NEW k \in DOMAIN picked', k \notin DOMAIN picked PROVE picked'[k][1] = pos
      BY <1>8, <3>1
    <3> QED BY <1>16, <3>1 DEF Earlier
  <2>3. picked = <<>> \/ Len(picked) < Enough
    BY <1>0, <1>1 DEF PickedInOrder
  <2>4. Cardinality(Earlier') < Max({1, Enough})
    BY <1>0, <2>2, <2>3, EarlierIsFew
  <2>5. Enough' = Enough
    BY <1>1, Same
  <2> QED BY <1>16, <2>1, <2>4, <2>5 DEF NoNeedlessRead, Earlier, Enough
<1>19. AnswerIsBest' /\ FalseMeansComplete'
  BY <1>1 DEF AnswerIsBest, FalseMeansComplete
<1> QED BY <1>9, <1>10, <1>15, <1>17, <1>18, <1>19 DEF SearchInv

LEMMA AtTaintDone == ASSUME SearchInv, TaintDone PROVE SearchInv'
<1> DEFINE max == request.max_results
           c == Min({Len(picked), max})
<1>0. TypeOK /\ Walked /\ OpenIsLast /\ PickedInOrder /\ ReadAreOpened /\ NoNeedlessRead
  BY DEF SearchInv
<1>1. /\ endpoint = "taint" /\ phase' = "done" /\ total' = Len(picked) /\ open = 0
      /\ phase = "pick" \/ (phase = "walk" /\ ~WalkYields)
      /\ UNCHANGED <<endpoint, request, dir, pos, perFile, next, open, match, read>>
  BY <1>0 DEF TaintDone, Walked
<1>2. picked' = SubSeq(picked, 1, c)
  BY DEF TaintDone
<1>3. max \in Nat /\ Enough = 5 * max
  BY <1>0, <1>1, Shape DEF Enough
<1>4. picked \in Seq((DOMAIN dir) \X Nat) /\ DOMAIN picked = 1..Len(picked) /\ Len(picked) \in Nat
  BY <1>0, Shape DEF TypeOK
<1>5. c = IF Len(picked) <= max THEN Len(picked) ELSE max
  BY <1>3, <1>4, MinOfTwo
<1> HIDE DEF c, max
<1>6. /\ max \in Nat /\ Len(picked) \in Nat /\ c \in Nat /\ c - 1 + 1 = c
      /\ c <= Len(picked) /\ c <= max /\ c \in 1-1..Len(picked)
  <2>1. max \in Nat /\ Len(picked) \in Nat
    BY <1>3, <1>4
  <2>2. c \in Nat /\ c <= Len(picked) /\ c <= max
    BY ONLY <1>5, <2>1
  <2>3. c - 1 + 1 = c /\ c \in 1-1..Len(picked)
    BY ONLY <2>1, <2>2
  <2> QED BY <2>1, <2>2, <2>3
<1>7. /\ picked' \in Seq((DOMAIN dir) \X Nat) /\ Len(picked') = c /\ DOMAIN picked' = 1..c
      /\ \A k \in 1..c : k \in DOMAIN picked /\ picked'[k] = picked[k]
  <2>1. 1 \in 1..Len(picked)+1 /\ c \in 1-1..Len(picked) /\ c - 1 + 1 = c
    BY ONLY <1>6
  <2>2. /\ SubSeq(picked, 1, c) \in Seq((DOMAIN dir) \X Nat)
        /\ Len(SubSeq(picked, 1, c)) = c - 1 + 1
        /\ \A i \in 1..c-1+1 : SubSeq(picked, 1, c)[i] = picked[1 + i - 1]
    BY <1>4, <2>1, SubSeqProperties
  <2>3. ASSUME NEW k \in 1..c PROVE k \in DOMAIN picked /\ 1 + k - 1 = k
    <3>1. k \in 1..Len(picked) /\ 1 + k - 1 = k
      BY ONLY <1>6
    <3> QED BY <1>4, <3>1
  <2>4. picked' \in Seq((DOMAIN dir) \X Nat) /\ Len(picked') = c
    BY <1>2, <2>1, <2>2
  <2>5. DOMAIN picked' = 1..c
    BY <2>4
  <2>6. \A k \in 1..c : picked'[k] = picked[k]
    BY <1>2, <2>1, <2>2, <2>3
  <2> QED BY <2>3, <2>4, <2>5, <2>6
<1>8. Looked = MatchesOf(1..pos-1)
  BY <1>0, <1>1, TaintLooked
<1>9. \A m \in Looked : Fits(m[1], m[2]) /\ m[1] \in 1..pos-1
  <2>1. ASSUME NEW m \in Looked PROVE Fits(m[1], m[2]) /\ m[1] \in 1..pos-1
    <3>1. m[1] \in 1..pos-1
      BY <1>8, MatchIn
    <3>2. m[1] \in DOMAIN dir
      BY <1>0, <3>1, PassedInDir
    <3> QED BY <1>0, <1>1, <3>1, <3>2, TaintFits
  <2> QED BY <2>1
<1>10. ToSet(picked) = Looked
  BY <1>0, <1>1, <1>9 DEF PickedInOrder
<1>11. ASSUME NEW j \in DOMAIN picked', NEW k \in DOMAIN picked', j < k
       PROVE  Before(picked'[j], picked'[k])
  BY <1>0, <1>7, <1>11 DEF PickedInOrder, Sorted
<1>12. PickedInOrder'
  <2>1. \A m, n : Before(m, n)' <=> Before(m, n)
    BY <1>1, Same
  <2>2. Sorted'
    BY <1>11, <2>1 DEF Sorted
  <2> QED BY <1>1, <2>2 DEF PickedInOrder
<1>13. TypeOK' /\ Walked'
  BY <1>0, <1>1, <1>4, <1>7 DEF TypeOK, Walked, Request, Entry
<1>14. OpenIsLast' /\ ReadAreOpened'
  <2>1. Opened' = Opened
    BY <1>1 DEF Opened
  <2> QED BY <1>0, <1>1, <2>1 DEF OpenIsLast, ReadAreOpened
<1>15. NoNeedlessRead'
  <2>1. Earlier' \subseteq Earlier
    BY <1>1, <1>7 DEF Earlier
  <2>2. IsFiniteSet(Earlier)
    <3>1. IsFiniteSet(1..Len(picked))
      BY <1>4, FS_Interval
    <3> QED BY <1>4, <3>1, FS_Subset DEF Earlier
  <2>3. /\ Cardinality(Earlier') <= Cardinality(Earlier)
        /\ Cardinality(Earlier) \in Nat /\ Cardinality(Earlier') \in Nat
    BY <2>1, <2>2, FS_Subset, FS_CardinalityType
  <2>4. IsInjective(read) /\ Cardinality(Earlier) < Max({1, Enough})
    BY <1>0, NeedlessIs
  <2>5. Max({1, Enough}) \in Nat
    <3>1. Enough \in Nat /\ 1 \in Nat
      BY <1>0, Shape
    <3>2. Max({1, Enough}) = IF 1 <= Enough THEN Enough ELSE 1
      BY ONLY <3>1, MinOfTwo
    <3> QED BY ONLY <3>1, <3>2
  <2>6. Cardinality(Earlier') < Max({1, Enough})
    BY <2>3, <2>4, <2>5
  <2>7. Enough' = Enough
    BY <1>1, Same
  <2> QED BY <1>1, <2>4, <2>6, <2>7 DEF NoNeedlessRead, Earlier, Enough
<1>16. Range(picked') = ToSet(picked') /\ Looked \subseteq Found
  BY <1>0, LookedAreFound DEF Range, ToSet
<1>17. ToSet(picked') \subseteq Fitting
  <2>1. ToSet(picked') \subseteq ToSet(picked)
    BY <1>7 DEF ToSet
  <2> QED BY <1>9, <1>10, <1>16, <2>1 DEF Fitting
<1>18. ASSUME max > 0, NEW m \in Fitting, m \notin ToSet(picked')
       PROVE  c = max /\ Before(Last(picked'), m)
  <2>1. CASE m \in Looked
    <3>1. PICK k \in DOMAIN picked : m = picked[k]
      BY <1>10, <2>1 DEF ToSet
    <3>2. k \notin 1..c
      BY <1>7, <1>18, <3>1 DEF ToSet
    <3>3. k \in 1..Len(picked)
      BY <1>4
    <3>4. c < k /\ ~(Len(picked) <= max)
      BY ONLY <1>5, <1>6, <3>2, <3>3
    <3>5. c = max
      BY ONLY <1>5, <3>4
    <3>6. c \in 1..c /\ c \in 1..Len(picked)
      BY ONLY <1>6, <1>18, <3>5
    <3>7. c \in DOMAIN picked
      BY <1>4, <3>6
    <3>8. Last(picked') = picked[c]
      BY <1>7, <3>6 DEF Last
    <3> QED BY <1>0, <3>1, <3>4, <3>5, <3>7, <3>8 DEF PickedInOrder, Sorted
  <2>2. CASE m \notin Looked
    <3>1. m \in Found
      BY <1>18 DEF Fitting
    <3>2. PICK e \in Reached : \E i \in DOMAIN dir[e].matches : m = <<e, i>>
      BY <3>1, FoundIs
    <3>3. m[1] = e /\ e \in DOMAIN dir
      BY <3>2 DEF Reached
    <3>4. e \notin 1..pos-1
      BY <1>8, <2>2, <3>2, InMatches
    <3>5. WalkYields
      BY <1>0, <3>2, <3>4, WalkEnds
    <3>6. Len(picked) >= 5 * max
      BY <1>0, <1>1, <1>3, <3>5 DEF PickedInOrder
    <3>7. c = max
      BY ONLY <1>5, <1>6, <1>18, <3>6
    <3>11. c \in 1..c
      BY ONLY <1>6, <1>18, <3>7
    <3>8. Last(picked') = picked[c] /\ c \in DOMAIN picked
      BY <1>7, <3>11 DEF Last
    <3>9. picked[c][1] \in 1..pos-1
      BY <1>9, <1>10, <3>8 DEF ToSet
    <3>10. picked[c][1] < e
      BY <1>0, <3>3, <3>4, <3>9, Shape
    <3> QED BY <1>1, <3>3, <3>7, <3>8, <3>10, BeforeIs DEF FileBefore
  <2> QED BY <2>1, <2>2
<1>19. AnswerIsBest'
  <2>1. Range(picked)' = ToSet(picked') /\ request'.max_results = max
    BY <1>1, <1>16 DEF Range, max
  <2>2. Fitting' = Fitting /\ \A m, n : Before(m, n)' <=> Before(m, n)
    BY <1>1, Same
  <2>3. Len(picked') = c /\ c <= max
    BY <1>6, <1>7
  <2> QED BY <1>11, <1>17, <1>18, <2>1, <2>2, <2>3 DEF AnswerIsBest
<1>20. FalseMeansComplete'
  <2>1. Truncated' <=> Len(picked) > max
    BY <1>1 DEF Truncated, TotalMatches, max
  <2>2. ASSUME max > 0, ~(Len(picked) > max) PROVE ToSet(picked') = Found
    <3>1. ~(Len(picked) >= 5 * max)
      BY <1>3, <1>4, <2>2
    <3>2. Reached = 1..pos-1
      BY <1>0, <1>1, <1>3, <3>1, WalkEnds DEF PickedInOrder
    <3>3. Found = Looked
      BY <1>1, <1>8, <3>2 DEF Found, MatchesOf
    <3>4. c = Len(picked)
      BY ONLY <1>5, <1>6, <2>2
    <3>5. ToSet(picked') = ToSet(picked)
      BY <1>4, <1>7, <3>4 DEF ToSet
    <3> QED BY <1>10, <3>3, <3>5
  <2>3. Range(picked)' = ToSet(picked') /\ request'.max_results = max /\ Found' = Found
    BY <1>1, <1>16, Same DEF Range, max
  <2> QED BY <1>1, <2>1, <2>2, <2>3 DEF FalseMeansComplete
<1> QED BY <1>12, <1>13, <1>14, <1>15, <1>19, <1>20 DEF SearchInv

LEMMA AtStart == Init => SearchInv
<1> SUFFICES ASSUME Init PROVE SearchInv
  OBVIOUS
<1>1. /\ pos = 1 /\ perFile = <<>> /\ next = 1 /\ open = 0 /\ match = 1 /\ picked = <<>>
      /\ total = 0 /\ read = <<>> /\ phase = "walk"
      /\ endpoint \in {"grep", "structural", "taint"} /\ request \in Request
      /\ dir \in Seq(Entry)
      /\ endpoint = "taint" => \A e \in DOMAIN dir : ~dir[e].plain
  BY DirectoryAssumption DEF Init
<1>2. request.max_files \in Nat /\ request.max_results \in Nat
  BY <1>1, LimitAssumption DEF Request
<1>3. TypeOK
  <2>1. Len(dir) \in Nat
    BY <1>1
  <2>2. 1 \in 1..Len(dir)+1 /\ 1 <= request.max_files + 1 /\ 0 \in 0..Len(dir)
    BY <1>2, <2>1
  <2>3. \A S : <<>> \in Seq(S) /\ Len(<<>>) = 0
    OBVIOUS
  <2> QED BY <1>1, <2>2, <2>3 DEF TypeOK
<1>4. 1..pos-1 = {} /\ 1..next-1 = {}
  BY <1>1
<1>5. MatchesOf({}) = {} /\ Opened = {}
  BY <1>4 DEF MatchesOf, Opened
<1>6. Looked = {} /\ ToSet(picked) = {} /\ ToSet(perFile) = {}
  BY <1>1, <1>5 DEF Looked, ToSet
<1>7. Walked
  BY <1>1, <1>4, <1>5, <1>6, FS_EmptySet DEF Walked
<1>8. OpenIsLast /\ PickedInOrder /\ ReadAreOpened
  BY <1>1, <1>5, <1>6 DEF OpenIsLast, PickedInOrder, Sorted, ReadAreOpened, ToSet
<1>9. NoNeedlessRead
  <2>1. Cardinality(Earlier) < Max({1, Enough})
    BY <1>1, <1>3, EarlierIsFew DEF Earlier
  <2> QED BY <1>1, <2>1, NeedlessIs DEF IsInjective
<1>10. AnswerIsBest /\ FalseMeansComplete
  BY <1>1 DEF AnswerIsBest, FalseMeansComplete
<1> QED BY <1>3, <1>7, <1>8, <1>9, <1>10 DEF SearchInv

LEMMA AtStutter == ASSUME SearchInv, UNCHANGED vars PROVE SearchInv'
<1>0. TypeOK /\ Walked /\ OpenIsLast /\ PickedInOrder /\ ReadAreOpened /\ NoNeedlessRead
      /\ AnswerIsBest /\ FalseMeansComplete
  BY DEF SearchInv
<1>1. Opened' = Opened /\ Looked' = Looked /\ UNCHANGED <<endpoint, request, dir>>
  BY DEF vars, Opened, Looked, MatchesOf
<1>2. TypeOK' /\ Walked'
  BY <1>0 DEF vars, TypeOK, Walked, Denser, MatchesOf, WalkYields, Request, Entry
<1>3. OpenIsLast' /\ ReadAreOpened'
  BY <1>0, <1>1, Same DEF vars, OpenIsLast, ReadAreOpened
<1>4. PickedInOrder'
  BY <1>0, <1>1, Same DEF vars, PickedInOrder, Sorted
<1>5. NoNeedlessRead'
  BY <1>0 DEF vars, NoNeedlessRead, Fitting, Found, Reached, Fits, TooLarge, Before
<1>7. AnswerIsBest'
  BY <1>0, <1>1, Same DEF vars, AnswerIsBest
<1>6. FalseMeansComplete'
  BY <1>0 DEF vars, FalseMeansComplete, Fitting, Found, Reached, Fits, TooLarge, Truncated, TotalMatches
<1> QED BY <1>2, <1>3, <1>4, <1>5, <1>6, <1>7 DEF SearchInv

LEMMA SearchInductive == Spec => []SearchInv
<1>1. SearchInv /\ [Next]_vars => SearchInv'
  BY AtGrepFile, AtGrepRank, AtGrepOpen, AtGrepDone, AtStructuralOpen, AtStructuralDone,
     AtLookAtMatch, AtEndOfMatches, AtTaintFile, AtTaintDone, AtStutter DEF Next
<1> QED BY AtStart, <1>1, PTL DEF Spec

(* The type invariant of the searches.                                      *)
THEOREM SearchTypes == Spec => []TypeOK
BY SearchInductive, PTL DEF SearchInv

(* For every directory and every limit, the answer of grep, of structural    *)
(* search and of the taint analysis is the first max_results of the matches  *)
(* that fit, in its order: those left out for max_tokens are made up for by  *)
(* later ones, and a file found late, but with more matches, is not missed.  *)
THEOREM AnswersAreBest == Spec => []AnswerIsBest
BY SearchInductive, PTL DEF SearchInv

(* No file is opened twice for its blocks, nor any after the answer is       *)
(* complete.                                                                *)
THEOREM ReadsAreNeeded == Spec => []NoNeedlessRead
BY SearchInductive, PTL DEF SearchInv

(* An answer that is not said to be truncated lacks no match of the files    *)
(* that the walk reached.                                                   *)
THEOREM NothingLostUnsaid == Spec => []FalseMeansComplete
BY SearchInductive, PTL DEF SearchInv

-----------------------------------------------------------------------------
(* The scope walker (ScopeWalker, ScopeReport). What is kept about a         *)
(* sequence S of scopes, the identifiers P that are pending and the next     *)
(* node a to visit. The parts are stated for any sequence of scopes, so that *)
(* one lemma says what adding bindings, recording a use, moving scopes or    *)
(* looking up an identifier keeps.                                           *)

(* A use was visited, lies in the scope of its binding and has its name.     *)
UsesFit(S, a) ==
  \A i \in DOMAIN S : \A j \in DOMAIN S[i].vars : \A k \in DOMAIN S[i].vars[j].uses :
    LET u == S[i].vars[j].uses[k]
    IN /\ u \in DOMAIN tree
       /\ u < a
       /\ u \in Span(S[i].node)
       /\ tree[u].name = S[i].vars[j].name

UsesDiffer(S) ==
  \A i, l \in DOMAIN S : \A j \in DOMAIN S[i].vars : \A m \in DOMAIN S[l].vars :
    \A k \in DOMAIN S[i].vars[j].uses : \A n \in DOMAIN S[l].vars[m].uses :
      S[i].vars[j].uses[k] = S[l].vars[m].uses[n] => i = l /\ j = m /\ k = n

PendingFits(S, P, a) ==
  /\ \A k \in DOMAIN P : P[k] \in DOMAIN tree /\ P[k] < a
  /\ \A k, l \in DOMAIN P : P[k] = P[l] => k = l
  /\ \A n \in DOMAIN P : \A i \in DOMAIN S : \A j \in DOMAIN S[i].vars :
       \A k \in DOMAIN S[i].vars[j].uses : S[i].vars[j].uses[k] # P[n]

SitesNamed(S) ==
  \A i \in DOMAIN S : \A j \in DOMAIN S[i].vars :
    S[i].vars[j].site \in DOMAIN tree /\ tree[S[i].vars[j].site].name = S[i].vars[j].name

UsesNearest(S) ==
  \A i \in DOMAIN S : \A j \in DOMAIN S[i].vars : \A k \in DOMAIN S[i].vars[j].uses :
    \A l \in DOMAIN S : \A m \in DOMAIN S[l].vars :
      ~(/\ S[l].vars[m].name = S[i].vars[j].name
        /\ S[l].vars[m].site < S[i].vars[j].uses[k]
        /\ S[i].vars[j].uses[k] \in Span(S[l].node)
        /\ S[i].node < S[l].node)

PendingUnbound(S, P) ==
  \A k \in DOMAIN P : \A l \in DOMAIN S : \A m \in DOMAIN S[l].vars :
    ~(/\ S[l].vars[m].name = tree[P[k]].name
      /\ S[l].vars[m].site < P[k]
      /\ P[k] \in Span(S[l].node))

(* An identifier that was visited, other than f, is pending, or it is a use  *)
(* or the place of a binding, or nothing in the file's scope has its name    *)
(* and nothing will.                                                        *)
NoneForgotten(S, P, a, f) ==
  svelte => \A u \in DOMAIN tree : u < a /\ u # f /\ tree[u].kind \in {"ident", "each"} =>
    \/ \E k \in DOMAIN P : P[k] = u
    \/ \E i \in DOMAIN S : \E j \in DOMAIN S[i].vars : \E k \in DOMAIN S[i].vars[j].uses :
         S[i].vars[j].uses[k] = u
    \/ \E i \in DOMAIN S : \E j \in DOMAIN S[i].vars : S[i].vars[j].site = u
    \/ /\ a > Len(tree)
       /\ \A i \in DOMAIN S : \A j \in DOMAIN S[i].vars :
            S[i].node = Root => S[i].vars[j].name # tree[u].name

(* Everything at once, while the identifier f is looked up: it was visited   *)
(* and is neither a use nor pending. No identifier is when f is the root.    *)
LookedUp(S, P, a, f) ==
  f # Root => /\ f \in DOMAIN tree
              /\ f < a
              /\ \A k \in DOMAIN P : P[k] # f
              /\ \A i \in DOMAIN S : \A j \in DOMAIN S[i].vars :
                   \A k \in DOMAIN S[i].vars[j].uses : S[i].vars[j].uses[k] # f

ScopesFit(S, P, a, f) ==
  /\ UsesFit(S, a)
  /\ UsesDiffer(S)
  /\ PendingFits(S, P, a)
  /\ SitesNamed(S)
  /\ UsesNearest(S)
  /\ PendingUnbound(S, P)
  /\ NoneForgotten(S, P, a, f)
  /\ LookedUp(S, P, a, f)

(* The open scopes lie one in the other, and node a is in the innermost or   *)
(* is the first one after it.                                                *)
Nested(S, a) ==
  /\ S # <<>>
  /\ S[1].node = Root
  /\ \A i \in DOMAIN S :
       S[i].node # Root => /\ S[i].node \in DOMAIN tree
                           /\ S[i].node < a
                           /\ a <= S[i].node + tree[S[i].node].size
  /\ \A i, j \in DOMAIN S :
       i < j => /\ S[i].node < S[j].node
                /\ Span(S[j].node) \subseteq Span(S[i].node)

(* The closed scopes of F were left before node a.                           *)
Left(F, a) ==
  \A i \in DOMAIN F :
    /\ F[i].node \in DOMAIN tree
    /\ F[i].node + tree[F[i].node].size <= a

WalkInv ==
  /\ WalkTypeOK
  /\ tree \in PlainTree \cup SvelteTree
  /\ at <= Len(tree) + 1
  /\ done => stack = <<>> /\ pending = <<>> /\ at > Len(tree)
  /\ ~done => Nested(stack, at) /\ Left(finished, at)
  /\ ScopesFit(Scopes, pending, at, Root)
-----------------------------------------------------------------------------
(* S grows to T: bindings are added, from node a on, which nothing reads yet. *)
Grown(S, T, a) ==
  /\ DOMAIN S \subseteq DOMAIN T
  /\ \A i \in DOMAIN S : T[i].node = S[i].node
  /\ \A i \in DOMAIN S : \A j \in DOMAIN S[i].vars :
       j \in DOMAIN T[i].vars /\ T[i].vars[j] = S[i].vars[j]
  /\ \A i \in DOMAIN T : \A j \in DOMAIN T[i].vars :
       \/ i \in DOMAIN S /\ j \in DOMAIN S[i].vars
       \/ /\ T[i].vars[j].uses = <<>>
          /\ T[i].vars[j].site >= a
          /\ T[i].vars[j].site \in DOMAIN tree
          /\ T[i].vars[j].name = tree[T[i].vars[j].site].name

(* T is S but for the use u, which is new, of the binding at <<x, y>>.       *)
Used(S, T, x, y, u) ==
  /\ x \in DOMAIN S /\ y \in DOMAIN S[x].vars
  /\ DOMAIN T = DOMAIN S
  /\ \A i \in DOMAIN S : T[i].node = S[i].node /\ DOMAIN T[i].vars = DOMAIN S[i].vars
  /\ \A i \in DOMAIN S : \A j \in DOMAIN S[i].vars :
       /\ T[i].vars[j].name = S[i].vars[j].name
       /\ T[i].vars[j].site = S[i].vars[j].site
       /\ DOMAIN S[i].vars[j].uses \subseteq DOMAIN T[i].vars[j].uses
       /\ \A k \in DOMAIN S[i].vars[j].uses : T[i].vars[j].uses[k] = S[i].vars[j].uses[k]
  /\ \A i \in DOMAIN S : \A j \in DOMAIN S[i].vars : \A k \in DOMAIN T[i].vars[j].uses :
       k \notin DOMAIN S[i].vars[j].uses =>
         i = x /\ j = y /\ k = Len(S[x].vars[y].uses) + 1 /\ T[i].vars[j].uses[k] = u
  /\ \E k \in DOMAIN T[x].vars[y].uses : T[x].vars[y].uses[k] = u

LEMMA GrownFits ==
  ASSUME NEW S, NEW T, NEW P, NEW a \in Nat, NEW f, tree \in Seq(NodeRec), a <= Len(tree),
         ScopesFit(S, P, a, f), Grown(S, T, a)
  PROVE  ScopesFit(T, P, a, f)
<1>1. UsesFit(T, a)
  BY DEF ScopesFit, UsesFit, Grown
<1>2. UsesDiffer(T)
  BY DEF ScopesFit, UsesDiffer, Grown
<1>3. PendingFits(T, P, a)
  BY DEF ScopesFit, PendingFits, Grown
<1>4. SitesNamed(T)
  BY DEF ScopesFit, SitesNamed, Grown
<1>5. UsesNearest(T)
  <2>0. UsesNearest(S) /\ UsesFit(S, a)
    BY DEF ScopesFit
  <2> SUFFICES ASSUME NEW i \in DOMAIN T, NEW j \in DOMAIN T[i].vars,
                      NEW k \in DOMAIN T[i].vars[j].uses,
                      NEW l \in DOMAIN T, NEW m \in DOMAIN T[l].vars,
                      T[l].vars[m].name = T[i].vars[j].name,
                      T[l].vars[m].site < T[i].vars[j].uses[k],
                      T[i].vars[j].uses[k] \in Span(T[l].node),
                      T[i].node < T[l].node
               PROVE  FALSE
    BY DEF UsesNearest
  <2>1. /\ i \in DOMAIN S /\ j \in DOMAIN S[i].vars
        /\ T[i].vars[j] = S[i].vars[j] /\ T[i].node = S[i].node
    BY DEF Grown
  <2>2. T[i].vars[j].uses[k] \in DOMAIN tree /\ T[i].vars[j].uses[k] < a
    BY <2>0, <2>1 DEF UsesFit
  <2>3. CASE l \in DOMAIN S /\ m \in DOMAIN S[l].vars
    <3>1. T[l].vars[m] = S[l].vars[m] /\ T[l].node = S[l].node
      BY <2>3 DEF Grown
    <3> QED BY <2>0, <2>1, <2>3, <3>1 DEF UsesNearest
  <2>4. CASE ~(l \in DOMAIN S /\ m \in DOMAIN S[l].vars)
    <3>1. T[l].vars[m].site >= a /\ T[l].vars[m].site \in DOMAIN tree
      BY <2>4 DEF Grown
    <3>2. \A u \in DOMAIN tree : u \in Nat
      OBVIOUS
    <3> DEFINE u == T[i].vars[j].uses[k]
               v == T[l].vars[m].site
    <3>3. u \in Nat /\ v \in Nat /\ u < a /\ v >= a /\ v < u
      BY <2>2, <3>1, <3>2
    <3> HIDE DEF u, v
    <3> QED BY ONLY <3>3, a \in Nat
  <2> QED BY <2>3, <2>4
<1>6. PendingUnbound(T, P)
  BY DEF ScopesFit, PendingUnbound, PendingFits, Grown
<1>7. NoneForgotten(T, P, a, f)
  BY DEF ScopesFit, NoneForgotten, Grown
<1>8. LookedUp(T, P, a, f)
  BY DEF ScopesFit, LookedUp, Grown
<1> QED BY <1>1, <1>2, <1>3, <1>4, <1>5, <1>6, <1>7, <1>8 DEF ScopesFit

LEMMA UsedFits ==
  ASSUME NEW S, NEW T, NEW P, NEW a \in Nat, NEW f, NEW x, NEW y, tree \in Seq(NodeRec),
         ScopesFit(S, P, a, f), Used(S, T, x, y, f), f # Root,
         f \in Span(S[x].node), tree[f].name = S[x].vars[y].name,
         \A l \in DOMAIN S : \A m \in DOMAIN S[l].vars :
           ~(/\ S[l].vars[m].name = tree[f].name
             /\ S[l].vars[m].site < f
             /\ f \in Span(S[l].node)
             /\ S[x].node < S[l].node)
  PROVE  ScopesFit(T, P, a, Root)
<1>1. UsesFit(T, a)
  BY DEF ScopesFit, UsesFit, Used, LookedUp
<1>2. UsesDiffer(T)
  <2>0. UsesDiffer(S) /\ LookedUp(S, P, a, f)
    BY DEF ScopesFit
  <2> SUFFICES ASSUME NEW i \in DOMAIN T, NEW l \in DOMAIN T,
                      NEW j \in DOMAIN T[i].vars, NEW m \in DOMAIN T[l].vars,
                      NEW k \in DOMAIN T[i].vars[j].uses, NEW n \in DOMAIN T[l].vars[m].uses,
                      T[i].vars[j].uses[k] = T[l].vars[m].uses[n]
               PROVE  i = l /\ j = m /\ k = n
    BY DEF UsesDiffer
  <2>1. i \in DOMAIN S /\ l \in DOMAIN S /\ j \in DOMAIN S[i].vars /\ m \in DOMAIN S[l].vars
    BY DEF Used
  <2>2. CASE k \in DOMAIN S[i].vars[j].uses /\ n \in DOMAIN S[l].vars[m].uses
    <3>1. S[i].vars[j].uses[k] = S[l].vars[m].uses[n]
      BY <2>1, <2>2 DEF Used
    <3> QED BY <2>0, <2>1, <2>2, <3>1 DEF UsesDiffer
  <2>3. CASE k \notin DOMAIN S[i].vars[j].uses /\ n \notin DOMAIN S[l].vars[m].uses
    BY <2>1, <2>3 DEF Used
  <2>4. CASE k \in DOMAIN S[i].vars[j].uses /\ n \notin DOMAIN S[l].vars[m].uses
    <3>1. S[i].vars[j].uses[k] = f
      BY <2>1, <2>4 DEF Used
    <3> QED BY <2>0, <2>1, <2>4, <3>1 DEF LookedUp
  <2>5. CASE k \notin DOMAIN S[i].vars[j].uses /\ n \in DOMAIN S[l].vars[m].uses
    <3>1. S[l].vars[m].uses[n] = f
      BY <2>1, <2>5 DEF Used
    <3> QED BY <2>0, <2>1, <2>5, <3>1 DEF LookedUp
  <2> QED BY <2>2, <2>3, <2>4, <2>5
<1>3. PendingFits(T, P, a)
  BY DEF ScopesFit, PendingFits, Used, LookedUp
<1>4. SitesNamed(T)
  BY DEF ScopesFit, SitesNamed, Used
<1>5. UsesNearest(T)
  BY DEF ScopesFit, UsesNearest, Used
<1>6. PendingUnbound(T, P)
  BY DEF ScopesFit, PendingUnbound, Used
<1>7. NoneForgotten(T, P, a, Root)
  BY DEF ScopesFit, NoneForgotten, Used
<1>8. LookedUp(T, P, a, Root)
  BY DEF LookedUp
<1> QED BY <1>1, <1>2, <1>3, <1>4, <1>5, <1>6, <1>7, <1>8 DEF ScopesFit

LEMMA MovedFits ==
  ASSUME NEW S, NEW T, NEW P, NEW a \in Nat, NEW p \in [DOMAIN T -> DOMAIN S],
         \A i, j \in DOMAIN T : p[i] = p[j] => i = j,
         \A i \in DOMAIN S : \E j \in DOMAIN T : p[j] = i,
         \A i \in DOMAIN T : T[i] = S[p[i]],
         ScopesFit(S, P, a, Root)
  PROVE  ScopesFit(T, P, a, Root)
<1>1. UsesFit(T, a)
  BY DEF ScopesFit, UsesFit
<1>2. UsesDiffer(T)
  BY DEF ScopesFit, UsesDiffer
<1>3. PendingFits(T, P, a)
  BY DEF ScopesFit, PendingFits
<1>4. SitesNamed(T)
  BY DEF ScopesFit, SitesNamed
<1>5. UsesNearest(T)
  BY DEF ScopesFit, UsesNearest
<1>6. PendingUnbound(T, P)
  BY DEF ScopesFit, PendingUnbound
<1>7. NoneForgotten(T, P, a, Root)
  BY DEF ScopesFit, NoneForgotten
<1>8. LookedUp(T, P, a, Root)
  BY DEF LookedUp
<1> QED BY <1>1, <1>2, <1>3, <1>4, <1>5, <1>6, <1>7, <1>8 DEF ScopesFit

(* The node a is visited: it is looked up, or it is none that is.            *)
LEMMA VisitFits ==
  ASSUME NEW S, NEW P, NEW a \in Nat \ {0}, tree \in Seq(NodeRec), a \in DOMAIN tree,
         ScopesFit(S, P, a, Root)
  PROVE  ScopesFit(S, P, a + 1, a)
<1>0. \A u \in DOMAIN tree : u \in Nat
  OBVIOUS
<1>1. UsesFit(S, a + 1)
  BY <1>0 DEF ScopesFit, UsesFit
<1>3. PendingFits(S, P, a + 1)
  BY <1>0 DEF ScopesFit, PendingFits
<1>7. NoneForgotten(S, P, a + 1, a)
  <2>1. a <= Len(tree)
    OBVIOUS
  <2>2. \A u \in DOMAIN tree : u < a + 1 /\ u # a => u < a /\ u # Root
    BY <1>0 DEF Root
  <2> QED BY <2>1, <2>2 DEF ScopesFit, NoneForgotten
<1>8. LookedUp(S, P, a + 1, a)
  <2>1. a < a + 1
    OBVIOUS
  <2>2. \A k \in DOMAIN P : P[k] # a
    BY <1>0 DEF ScopesFit, PendingFits
  <2>3. \A i \in DOMAIN S : \A j \in DOMAIN S[i].vars :
         \A k \in DOMAIN S[i].vars[j].uses : S[i].vars[j].uses[k] # a
    BY <1>0 DEF ScopesFit, UsesFit
  <2> QED BY <2>1, <2>2, <2>3 DEF LookedUp
<1> QED BY <1>1, <1>3, <1>7, <1>8 DEF ScopesFit

LEMMA SkipFits ==
  ASSUME NEW S, NEW P, NEW a, NEW f, ScopesFit(S, P, a, f),
         \/ ~svelte
         \/ tree[f].kind \notin {"ident", "each"}
         \/ \E i \in DOMAIN S : \E j \in DOMAIN S[i].vars : S[i].vars[j].site = f
         \/ /\ a > Len(tree)
            /\ \A i \in DOMAIN S : \A j \in DOMAIN S[i].vars :
                 S[i].node = Root => S[i].vars[j].name # tree[f].name
  PROVE  ScopesFit(S, P, a, Root)
<1>1. NoneForgotten(S, P, a, Root)
  BY DEF ScopesFit, NoneForgotten
<1>2. LookedUp(S, P, a, Root)
  BY DEF LookedUp
<1> QED BY <1>1, <1>2 DEF ScopesFit

LEMMA DeferFits ==
  ASSUME NEW S, NEW P \in Seq(Site), NEW a, NEW f \in Site, ScopesFit(S, P, a, f), f # Root,
         \A l \in DOMAIN S : \A m \in DOMAIN S[l].vars :
           ~(S[l].vars[m].name = tree[f].name /\ f \in Span(S[l].node))
  PROVE  ScopesFit(S, Append(P, f), a, Root)
<1> DEFINE Q == Append(P, f)
<1>1. /\ DOMAIN Q = 1..Len(P) + 1
      /\ DOMAIN P = 1..Len(P) /\ Len(P) \in Nat
      /\ \A k \in DOMAIN P : Q[k] = P[k]
      /\ Q[Len(P) + 1] = f
  OBVIOUS
<1>2. \A k \in DOMAIN Q : (k \in DOMAIN P /\ Q[k] = P[k]) \/ (k = Len(P) + 1 /\ Q[k] = f)
  <2> SUFFICES ASSUME NEW k \in DOMAIN Q
               PROVE  (k \in DOMAIN P /\ Q[k] = P[k]) \/ (k = Len(P) + 1 /\ Q[k] = f)
    OBVIOUS
  <2>1. k \in 1..Len(P) \/ k = Len(P) + 1
    BY ONLY <1>1, k \in DOMAIN Q
  <2> HIDE DEF Q
  <2> QED BY <1>1, <2>1
<1>3. \A k \in DOMAIN P : k \in DOMAIN Q
  BY <1>1
<1>4. Len(P) + 1 \in DOMAIN Q
  BY <1>1
<1> HIDE DEF Q
<1>5. PendingFits(S, Q, a)
  <2>1. PendingFits(S, P, a) /\ LookedUp(S, P, a, f)
    BY DEF ScopesFit
  <2>2. \A k \in DOMAIN Q : Q[k] \in DOMAIN tree /\ Q[k] < a
    BY <1>2, <2>1 DEF PendingFits, LookedUp
  <2>3. \A k, l \in DOMAIN Q : Q[k] = Q[l] => k = l
    BY <1>2, <2>1 DEF PendingFits, LookedUp
  <2> QED BY <1>2, <2>1, <2>2, <2>3 DEF PendingFits, LookedUp
<1>6. PendingUnbound(S, Q)
  BY <1>2 DEF ScopesFit, PendingUnbound
<1>7. NoneForgotten(S, Q, a, Root)
  BY <1>1, <1>3, <1>4 DEF ScopesFit, NoneForgotten
<1>8. LookedUp(S, Q, a, Root)
  BY DEF LookedUp
<1> QED BY <1>5, <1>6, <1>7, <1>8 DEF ScopesFit, Q

LEMMA TakeFits ==
  ASSUME NEW S, NEW P \in Seq(Site), NEW a, P # <<>>, tree \in Seq(NodeRec), ScopesFit(S, P, a, Root)
  PROVE  /\ ScopesFit(S, Tail(P), a, Head(P))
         /\ Head(P) \in Site /\ Head(P) \in DOMAIN tree /\ Head(P) # Root
         /\ \A l \in DOMAIN S : \A m \in DOMAIN S[l].vars :
              ~(/\ S[l].vars[m].name = tree[Head(P)].name
                /\ S[l].vars[m].site < Head(P)
                /\ Head(P) \in Span(S[l].node))
<1> DEFINE Q == Tail(P)
           f == Head(P)
<1>1. /\ DOMAIN P = 1..Len(P) /\ Len(P) \in Nat /\ Len(P) >= 1
      /\ DOMAIN Q = 1..Len(P) - 1
      /\ \A k \in DOMAIN Q : Q[k] = P[k + 1]
      /\ f = P[1] /\ f \in Site
  OBVIOUS
<1>2. /\ 1 \in DOMAIN P
      /\ \A k \in DOMAIN Q : k + 1 \in DOMAIN P /\ k + 1 # 1 /\ k \in Nat
      /\ \A k \in DOMAIN P : k # 1 => k - 1 \in DOMAIN Q /\ k - 1 + 1 = k
  BY <1>1
<1>3. \A k \in DOMAIN P : k # 1 => k - 1 \in DOMAIN Q /\ Q[k - 1] = P[k]
  BY <1>1, <1>2
<1>4. f # Root
  BY <1>1 DEF Site, Root
<1> HIDE DEF Q, f
<1>5. PendingFits(S, P, a)
  BY DEF ScopesFit
<1>6. PendingFits(S, Q, a)
  <2>1. \A k \in DOMAIN Q : Q[k] \in DOMAIN tree /\ Q[k] < a
    BY <1>1, <1>2, <1>5 DEF PendingFits
  <2>2. ASSUME NEW k \in DOMAIN Q, NEW l \in DOMAIN Q, Q[k] = Q[l] PROVE k = l
    <3>1. P[k + 1] = P[l + 1] /\ k + 1 \in DOMAIN P /\ l + 1 \in DOMAIN P
      BY <1>1, <1>2, <2>2
    <3>2. k + 1 = l + 1
      BY <1>5, <3>1 DEF PendingFits
    <3>3. k \in Nat /\ l \in Nat
      BY <1>2
    <3> QED BY ONLY <3>2, <3>3
  <2>3. \A n \in DOMAIN Q : \E k \in DOMAIN P : Q[n] = P[k]
    BY <1>1, <1>2
  <2> QED BY <1>5, <2>1, <2>2, <2>3 DEF PendingFits
<1>7. PendingUnbound(S, Q)
  BY <1>1, <1>2 DEF ScopesFit, PendingUnbound
<1>8. NoneForgotten(S, Q, a, f)
  <2>1. \A u : u # f /\ (\E k \in DOMAIN P : P[k] = u) => \E k \in DOMAIN Q : Q[k] = u
    BY <1>1, <1>3
  <2>2. \A u \in DOMAIN tree : u # Root
    BY DEF Root
  <2> QED BY <2>1, <2>2 DEF ScopesFit, NoneForgotten
<1>9. LookedUp(S, Q, a, f)
  <2>1. f \in DOMAIN tree /\ f < a
    BY <1>1, <1>2, <1>5 DEF PendingFits
  <2>2. \A k \in DOMAIN Q : Q[k] # f
    BY <1>1, <1>2, <1>5 DEF PendingFits
  <2> QED BY <1>1, <1>2, <1>5, <2>1, <2>2 DEF PendingFits, LookedUp
<1>10. ScopesFit(S, Q, a, f)
  BY <1>6, <1>7, <1>8, <1>9 DEF ScopesFit
<1>11. f \in DOMAIN tree
  BY <1>1, <1>2, <1>5 DEF PendingFits
<1>12. \A l \in DOMAIN S : \A m \in DOMAIN S[l].vars :
         ~(S[l].vars[m].name = tree[f].name /\ S[l].vars[m].site < f /\ f \in Span(S[l].node))
  BY <1>1, <1>2 DEF ScopesFit, PendingUnbound
<1> QED BY <1>1, <1>4, <1>10, <1>11, <1>12 DEF Q, f
-----------------------------------------------------------------------------
LEMMA LeastOf == ASSUME NEW S \in SUBSET Nat, S # {}
                 PROVE  \E x \in S : \A y \in S : x <= y
<1>1. PICK x \in S : \A y \in S : ~(<<y, x>> \in OpToRel(<, Nat))
  BY NatLessThanWellFounded, WFMin
<1>2. ASSUME NEW y \in S PROVE x <= y
  <2>1. x \in Nat /\ y \in Nat
    OBVIOUS
  <2>2. ~(y < x)
    BY <1>1, <2>1 DEF OpToRel
  <2> QED BY <2>1, <2>2
<1> QED BY <1>2

(* The largest of some positions.                                           *)
LEMMA MaxIsLargest ==
  ASSUME NEW n \in Nat, NEW S \in SUBSET (1..n), S # {}
  PROVE  Max(S) \in S /\ \A y \in S : y <= Max(S)
<1> DEFINE Bounds == {b \in Nat : \A y \in S : y <= b}
<1>1. n \in Bounds
  OBVIOUS
<1>2. PICK b \in Bounds : \A c \in Bounds : b <= c
  BY <1>1, LeastOf
<1>3. b \in S
  <2>1. SUFFICES ASSUME b \notin S PROVE FALSE
    OBVIOUS
  <2>2. PICK y \in S : TRUE
    OBVIOUS
  <2>3. y \in Nat /\ y >= 1 /\ y <= b /\ b \in Nat
    BY <1>2
  <2>4. b - 1 \in Nat
    BY ONLY <2>3
  <2>5. ASSUME NEW z \in S PROVE z <= b - 1
    <3>1. z \in Nat /\ z <= b /\ z # b
      BY <1>2, <2>1
    <3> QED BY <2>3, <3>1
  <2>6. b - 1 \in Bounds
    BY <2>4, <2>5
  <2>7. b <= b - 1
    BY <1>2, <2>6
  <2> QED BY ONLY <2>3, <2>7
<1>4. \A y \in S : b >= y
  BY <1>2
<1>5. \E x \in S : \A y \in S : x >= y
  BY <1>3, <1>4
<1>6. Max(S) \in S /\ \A y \in S : Max(S) >= y
  BY <1>5 DEF Max
<1>7. \A y \in S : y \in Nat
  OBVIOUS
<1>8. ASSUME NEW y \in S PROVE y <= Max(S)
  <2>1. y \in Nat /\ Max(S) \in Nat /\ Max(S) >= y
    BY <1>6, <1>7
  <2> QED BY ONLY <2>1
<1> QED BY <1>6, <1>8

(* Positions can be listed in their order.                                  *)
Ascending(s) == \A i, j \in DOMAIN s : i < j => s[i] < s[j]

LEMMA OneMore ==
  ASSUME NEW n \in Nat \ {0}, NEW S \in SUBSET (1..n), n \in S,
         NEW s \in SetToSeqs(S \ {n}), Ascending(s)
  PROVE  \E t \in SetToSeqs(S) : Ascending(t)
<1> DEFINE R == S \ {n}
           c == Cardinality(R)
           t == [i \in 1..c + 1 |-> IF i = c + 1 THEN n ELSE s[i]]
<1>1. IsFiniteSet(1..n)
  BY FS_Interval
<1>2. IsFiniteSet(S)
  BY <1>1, FS_Subset
<1>3. IsFiniteSet(R) /\ c \in Nat /\ Cardinality(S) = c + 1
  <2>1. Cardinality(R) = Cardinality(S) - 1 /\ IsFiniteSet(R)
    BY <1>2, FS_RemoveElement
  <2>2. Cardinality(S) \in Nat /\ c \in Nat
    BY <1>2, <2>1, FS_CardinalityType
  <2> QED BY <2>1, <2>2
<1>4. /\ s \in [1..c -> R]
      /\ \A i, j \in 1..c : i # j => s[i] # s[j]
  BY DEF SetToSeqs
<1>5. DOMAIN s = 1..c /\ \A i \in 1..c : s[i] \in S /\ s[i] < n /\ s[i] \in Nat
  <2>1. \A x \in R : x \in S /\ x < n /\ x \in Nat
    OBVIOUS
  <2> QED BY <1>4, <2>1
<1> HIDE DEF c, R
<1>6. \A i \in 1..c + 1 : i = c + 1 \/ i \in 1..c
  BY ONLY <1>3
<1>7. /\ DOMAIN t = 1..c + 1
      /\ \A i \in 1..c : i \in 1..c + 1 /\ i # c + 1 /\ t[i] = s[i]
      /\ t[c + 1] = n
  BY ONLY <1>3
<1>8. t \in [1..c + 1 -> S]
  BY <1>5, <1>6
<1> HIDE DEF t
<1>9. ASSUME NEW i \in 1..c + 1, NEW j \in 1..c + 1, i # j PROVE t[i] # t[j]
  <2>1. CASE i = c + 1
    BY <1>5, <1>6, <1>7, <1>9, <2>1
  <2>2. CASE j = c + 1
    BY <1>5, <1>6, <1>7, <1>9, <2>2
  <2>3. CASE i \in 1..c /\ j \in 1..c
    BY <1>4, <1>7, <1>9, <2>3
  <2> QED BY <1>6, <2>1, <2>2, <2>3
<1>10. t \in SetToSeqs(S)
  BY <1>3, <1>8, <1>9 DEF SetToSeqs
<1>11. Ascending(t)
  <2> SUFFICES ASSUME NEW i \in 1..c + 1, NEW j \in 1..c + 1, i < j PROVE t[i] < t[j]
    BY <1>7 DEF Ascending
  <2>1. i \in 1..c
    BY ONLY <1>3, i \in 1..c + 1, j \in 1..c + 1, i < j
  <2>2. CASE j = c + 1
    BY <1>5, <1>7, <2>1, <2>2
  <2>3. CASE j \in 1..c
    BY <1>5, <1>7, <2>1, <2>3 DEF Ascending
  <2> QED BY <1>6, <2>2, <2>3
<1> QED BY <1>10, <1>11

LEMMA SortedExists ==
  ASSUME NEW n \in Nat, NEW S \in SUBSET (1..n)
  PROVE  \E s \in SetToSeqs(S) : Ascending(s)
<1> DEFINE Ok(m) == \A A \in SUBSET (1..m) : \E s \in SetToSeqs(A) : Ascending(s)
           Bad == {m \in Nat : ~Ok(m)}
<1>1. SUFFICES ASSUME Bad # {} PROVE FALSE
  <2>1. Ok(n)
    BY <1>1
  <2> QED BY <2>1
<1>2. PICK m \in Bad : \A k \in Bad : m <= k
  BY <1>1, LeastOf
<1>3. PICK A \in SUBSET (1..m) : ~\E s \in SetToSeqs(A) : Ascending(s)
  BY <1>2
<1>4. m # 0
  <2>1. SUFFICES ASSUME m = 0 PROVE FALSE
    OBVIOUS
  <2>2. A = {}
    BY <2>1
  <2>3. Cardinality(A) = 0
    BY <2>2, FS_EmptySet
  <2>4. [i \in {} |-> i] \in SetToSeqs(A) /\ Ascending([i \in {} |-> i])
    <3>1. 1..0 = {}
      OBVIOUS
    <3> QED BY <2>2, <2>3, <3>1 DEF SetToSeqs, Ascending
  <2> QED BY <1>3, <2>4
<1>5. m \in Nat /\ m - 1 \in Nat /\ m - 1 < m
  BY <1>4
<1>6. Ok(m - 1)
  BY <1>2, <1>5
<1>7. CASE m \notin A
  <2>1. A \in SUBSET (1..m - 1)
    BY <1>5, <1>7
  <2> QED BY <1>3, <1>6, <2>1
<1>8. CASE m \in A
  <2>1. A \ {m} \in SUBSET (1..m - 1)
    BY <1>5
  <2>2. PICK s \in SetToSeqs(A \ {m}) : Ascending(s)
    BY <1>6, <2>1
  <2> QED BY <1>3, <1>4, <1>5, <1>8, <2>2, OneMore
<1> QED BY <1>7, <1>8

(* What a query captures is a sequence of nodes of the kind in the subtree.  *)
LEMMA MatchesListed ==
  ASSUME tree \in Seq(NodeRec), NEW n, Span(n) \subseteq DOMAIN tree, NEW kind
  PROVE  /\ Matches(n, kind) \in Seq(Span(n))
         /\ Len(Matches(n, kind)) \in Nat
         /\ \A k \in DOMAIN Matches(n, kind) :
              Matches(n, kind)[k] \in Span(n) /\ tree[Matches(n, kind)[k]].kind = kind
<1> DEFINE S == {m \in Span(n) : tree[m].kind = kind}
           c == Cardinality(S)
           hits == Matches(n, kind)
<1>1. S \in SUBSET (1..Len(tree)) /\ Len(tree) \in Nat
  OBVIOUS
<1>2. \E s \in SetToSeqs(S) : \A i, j \in DOMAIN s : i < j => s[i] < s[j]
  BY <1>1, SortedExists DEF Ascending
<1>3. hits \in SetToSeqs(S)
  BY <1>2 DEF Matches
<1>4. IsFiniteSet(S)
  BY <1>1, FS_Interval, FS_Subset
<1>5. c \in Nat
  BY <1>4, FS_CardinalityType
<1>6. hits \in [1..c -> S]
  BY <1>3 DEF SetToSeqs
<1> HIDE DEF c, hits
<1>7. DOMAIN hits = 1..c /\ \A k \in 1..c : hits[k] \in S
  BY <1>6
<1>8. \A k \in 1..c : hits[k] \in Span(n) /\ tree[hits[k]].kind = kind
  BY <1>7
<1>9. hits \in [1..c -> Span(n)]
  BY <1>6
<1>10. hits \in Seq(Span(n)) /\ Len(hits) \in Nat
  BY <1>5, <1>9
<1> QED BY <1>7, <1>8, <1>10 DEF hits
-----------------------------------------------------------------------------
SameNodes(S, T) == DOMAIN T = DOMAIN S /\ \A i \in DOMAIN S : T[i].node = S[i].node

(* The variables of scope x of S are V in T, and the rest is as it was.      *)
LEMMA WithVars ==
  ASSUME NEW S \in Seq(Scope), NEW x \in DOMAIN S, NEW V \in Seq(Binding)
  PROVE  LET T == [S EXCEPT ![x].vars = V]
         IN /\ T \in Seq(Scope) /\ Len(T) = Len(S)
            /\ SameNodes(S, T)
            /\ T[x].vars = V
            /\ \A i \in DOMAIN S : i # x => T[i] = S[i]
<1> DEFINE s == [S[x] EXCEPT !.vars = V]
           T == [S EXCEPT ![x] = s]
<1>0. [S EXCEPT ![x].vars = V] = T
  OBVIOUS
<1>1. S[x] \in Scope
  OBVIOUS
<1>2. s \in Scope /\ s.vars = V /\ s.node = S[x].node
  BY <1>1 DEF Scope
<1> HIDE DEF s
<1>3. T \in Seq(Scope) /\ Len(T) = Len(S) /\ DOMAIN T = DOMAIN S
  BY <1>2
<1>4. T[x] = s /\ \A i \in DOMAIN S : i # x => T[i] = S[i]
  OBVIOUS
<1>5. SameNodes(S, T)
  <2> HIDE DEF T
  <2> QED BY <1>2, <1>3, <1>4 DEF SameNodes
<1> QED BY <1>0, <1>2, <1>3, <1>4, <1>5

(* Bindings from node a on are added to a scope.                             *)
LEMMA AddBindings ==
  ASSUME NEW S \in Seq(Scope), NEW x \in DOMAIN S, NEW B \in Seq(Binding), NEW a \in Nat,
         \A k \in DOMAIN B : /\ B[k].uses = <<>>
                             /\ B[k].site >= a
                             /\ B[k].site \in DOMAIN tree
                             /\ B[k].name = tree[B[k].site].name
  PROVE  LET T == [S EXCEPT ![x].vars = @ \o B]
         IN /\ T \in Seq(Scope) /\ Len(T) = Len(S)
            /\ SameNodes(S, T)
            /\ Grown(S, T, a)
<1> DEFINE V == S[x].vars \o B
           T == [S EXCEPT ![x].vars = V]
<1>0. [S EXCEPT ![x].vars = @ \o B] = T
  OBVIOUS
<1>1. S[x] \in Scope
  OBVIOUS
<1>2. S[x].vars \in Seq(Binding)
  BY <1>1 DEF Scope
<1>3. V \in Seq(Binding)
  BY <1>2
<1>4. /\ \A j \in DOMAIN S[x].vars : j \in DOMAIN V /\ V[j] = S[x].vars[j]
      /\ \A j \in DOMAIN V : j \in DOMAIN S[x].vars \/ \E k \in DOMAIN B : V[j] = B[k]
  <2> DEFINE W == S[x].vars
             m == Len(W)
             l == Len(B)
  <2>1. /\ DOMAIN W = 1..m /\ DOMAIN B = 1..l /\ DOMAIN V = 1..m + l
        /\ m \in Nat /\ l \in Nat
        /\ \A j \in 1..m : V[j] = W[j]
        /\ \A j \in 1..m + l : j > m => V[j] = B[j - m]
    BY <1>2
  <2> HIDE DEF V, W, m, l
  <2>2. \A j \in 1..m + l : j \in 1..m \/ (j > m /\ j - m \in 1..l)
    BY <2>1
  <2>3. \A j \in 1..m : j \in 1..m + l
    BY <2>1
  <2>4. \A j \in DOMAIN W : j \in DOMAIN V /\ V[j] = W[j]
    BY <2>1, <2>3
  <2>5. \A j \in DOMAIN V : j \in DOMAIN W \/ \E k \in DOMAIN B : V[j] = B[k]
    BY <2>1, <2>2
  <2> QED BY <2>4, <2>5 DEF W
<1> HIDE DEF V
<1>5. /\ T \in Seq(Scope) /\ Len(T) = Len(S)
      /\ SameNodes(S, T)
      /\ T[x].vars = V
      /\ \A i \in DOMAIN S : i # x => T[i] = S[i]
  BY <1>3, WithVars
<1> HIDE DEF T
<1>6. Grown(S, T, a)
  <2>1. DOMAIN S \subseteq DOMAIN T /\ \A i \in DOMAIN S : T[i].node = S[i].node
    BY <1>5 DEF SameNodes
  <2>2. ASSUME NEW i \in DOMAIN S, NEW j \in DOMAIN S[i].vars
        PROVE  j \in DOMAIN T[i].vars /\ T[i].vars[j] = S[i].vars[j]
    BY <1>4, <1>5
  <2>3. ASSUME NEW i \in DOMAIN T, NEW j \in DOMAIN T[i].vars
        PROVE  \/ i \in DOMAIN S /\ j \in DOMAIN S[i].vars
               \/ /\ T[i].vars[j].uses = <<>>
                  /\ T[i].vars[j].site >= a
                  /\ T[i].vars[j].site \in DOMAIN tree
                  /\ T[i].vars[j].name = tree[T[i].vars[j].site].name
    <3>1. i \in DOMAIN S
      BY <1>5 DEF SameNodes
    <3>2. CASE i # x
      BY <1>5, <3>1, <3>2
    <3>3. CASE i = x
      <4>1. j \in DOMAIN S[x].vars \/ \E k \in DOMAIN B : T[x].vars[j] = B[k]
        BY <1>4, <1>5, <3>3
      <4> QED BY <3>1, <3>3, <4>1
    <3> QED BY <3>2, <3>3
  <2> QED BY <2>1, <2>2, <2>3 DEF Grown
<1> QED BY <1>0, <1>5, <1>6

(* A scope is opened.                                                        *)
LEMMA ScopeOpened ==
  ASSUME NEW S \in Seq(Scope), NEW n \in 0..MaxNodes, NEW a
  PROVE  LET T == Append(S, OpenScope(n))
         IN /\ T \in Seq(Scope) /\ Len(T) = Len(S) + 1
            /\ T[Len(T)] = OpenScope(n) /\ \A i \in DOMAIN S : T[i] = S[i]
            /\ Grown(S, T, a)
<1> DEFINE T == Append(S, OpenScope(n))
<1>1. OpenScope(n) \in Scope /\ OpenScope(n).vars = <<>>
  BY DEF OpenScope, Scope
<1>2. /\ T \in Seq(Scope) /\ Len(T) = Len(S) + 1 /\ Len(S) \in Nat
      /\ DOMAIN S = 1..Len(S) /\ DOMAIN T = 1..Len(S) + 1
      /\ T[Len(S) + 1] = OpenScope(n) /\ \A i \in DOMAIN S : T[i] = S[i]
  BY <1>1
<1> HIDE DEF T
<1>3. \A i \in DOMAIN S : i \in DOMAIN T
  BY <1>2
<1>4. \A i \in DOMAIN T : i \in DOMAIN S \/ T[i].vars = <<>>
  <2>1. \A i \in 1..Len(S) + 1 : i \in 1..Len(S) \/ i = Len(S) + 1
    BY <1>2
  <2> QED BY <1>1, <1>2, <2>1
<1>5. Grown(S, T, a)
  BY <1>2, <1>3, <1>4 DEF Grown
<1> QED BY <1>2, <1>5 DEF T

LEMMA GrownTwice ==
  ASSUME NEW S, NEW T, NEW U, NEW a, Grown(S, T, a), Grown(T, U, a)
  PROVE  Grown(S, U, a)
BY DEF Grown

(* What happens to the open scopes happens to all of them.                   *)
LEMMA AllGrown ==
  ASSUME NEW F \in Seq(Scope), NEW S \in Seq(Scope), NEW T \in Seq(Scope), NEW a, Grown(S, T, a)
  PROVE  Grown(F \o S, F \o T, a)
<1> DEFINE A == F \o S
           B == F \o T
           n == Len(F)
<1>1. /\ n \in Nat /\ Len(S) \in Nat /\ Len(T) \in Nat
      /\ DOMAIN S = 1..Len(S) /\ DOMAIN T = 1..Len(T)
      /\ DOMAIN A = 1..n + Len(S) /\ DOMAIN B = 1..n + Len(T)
      /\ \A i \in 1..n : A[i] = F[i] /\ B[i] = F[i]
      /\ \A i \in 1..n + Len(S) : i > n => A[i] = S[i - n]
      /\ \A i \in 1..n + Len(T) : i > n => B[i] = T[i - n]
  OBVIOUS
<1>2. Len(S) <= Len(T)
  <2>1. 1..Len(S) \subseteq 1..Len(T)
    BY <1>1 DEF Grown
  <2>2. Len(S) = 0 \/ Len(S) \in 1..Len(S)
    BY ONLY <1>1
  <2> QED BY ONLY <1>1, <2>1, <2>2
<1> HIDE DEF A, B, n
<1>3. /\ \A i \in DOMAIN A : i \in DOMAIN B
      /\ \A i \in DOMAIN A : i \in 1..n \/ (i > n /\ i - n \in DOMAIN S)
      /\ \A i \in DOMAIN B : i \in 1..n \/ (i > n /\ i - n \in DOMAIN T)
      /\ \A i \in 1..n : i \in DOMAIN A /\ i \in DOMAIN B
      /\ \A i \in DOMAIN B : i > n /\ i - n \in DOMAIN S => i \in DOMAIN A
  BY <1>1, <1>2
<1>4. ASSUME NEW i \in DOMAIN A PROVE B[i].node = A[i].node
  BY <1>1, <1>3 DEF Grown
<1>5. ASSUME NEW i \in DOMAIN A, NEW j \in DOMAIN A[i].vars
      PROVE  j \in DOMAIN B[i].vars /\ B[i].vars[j] = A[i].vars[j]
  <2>1. CASE i \in 1..n
    BY <1>1, <2>1
  <2>2. CASE i > n /\ i - n \in DOMAIN S
    <3>1. A[i] = S[i - n] /\ B[i] = T[i - n]
      BY <1>1, <1>3, <2>2
    <3> QED BY <2>2, <3>1 DEF Grown
  <2> QED BY <1>3, <2>1, <2>2
<1>6. ASSUME NEW i \in DOMAIN B, NEW j \in DOMAIN B[i].vars
      PROVE  \/ i \in DOMAIN A /\ j \in DOMAIN A[i].vars
             \/ /\ B[i].vars[j].uses = <<>>
                /\ B[i].vars[j].site >= a
                /\ B[i].vars[j].site \in DOMAIN tree
                /\ B[i].vars[j].name = tree[B[i].vars[j].site].name
  <2>1. CASE i \in 1..n
    BY <1>1, <1>3, <2>1
  <2>2. CASE i > n /\ i - n \in DOMAIN T
    <3>1. B[i] = T[i - n]
      BY <1>1, <2>2
    <3>2. CASE i - n \in DOMAIN S /\ j \in DOMAIN S[i - n].vars
      <4>1. i \in DOMAIN A /\ A[i] = S[i - n]
        BY <1>1, <1>3, <2>2, <3>2
      <4> QED BY <3>2, <4>1
    <3>3. CASE ~(i - n \in DOMAIN S /\ j \in DOMAIN S[i - n].vars)
      BY <2>2, <3>1, <3>3 DEF Grown
    <3> QED BY <3>2, <3>3
  <2> QED BY <1>3, <2>1, <2>2
<1>7. Grown(A, B, a)
  BY <1>3, <1>4, <1>5, <1>6 DEF Grown
<1> QED BY <1>7 DEF A, B

LEMMA AllUsed ==
  ASSUME NEW F \in Seq(Scope), NEW S \in Seq(Scope), NEW T \in Seq(Scope),
         NEW x \in DOMAIN S, NEW y, NEW u, Used(S, T, x, y, u)
  PROVE  Used(F \o S, F \o T, Len(F) + x, y, u) /\ (F \o S)[Len(F) + x] = S[x]
<1> DEFINE A == F \o S
           B == F \o T
           n == Len(F)
<1>1. /\ n \in Nat /\ Len(S) \in Nat /\ Len(T) \in Nat
      /\ DOMAIN S = 1..Len(S) /\ DOMAIN T = 1..Len(T)
      /\ DOMAIN A = 1..n + Len(S) /\ DOMAIN B = 1..n + Len(T)
      /\ \A i \in 1..n : A[i] = F[i] /\ B[i] = F[i]
      /\ \A i \in 1..n + Len(S) : i > n => A[i] = S[i - n]
      /\ \A i \in 1..n + Len(T) : i > n => B[i] = T[i - n]
  OBVIOUS
<1>2. DOMAIN T = DOMAIN S /\ y \in DOMAIN S[x].vars
  BY DEF Used
<1>3. Len(S) = Len(T)
  BY <1>2
<1> HIDE DEF A, B, n
<1>4. /\ DOMAIN A = DOMAIN B
      /\ \A i \in DOMAIN A : i \in 1..n \/ (i > n /\ i - n \in DOMAIN S)
      /\ n + x \in DOMAIN A /\ n + x > n /\ n + x - n = x
      /\ \A i \in DOMAIN A : i > n /\ i - n = x => i = n + x
      /\ \A i \in 1..n : i # n + x
  BY <1>1, <1>3
<1>5. ASSUME NEW i \in DOMAIN A
      PROVE  \/ (i \in 1..n /\ A[i] = B[i])
             \/ (i > n /\ i - n \in DOMAIN S /\ A[i] = S[i - n] /\ B[i] = T[i - n])
  <2>1. i \in 1..n + Len(S) /\ i \in 1..n + Len(T)
    BY <1>1, <1>3
  <2>2. CASE i \in 1..n
    BY <1>1, <2>2
  <2>3. CASE i > n /\ i - n \in DOMAIN S
    BY <1>1, <2>1, <2>3
  <2> QED BY <1>4, <2>2, <2>3
<1>6. A[n + x] = S[x] /\ B[n + x] = T[x]
  BY <1>1, <1>3, <1>4
<1>7. ASSUME NEW i \in DOMAIN A
      PROVE  /\ B[i].node = A[i].node /\ DOMAIN B[i].vars = DOMAIN A[i].vars
             /\ \A j \in DOMAIN A[i].vars :
                  /\ B[i].vars[j].name = A[i].vars[j].name
                  /\ B[i].vars[j].site = A[i].vars[j].site
                  /\ DOMAIN A[i].vars[j].uses \subseteq DOMAIN B[i].vars[j].uses
                  /\ \A k \in DOMAIN A[i].vars[j].uses : B[i].vars[j].uses[k] = A[i].vars[j].uses[k]
  <2>1. CASE i \in 1..n /\ A[i] = B[i]
    BY <2>1
  <2>2. CASE i > n /\ i - n \in DOMAIN S /\ A[i] = S[i - n] /\ B[i] = T[i - n]
    BY <2>2 DEF Used
  <2> QED BY <1>5, <2>1, <2>2
<1>8. ASSUME NEW i \in DOMAIN A, NEW j \in DOMAIN A[i].vars, NEW k \in DOMAIN B[i].vars[j].uses,
             k \notin DOMAIN A[i].vars[j].uses
      PROVE  i = n + x /\ j = y /\ k = Len(A[n + x].vars[y].uses) + 1 /\ B[i].vars[j].uses[k] = u
  <2>1. i > n /\ i - n \in DOMAIN S /\ A[i] = S[i - n] /\ B[i] = T[i - n]
    BY <1>5, <1>8
  <2>2. i - n = x /\ j = y /\ k = Len(S[x].vars[y].uses) + 1 /\ T[i - n].vars[j].uses[k] = u
    BY <1>8, <2>1 DEF Used
  <2>3. i = n + x
    BY <1>4, <2>1, <2>2
  <2> QED BY <1>6, <2>1, <2>2, <2>3
<1>9. \E k \in DOMAIN B[n + x].vars[y].uses : B[n + x].vars[y].uses[k] = u
  BY <1>6 DEF Used
<1>10. Used(A, B, n + x, y, u)
  BY <1>2, <1>4, <1>6, <1>7, <1>8, <1>9 DEF Used
<1> QED BY <1>6, <1>10 DEF A, B, n
-----------------------------------------------------------------------------
(* A lookup finds the last binding of the name in the innermost scope that   *)
(* has one, and adds the use there unless that is where it was bound.        *)
LEMMA NotHeld ==
  ASSUME NEW S \in Seq(Scope), NEW name, HoldingScope(S, name) = 0
  PROVE  \A i \in DOMAIN S : \A j \in DOMAIN S[i].vars : S[i].vars[j].name # name
<1> DEFINE H == {i \in DOMAIN S : \E j \in DOMAIN S[i].vars : S[i].vars[j].name = name}
<1>1. H \in SUBSET (1..Len(S)) /\ Len(S) \in Nat
  OBVIOUS
<1>2. H # {} => Max(H) \in H
  BY <1>1, MaxIsLargest
<1>3. H # {} => Max(H) # 0
  BY <1>1, <1>2
<1>4. HoldingScope(S, name) = IF H = {} THEN 0 ELSE Max(H)
  BY DEF HoldingScope
<1>5. H = {}
  BY <1>3, <1>4
<1> QED BY <1>5

LEMMA Held ==
  ASSUME NEW S \in Seq(Scope), NEW name, HoldingScope(S, name) # 0
  PROVE  LET i == HoldingScope(S, name)
             j == LatestBinding(S[i], name)
         IN /\ i \in DOMAIN S
            /\ j \in DOMAIN S[i].vars /\ S[i].vars[j].name = name
            /\ \A l \in DOMAIN S : (\E m \in DOMAIN S[l].vars : S[l].vars[m].name = name) => l <= i
<1> DEFINE H == {i \in DOMAIN S : \E j \in DOMAIN S[i].vars : S[i].vars[j].name = name}
           i == HoldingScope(S, name)
           J == {j \in DOMAIN S[i].vars : S[i].vars[j].name = name}
<1>1. H \in SUBSET (1..Len(S)) /\ Len(S) \in Nat
  OBVIOUS
<1>2. H # {} => Max(H) \in H /\ \A l \in H : l <= Max(H)
  BY <1>1, MaxIsLargest
<1>3. i = IF H = {} THEN 0 ELSE Max(H)
  BY DEF HoldingScope
<1>4. i \in H /\ \A l \in H : l <= i
  BY <1>2, <1>3
<1> HIDE DEF i
<1>5. S[i] \in Scope
  BY <1>4
<1>6. S[i].vars \in Seq(Binding)
  BY <1>5 DEF Scope
<1>7. J \in SUBSET (1..Len(S[i].vars)) /\ Len(S[i].vars) \in Nat /\ J # {}
  BY <1>4, <1>6
<1>8. Max(J) \in J
  BY <1>7, MaxIsLargest
<1>9. LatestBinding(S[i], name) = Max(J)
  BY DEF LatestBinding
<1> QED BY <1>4, <1>8, <1>9 DEF i

LEMMA Recorded ==
  ASSUME NEW S \in Seq(Scope), NEW name, NEW u \in Site, HoldingScope(S, name) # 0
  PROVE  LET i == HoldingScope(S, name)
             j == LatestBinding(S[i], name)
             T == RecordUse(S, name, u)
         IN /\ T \in Seq(Scope) /\ Len(T) = Len(S)
            /\ SameNodes(S, T)
            /\ \/ T = S /\ S[i].vars[j].site = u
               \/ Used(S, T, i, j, u)
<1> DEFINE i == HoldingScope(S, name)
           j == LatestBinding(S[i], name)
           b == [S[i].vars[j] EXCEPT !.uses = Append(@, u)]
           V == [S[i].vars EXCEPT ![j] = b]
           T == [S EXCEPT ![i].vars = V]
<1>1. i \in DOMAIN S /\ j \in DOMAIN S[i].vars
  BY Held
<1>2. RecordUse(S, name, u) = IF S[i].vars[j].site = u THEN S
                              ELSE [S EXCEPT ![i].vars[j].uses = Append(@, u)]
  BY DEF RecordUse
<1>3. [S EXCEPT ![i].vars[j].uses = Append(@, u)] = T
  OBVIOUS
<1>4. CASE S[i].vars[j].site = u
  BY <1>2, <1>4 DEF SameNodes
<1>5. CASE S[i].vars[j].site # u
  <2> HIDE DEF i, j
  <2>1. S[i] \in Scope
    BY <1>1
  <2>2. S[i].vars \in Seq(Binding)
    BY <2>1 DEF Scope
  <2>3. S[i].vars[j] \in Binding
    BY <1>1, <2>2
  <2>4. S[i].vars[j].uses \in Seq(Site)
    BY <2>3 DEF Binding
  <2> DEFINE us == S[i].vars[j].uses
             more == Append(us, u)
  <2>8. /\ DOMAIN us = 1..Len(us) /\ DOMAIN more = 1..Len(us) + 1 /\ Len(us) \in Nat
        /\ \A k \in DOMAIN us : more[k] = us[k]
        /\ more[Len(us) + 1] = u
        /\ more \in Seq(Site)
    <3>1. us \in Seq(Site)
      BY <2>4
    <3> HIDE DEF us
    <3> QED BY <3>1
  <2>5. /\ b \in Binding
        /\ b.name = S[i].vars[j].name /\ b.site = S[i].vars[j].site
        /\ b.uses = more
    <3>1. b = [S[i].vars[j] EXCEPT !.uses = more]
      OBVIOUS
    <3> HIDE DEF b, more, us
    <3> QED BY <2>3, <2>8, <3>1 DEF Binding
  <2> HIDE DEF b, more
  <2>6. V \in Seq(Binding) /\ DOMAIN V = DOMAIN S[i].vars /\ V[j] = b
        /\ \A k \in DOMAIN S[i].vars : k # j => V[k] = S[i].vars[k]
    BY <1>1, <2>2, <2>5
  <2> HIDE DEF V
  <2>7. /\ T \in Seq(Scope) /\ Len(T) = Len(S)
        /\ SameNodes(S, T)
        /\ T[i].vars = V
        /\ \A l \in DOMAIN S : l # i => T[l] = S[l]
    BY <1>1, <2>6, WithVars
  <2> HIDE DEF T
  <2> HIDE DEF us
  <2>9. /\ \A k \in DOMAIN us : k \in DOMAIN b.uses
        /\ \A k \in DOMAIN b.uses : k \notin DOMAIN us => k = Len(us) + 1
        /\ Len(us) + 1 \in DOMAIN b.uses
    BY <2>5, <2>8
  <2>10. DOMAIN T = DOMAIN S
         /\ \A l \in DOMAIN S : T[l].node = S[l].node /\ DOMAIN T[l].vars = DOMAIN S[l].vars
    BY <2>6, <2>7 DEF SameNodes
  <2>11. ASSUME NEW l \in DOMAIN S, NEW m \in DOMAIN S[l].vars
         PROVE  /\ T[l].vars[m].name = S[l].vars[m].name
                /\ T[l].vars[m].site = S[l].vars[m].site
                /\ DOMAIN S[l].vars[m].uses \subseteq DOMAIN T[l].vars[m].uses
                /\ \A k \in DOMAIN S[l].vars[m].uses : T[l].vars[m].uses[k] = S[l].vars[m].uses[k]
                /\ \A k \in DOMAIN T[l].vars[m].uses : k \notin DOMAIN S[l].vars[m].uses =>
                     l = i /\ m = j /\ k = Len(S[i].vars[j].uses) + 1 /\ T[l].vars[m].uses[k] = u
    <3>1. CASE l = i /\ m = j
      BY <2>5, <2>6, <2>7, <2>8, <2>9, <3>1 DEF us
    <3>2. CASE l = i /\ m # j
      BY <2>6, <2>7, <3>2
    <3>3. CASE l # i
      BY <2>7, <3>3
    <3> QED BY <3>1, <3>2, <3>3
  <2>12. \E k \in DOMAIN T[i].vars[j].uses : T[i].vars[j].uses[k] = u
    BY <2>5, <2>6, <2>7, <2>8, <2>9
  <2>13. Used(S, T, i, j, u)
    BY <1>1, <2>10, <2>11, <2>12 DEF Used
  <2> QED BY <1>2, <1>3, <1>5, <2>7, <2>13 DEF i, j
<1> QED BY <1>4, <1>5
-----------------------------------------------------------------------------
LEMMA NodeFacts ==
  ASSUME tree \in PlainTree \cup SvelteTree
  PROVE  /\ tree \in Seq(NodeRec) /\ Len(tree) \in Nat /\ Len(tree) <= MaxNodes
         /\ DOMAIN tree = 1..Len(tree)
         /\ \A n \in DOMAIN tree :
              /\ n \in Nat /\ n >= 1 /\ n \in Site /\ n \in 0..MaxNodes
              /\ tree[n].name \in VarName \cup {None}
              /\ tree[n].const \in BOOLEAN
              /\ tree[n].size \in Nat /\ tree[n].size >= 1
              /\ n + tree[n].size <= Len(tree) + 1
              /\ \A m \in n..n + tree[n].size - 1 : m + tree[m].size <= n + tree[n].size
<1>1. tree \in Seq(NodeRec) /\ Len(tree) <= MaxNodes
  BY TreeAssumption
<1>2. Len(tree) \in Nat /\ DOMAIN tree = 1..Len(tree)
  BY <1>1
<1>3. ASSUME NEW n \in DOMAIN tree
      PROVE  /\ n \in Nat /\ n >= 1 /\ n \in Site /\ n \in 0..MaxNodes
             /\ tree[n].name \in VarName \cup {None}
             /\ tree[n].const \in BOOLEAN
             /\ tree[n].size \in Nat /\ tree[n].size >= 1
  <2>1. tree[n] \in NodeRec
    BY <1>1
  <2>2. n \in 1..Len(tree)
    BY <1>2
  <2> QED BY <1>1, <1>2, <2>1, <2>2, NodesAssumption DEF NodeRec, Site
<1>4. ASSUME NEW n \in DOMAIN tree
      PROVE  /\ n + tree[n].size <= Len(tree) + 1
             /\ \A m \in n..n + tree[n].size - 1 : m + tree[m].size <= n + tree[n].size
  <2>1. /\ n + tree[n].size - 1 <= Len(tree)
        /\ \A m \in n..n + tree[n].size - 1 : m + tree[m].size <= n + tree[n].size
    BY TreeAssumption
  <2> QED BY <1>2, <1>3, <2>1
<1> QED BY <1>1, <1>2, <1>3, <1>4

LEMMA KindFacts ==
  ASSUME tree \in PlainTree \cup SvelteTree, NEW n \in DOMAIN tree
  PROVE  /\ tree[n].kind \in {"param", "ident"} => tree[n].name \in VarName
         /\ tree[n].kind \in {"decl", "assign"} => n + 1 \in DOMAIN tree /\ tree[n + 1].kind = "ident"
                                                 /\ tree[n + 1].name = tree[n].name
                                                 /\ tree[n].name \in VarName
         /\ tree[n].kind = "func" /\ tree[n].name # None =>
                n + 1 \in DOMAIN tree /\ tree[n + 1].name = tree[n].name /\ tree[n].name \in VarName
         /\ tree[n].kind = "each" => n + 1 \in DOMAIN tree /\ tree[n + 1].kind = "param"
                                   /\ tree[n].size = 2
                                   /\ tree[n].name \in VarName /\ tree[n + 1].name \in VarName
<1>1. ASSUME NEW m \in DOMAIN tree, tree[m].kind \in {"param", "ident"} PROVE tree[m].name \in VarName
  <2>1. tree[m].name # None
    BY <1>1, TreeAssumption
  <2> QED BY <2>1, NodeFacts
<1>2. tree[n].size > 1 => n + 1 \in DOMAIN tree
  BY NodeFacts
<1>3. tree[n].kind \in {"decl", "assign"} => tree[n].size > 1 /\ tree[n + 1].kind = "ident"
                                           /\ tree[n + 1].name = tree[n].name
  BY TreeAssumption
<1>4. tree[n].kind = "func" /\ tree[n].name # None =>
        tree[n].size > 1 /\ tree[n + 1].name = tree[n].name
  BY TreeAssumption
<1>5. tree[n].kind = "each" => tree[n].size = 2 /\ tree[n].name # None /\ tree[n + 1].kind = "param"
  BY TreeAssumption
<1>6. tree[n].name # None => tree[n].name \in VarName
  BY NodeFacts
<1>7. tree[n].size = 2 => tree[n].size > 1
  OBVIOUS
<1> QED BY <1>1, <1>2, <1>3, <1>4, <1>5, <1>6, <1>7

LEMMA SpanFacts ==
  ASSUME tree \in PlainTree \cup SvelteTree
  PROVE  /\ Span(Root) = DOMAIN tree
         /\ \A n \in DOMAIN tree : /\ Span(n) = n..n + tree[n].size - 1
                                  /\ n \in Span(n)
                                  /\ Span(n) \subseteq DOMAIN tree
                                  /\ \A m \in Span(n) : Span(m) \subseteq Span(n)
<1>1. Span(Root) = DOMAIN tree
  BY DEF Span
<1>2. \A n \in DOMAIN tree : Span(n) = n..n + tree[n].size - 1
  <2>1. \A n \in DOMAIN tree : n # Root
    BY NodeFacts DEF Root
  <2> QED BY <2>1 DEF Span
<1>3. ASSUME NEW n \in DOMAIN tree PROVE n \in Span(n) /\ Span(n) \subseteq DOMAIN tree
  <2> DEFINE z == tree[n].size
  <2>1. /\ n \in Nat /\ n >= 1 /\ z \in Nat /\ z >= 1 /\ n + z <= Len(tree) + 1
        /\ DOMAIN tree = 1..Len(tree) /\ Len(tree) \in Nat
    BY NodeFacts
  <2>2. Span(n) = n..n + z - 1
    BY <1>2
  <2> HIDE DEF z
  <2>3. n \in n..n + z - 1 /\ n..n + z - 1 \subseteq 1..Len(tree)
    BY ONLY <2>1
  <2> QED BY <2>1, <2>2, <2>3
<1>4. ASSUME NEW n \in DOMAIN tree, NEW m \in Span(n) PROVE Span(m) \subseteq Span(n)
  <2>1. m \in DOMAIN tree /\ m \in n..n + tree[n].size - 1
    BY <1>2, <1>3
  <2>2. m + tree[m].size <= n + tree[n].size
    BY <2>1, NodeFacts
  <2>3. n \in Nat /\ m \in Nat /\ tree[n].size \in Nat /\ tree[m].size \in Nat
    BY <2>1, NodeFacts
  <2>4. m..m + tree[m].size - 1 \subseteq n..n + tree[n].size - 1
    BY ONLY <2>1, <2>2, <2>3
  <2> QED BY <1>2, <2>1, <2>4
<1> QED BY <1>1, <1>2, <1>3, <1>4

LEMMA ScopesAre ==
  ASSUME NEW F \in Seq(Scope), NEW S \in Seq(Scope)
  PROVE  /\ F \o S \in Seq(Scope)
         /\ \A l \in DOMAIN (F \o S) :
              \/ (l \in DOMAIN F /\ (F \o S)[l] = F[l])
              \/ (l > Len(F) /\ l - Len(F) \in DOMAIN S /\ (F \o S)[l] = S[l - Len(F)])
         /\ \A l \in DOMAIN S : Len(F) + l \in DOMAIN (F \o S) /\ (F \o S)[Len(F) + l] = S[l]
<1> DEFINE A == F \o S
<1>1. /\ Len(F) \in Nat /\ Len(S) \in Nat /\ A \in Seq(Scope)
      /\ DOMAIN F = 1..Len(F) /\ DOMAIN S = 1..Len(S) /\ DOMAIN A = 1..Len(F) + Len(S)
      /\ \A i \in 1..Len(F) : A[i] = F[i]
      /\ \A i \in 1..Len(F) + Len(S) : i > Len(F) => A[i] = S[i - Len(F)]
  OBVIOUS
<1> HIDE DEF A
<1>2. \A l \in 1..Len(F) + Len(S) : l \in 1..Len(F) \/ (l > Len(F) /\ l - Len(F) \in 1..Len(S))
  BY <1>1
<1>3. \A l \in 1..Len(S) : /\ Len(F) + l \in 1..Len(F) + Len(S) /\ Len(F) + l > Len(F)
                          /\ Len(F) + l - Len(F) = l
  BY <1>1
<1>4. \A l \in DOMAIN A :
        \/ (l \in DOMAIN F /\ A[l] = F[l])
        \/ (l > Len(F) /\ l - Len(F) \in DOMAIN S /\ A[l] = S[l - Len(F)])
  BY <1>1, <1>2
<1>5. \A l \in DOMAIN S : Len(F) + l \in DOMAIN A /\ A[Len(F) + l] = S[l]
  BY <1>1, <1>3
<1> QED BY <1>1, <1>4, <1>5 DEF A

(* A node that is visited lies in every open scope and in no closed one.     *)
LEMMA Visited ==
  ASSUME WalkInv, ~done, ~Leaving, at <= Len(tree)
  PROVE  /\ at \in DOMAIN tree /\ at \in Site
         /\ \A i \in DOMAIN stack : at \in Span(stack[i].node)
         /\ \A i \in DOMAIN finished : at \notin Span(finished[i].node)
<1>0. /\ stack \in Seq(Scope) /\ at \in 1..MaxNodes + 1 /\ finished \in Seq(Scope)
      /\ tree \in PlainTree \cup SvelteTree
      /\ Nested(stack, at) /\ Left(finished, at)
  BY DEF WalkInv, WalkTypeOK
<1>1. at \in DOMAIN tree /\ at \in Site /\ at \in Nat
  BY <1>0, NodeFacts, NodesAssumption
<1>2. DOMAIN stack = 1..Len(stack) /\ Len(stack) \in Nat /\ Len(stack) >= 1
  BY <1>0 DEF Nested
<1>3. at \in Span(stack[Len(stack)].node)
  <2>1. CASE Len(stack) > 1
    BY <2>1 DEF Leaving, Last
  <2>2. CASE Len(stack) = 1
    BY <1>0, <1>1, <2>2, SpanFacts DEF Nested
  <2> QED BY <1>2, <2>1, <2>2
<1>4. ASSUME NEW i \in DOMAIN stack PROVE at \in Span(stack[i].node)
  <2>1. i = Len(stack) \/ (i < Len(stack) /\ Len(stack) \in DOMAIN stack)
    BY <1>2
  <2> QED BY <1>0, <1>3, <2>1 DEF Nested
<1>5. ASSUME NEW i \in DOMAIN finished PROVE at \notin Span(finished[i].node)
  <2> DEFINE n == finished[i].node
  <2>1. n \in DOMAIN tree /\ n + tree[n].size <= at
    BY <1>0 DEF Left
  <2>2. Span(n) = n..n + tree[n].size - 1 /\ n \in Nat /\ tree[n].size \in Nat
    BY <1>0, <2>1, SpanFacts, NodeFacts
  <2> HIDE DEF n
  <2>3. at \notin n..n + tree[n].size - 1
    BY ONLY <1>1, <2>1, <2>2
  <2> QED BY <2>2, <2>3 DEF n
<1> QED BY <1>1, <1>4, <1>5

LEMMA NestedStays ==
  ASSUME tree \in PlainTree \cup SvelteTree, NEW a \in Nat, NEW S \in Seq(Scope), NEW T \in Seq(Scope),
         Nested(S, a), SameNodes(S, T), \A i \in DOMAIN S : a \in Span(S[i].node)
  PROVE  Nested(T, a + 1)
<1>1. T # <<>>
  BY DEF Nested, SameNodes
<1>2. 1 \in DOMAIN S
  BY DEF Nested
<1>3. T[1].node = Root
  BY <1>2 DEF Nested, SameNodes
<1>4. ASSUME NEW i \in DOMAIN T, T[i].node # Root
      PROVE  T[i].node \in DOMAIN tree /\ T[i].node < a + 1 /\ a + 1 <= T[i].node + tree[T[i].node].size
  <2> DEFINE n == S[i].node
  <2>1. i \in DOMAIN S /\ T[i].node = n
    BY DEF SameNodes
  <2>2. n \in DOMAIN tree /\ n < a /\ a \in Span(n)
    BY <1>4, <2>1 DEF Nested
  <2>3. n \in Nat /\ tree[n].size \in Nat /\ a \in n..n + tree[n].size - 1
    BY <2>2, SpanFacts, NodeFacts
  <2> HIDE DEF n
  <2>4. n < a + 1 /\ a + 1 <= n + tree[n].size
    BY ONLY <2>2, <2>3, a \in Nat
  <2> QED BY <2>1, <2>2, <2>4
<1>5. ASSUME NEW i \in DOMAIN T, NEW j \in DOMAIN T, i < j
      PROVE  T[i].node < T[j].node /\ Span(T[j].node) \subseteq Span(T[i].node)
  BY <1>5 DEF Nested, SameNodes
<1> QED BY <1>1, <1>3, <1>4, <1>5 DEF Nested

LEMMA NestedOpens ==
  ASSUME tree \in PlainTree \cup SvelteTree, NEW a \in DOMAIN tree, NEW S \in Seq(Scope), NEW T \in Seq(Scope),
         Nested(S, a), SameNodes(Append(S, OpenScope(a)), T),
         \A i \in DOMAIN S : a \in Span(S[i].node)
  PROVE  Nested(T, a + 1)
<1> DEFINE m == Len(S) + 1
<1>1. a \in Nat /\ a >= 1 /\ a \in 0..MaxNodes
  BY NodeFacts
<1>2. /\ Len(S) \in Nat /\ Len(S) >= 1 /\ DOMAIN S = 1..Len(S) /\ DOMAIN T = 1..m
      /\ T[m].node = a
      /\ \A i \in DOMAIN S : i \in DOMAIN T /\ T[i].node = S[i].node
  <2>1. OpenScope(a) \in Scope /\ OpenScope(a).node = a
    BY <1>1 DEF OpenScope, Scope
  <2>2. Len(S) \in Nat /\ Len(S) >= 1 /\ DOMAIN S = 1..Len(S)
    BY DEF Nested
  <2>3. DOMAIN Append(S, OpenScope(a)) = 1..m
    BY <2>1
  <2>4. Append(S, OpenScope(a))[m] = OpenScope(a) /\ \A i \in DOMAIN S : Append(S, OpenScope(a))[i] = S[i]
    BY <2>1
  <2>5. m \in 1..m /\ \A i \in DOMAIN S : i \in 1..m
    BY ONLY <2>2
  <2> HIDE DEF m
  <2> QED BY <2>1, <2>2, <2>3, <2>4, <2>5 DEF SameNodes
<1>3. /\ \A i \in DOMAIN T : i \in DOMAIN S \/ i = m
      /\ 1 \in DOMAIN S
      /\ \A i, j \in DOMAIN T : i < j => i \in DOMAIN S
      /\ \A i \in DOMAIN S : i < m
  BY ONLY <1>2
<1> HIDE DEF m
<1>4. T # <<>> /\ T[1].node = Root
  <2>1. 1 \in DOMAIN T /\ T[1].node = S[1].node
    BY <1>2, <1>3
  <2>2. T # <<>>
    BY <2>1
  <2>3. S[1].node = Root
    BY DEF Nested
  <2> QED BY <2>1, <2>2, <2>3
<1>5. ASSUME NEW i \in DOMAIN T, T[i].node # Root
      PROVE  T[i].node \in DOMAIN tree /\ T[i].node < a + 1 /\ a + 1 <= T[i].node + tree[T[i].node].size
  <2>1. CASE i = m
    <3>1. tree[a].size \in Nat /\ tree[a].size >= 1
      BY NodeFacts
    <3>2. a < a + 1 /\ a + 1 <= a + tree[a].size
      BY ONLY <1>1, <3>1
    <3> QED BY <1>2, <2>1, <3>2
  <2>2. CASE i \in DOMAIN S
    <3> DEFINE n == S[i].node
    <3>1. T[i].node = n
      BY <1>2, <2>2
    <3>2. n \in DOMAIN tree /\ n < a /\ a \in Span(n)
      BY <1>5, <2>2, <3>1 DEF Nested
    <3>3. n \in Nat /\ tree[n].size \in Nat /\ a \in n..n + tree[n].size - 1
      BY <3>2, SpanFacts, NodeFacts
    <3> HIDE DEF n
    <3>4. n < a + 1 /\ a + 1 <= n + tree[n].size
      BY ONLY <1>1, <3>2, <3>3
    <3> QED BY <3>1, <3>2, <3>4
  <2> QED BY <1>3, <2>1, <2>2
<1>6. ASSUME NEW i \in DOMAIN T, NEW j \in DOMAIN T, i < j
      PROVE  T[i].node < T[j].node /\ Span(T[j].node) \subseteq Span(T[i].node)
  <2>1. i \in DOMAIN S /\ T[i].node = S[i].node
    BY <1>2, <1>3, <1>6
  <2>2. CASE j \in DOMAIN S
    BY <1>2, <1>6, <2>1, <2>2 DEF Nested
  <2>3. CASE j = m
    <3>1. S[i].node = Root \/ (S[i].node \in DOMAIN tree /\ S[i].node < a)
      BY <2>1 DEF Nested
    <3>2. S[i].node < a
      BY <1>1, <3>1 DEF Root
    <3>3. Span(a) \subseteq Span(S[i].node)
      BY <2>1, <3>1, SpanFacts
    <3> QED BY <1>2, <2>1, <2>3, <3>2, <3>3
  <2> QED BY <1>3, <2>2, <2>3
<1> QED BY <1>4, <1>5, <1>6 DEF Nested

LEMMA LeftStays ==
  ASSUME tree \in PlainTree \cup SvelteTree, NEW F, NEW a \in Nat, NEW b \in Nat, Left(F, a), a <= b
  PROVE  Left(F, b)
<1> SUFFICES ASSUME NEW i \in DOMAIN F
             PROVE  F[i].node \in DOMAIN tree /\ F[i].node + tree[F[i].node].size <= b
  BY DEF Left
<1>1. F[i].node \in DOMAIN tree /\ F[i].node + tree[F[i].node].size <= a
  BY DEF Left
<1>2. F[i].node \in Nat /\ tree[F[i].node].size \in Nat
  BY <1>1, NodeFacts
<1> QED BY <1>1, <1>2
-----------------------------------------------------------------------------
(* What the captures of a query on node n add to the innermost scope.        *)
LEMMA ParamsAdded ==
  ASSUME tree \in PlainTree \cup SvelteTree, sid \in Nat, NEW n \in DOMAIN tree,
         NEW S \in Seq(Scope), S # <<>>
  PROVE  LET T == CollectParams(S, n)
         IN /\ T \in Seq(Scope) /\ Len(T) = Len(S)
            /\ SameNodes(S, T)
            /\ Grown(S, T, n)
<1> DEFINE hits == Matches(n, "param")
           B == [k \in DOMAIN hits |-> NewBinding(tree[hits[k]].name, sid + k, hits[k], FALSE, TRUE)]
<1>1. tree \in Seq(NodeRec) /\ Span(n) \subseteq DOMAIN tree /\ n \in Nat
  BY NodeFacts, SpanFacts
<1>2. /\ hits \in Seq(Span(n)) /\ Len(hits) \in Nat
      /\ \A k \in DOMAIN hits : hits[k] \in Span(n) /\ tree[hits[k]].kind = "param"
  BY <1>1, MatchesListed
<1>3. DOMAIN hits = 1..Len(hits)
  BY <1>2
<1> HIDE DEF hits
<1>4. ASSUME NEW k \in DOMAIN hits
      PROVE  /\ B[k] \in Binding /\ B[k].uses = <<>> /\ B[k].site >= n /\ B[k].site \in DOMAIN tree
             /\ B[k].name = tree[B[k].site].name
  <2>1. hits[k] \in DOMAIN tree /\ hits[k] \in n..n + tree[n].size - 1 /\ hits[k] \in Site
    BY <1>1, <1>2, SpanFacts, NodeFacts
  <2>2. hits[k] >= n
    BY <1>1, <2>1
  <2>3. tree[hits[k]].name \in VarName
    BY <1>2, <2>1, KindFacts
  <2>4. sid + k \in Nat
    BY <1>3
  <2>5. /\ B[k].uses = <<>> /\ B[k].site = hits[k] /\ B[k].name = tree[hits[k]].name
        /\ B[k] \in Binding
    BY <2>1, <2>3, <2>4 DEF NewBinding, Binding
  <2> QED BY <2>1, <2>2, <2>5
<1>5. B \in Seq(Binding) /\ DOMAIN B = DOMAIN hits
  <2>1. B \in [1..Len(hits) -> Binding]
    BY <1>3, <1>4
  <2>2. DOMAIN B = DOMAIN hits
    OBVIOUS
  <2> HIDE DEF B
  <2> QED BY <1>2, <2>1, <2>2
<1>6. Len(S) \in DOMAIN S
  OBVIOUS
<1>7. CollectParams(S, n) = [S EXCEPT ![Len(S)].vars = @ \o B]
  BY DEF CollectParams, hits
<1> HIDE DEF B
<1>8. LET T == [S EXCEPT ![Len(S)].vars = @ \o B]
      IN /\ T \in Seq(Scope) /\ Len(T) = Len(S)
         /\ SameNodes(S, T)
         /\ Grown(S, T, n)
  BY <1>1, <1>4, <1>5, <1>6, AddBindings
<1> QED BY <1>7, <1>8

LEMMA VariablesAdded ==
  ASSUME tree \in PlainTree \cup SvelteTree, sid \in Nat, NEW n \in DOMAIN tree,
         NEW S \in Seq(Scope), S # <<>>, NEW kind \in {"decl", "assign"}
  PROVE  LET T == CollectBindings(S, n, kind)
         IN /\ T \in Seq(Scope) /\ Len(T) = Len(S)
            /\ SameNodes(S, T)
            /\ Grown(S, T, n)
<1> DEFINE hits == Matches(n, kind)
           B == [k \in DOMAIN hits |->
                   NewBinding(tree[hits[k]].name, sid + k, hits[k] + 1, tree[hits[k]].const, FALSE)]
<1>1. tree \in Seq(NodeRec) /\ Span(n) \subseteq DOMAIN tree /\ n \in Nat
  BY NodeFacts, SpanFacts
<1>2. /\ hits \in Seq(Span(n)) /\ Len(hits) \in Nat
      /\ \A k \in DOMAIN hits : hits[k] \in Span(n) /\ tree[hits[k]].kind = kind
  BY <1>1, MatchesListed
<1>3. DOMAIN hits = 1..Len(hits)
  BY <1>2
<1> HIDE DEF hits
<1>4. ASSUME NEW k \in DOMAIN hits
      PROVE  /\ B[k] \in Binding /\ B[k].uses = <<>> /\ B[k].site >= n /\ B[k].site \in DOMAIN tree
             /\ B[k].name = tree[B[k].site].name
  <2>1. hits[k] \in DOMAIN tree /\ hits[k] \in n..n + tree[n].size - 1 /\ hits[k] \in Nat
    BY <1>1, <1>2, SpanFacts, NodeFacts
  <2>2. hits[k] + 1 >= n
    BY <1>1, <2>1
  <2>3. /\ hits[k] + 1 \in DOMAIN tree /\ tree[hits[k] + 1].name = tree[hits[k]].name
        /\ tree[hits[k]].name \in VarName
    BY <1>2, <2>1, KindFacts
  <2>4. sid + k \in Nat
    BY <1>3
  <2>5. hits[k] + 1 \in Site /\ tree[hits[k]].const \in BOOLEAN
    BY <2>1, <2>3, NodeFacts
  <2>6. /\ B[k].uses = <<>> /\ B[k].site = hits[k] + 1 /\ B[k].name = tree[hits[k]].name
        /\ B[k] \in Binding
    BY <2>3, <2>4, <2>5 DEF NewBinding, Binding
  <2> QED BY <2>2, <2>3, <2>6
<1>5. B \in Seq(Binding) /\ DOMAIN B = DOMAIN hits
  <2>1. B \in [1..Len(hits) -> Binding]
    BY <1>3, <1>4
  <2>2. DOMAIN B = DOMAIN hits
    OBVIOUS
  <2> HIDE DEF B
  <2> QED BY <1>2, <2>1, <2>2
<1>6. Len(S) \in DOMAIN S
  OBVIOUS
<1>7. CollectBindings(S, n, kind) = [S EXCEPT ![Len(S)].vars = @ \o B]
  BY DEF CollectBindings, hits
<1> HIDE DEF B
<1>8. LET T == [S EXCEPT ![Len(S)].vars = @ \o B]
      IN /\ T \in Seq(Scope) /\ Len(T) = Len(S)
         /\ SameNodes(S, T)
         /\ Grown(S, T, n)
  BY <1>1, <1>4, <1>5, <1>6, AddBindings
<1> QED BY <1>7, <1>8

(* One binding of its own, as for the name of a function or of an {#each}.   *)
LEMMA OneBound ==
  ASSUME NEW S \in Seq(Scope), NEW i \in DOMAIN S, NEW m \in DOMAIN tree, m \in Site,
         NEW a \in Nat, m >= a,
         tree[m].name \in VarName, NEW id \in Nat, NEW param \in BOOLEAN
  PROVE  LET T == Bind(S, i, NewBinding(tree[m].name, id, m, FALSE, param))
         IN /\ T \in Seq(Scope) /\ Len(T) = Len(S)
            /\ SameNodes(S, T)
            /\ Grown(S, T, a)
<1> DEFINE b == NewBinding(tree[m].name, id, m, FALSE, param)
           B == <<b>>
<1>1. /\ b \in Binding /\ b.uses = <<>> /\ b.site = m /\ b.name = tree[m].name
  BY DEF NewBinding, Binding
<1> HIDE DEF b
<1>2. B \in Seq(Binding) /\ \A k \in DOMAIN B : B[k] = b
  BY <1>1
<1>3. S[i].vars \in Seq(Binding)
  <2>1. S[i] \in Scope
    OBVIOUS
  <2> QED BY <2>1 DEF Scope
<1>4. Append(S[i].vars, b) = S[i].vars \o B
  BY <1>1, <1>3, AppendIsConcat
<1>5. Bind(S, i, b) = [S EXCEPT ![i].vars = @ \o B]
  BY <1>4 DEF Bind
<1> HIDE DEF B
<1>6. LET T == [S EXCEPT ![i].vars = @ \o B]
      IN /\ T \in Seq(Scope) /\ Len(T) = Len(S)
         /\ SameNodes(S, T)
         /\ Grown(S, T, a)
  BY <1>1, <1>2, AddBindings
<1> QED BY <1>5, <1>6 DEF b

(* The lookup of the node that is visited, in what is known of the others.   *)
LEMMA LookupFits ==
  ASSUME WalkInv, ~done, ~Leaving, at <= Len(tree),
         NEW name, name = tree[at].name
  PROVE  /\ HoldingScope(stack, name) # 0 =>
              LET T == RecordUse(stack, name, at)
              IN /\ T \in Seq(Scope) /\ Len(T) = Len(stack)
                 /\ SameNodes(stack, T)
                 /\ ScopesFit(finished \o T, pending, at + 1, Root)
         /\ HoldingScope(stack, name) = 0 => ScopesFit(Scopes, Append(pending, at), at + 1, Root)
         /\ HoldingScope(stack, name) = 0 /\ ~svelte => ScopesFit(Scopes, pending, at + 1, Root)
<1>0. /\ stack \in Seq(Scope) /\ finished \in Seq(Scope) /\ pending \in Seq(Site)
      /\ tree \in PlainTree \cup SvelteTree
      /\ Nested(stack, at) /\ ScopesFit(Scopes, pending, at, Root)
  BY DEF WalkInv, WalkTypeOK
<1>1. /\ at \in DOMAIN tree /\ at \in Site
      /\ \A i \in DOMAIN stack : at \in Span(stack[i].node)
      /\ \A i \in DOMAIN finished : at \notin Span(finished[i].node)
  BY Visited
<1>2. tree \in Seq(NodeRec) /\ at \in Nat \ {0} /\ at # Root
  BY <1>0, <1>1, NodeFacts DEF Root
<1>3. ScopesFit(Scopes, pending, at + 1, at)
  BY <1>0, <1>1, <1>2, VisitFits
<1>4. \A l \in DOMAIN Scopes :
        \/ (l \in DOMAIN finished /\ Scopes[l] = finished[l])
        \/ (l > Len(finished) /\ l - Len(finished) \in DOMAIN stack /\ Scopes[l] = stack[l - Len(finished)])
  BY <1>0, ScopesAre DEF Scopes
<1>5. ASSUME HoldingScope(stack, name) = 0
      PROVE  ScopesFit(Scopes, Append(pending, at), at + 1, Root) /\ (~svelte => ScopesFit(Scopes, pending, at + 1, Root))
  <2>1. \A i \in DOMAIN stack : \A j \in DOMAIN stack[i].vars : stack[i].vars[j].name # name
    BY <1>0, <1>5, NotHeld
  <2>2. \A l \in DOMAIN Scopes : \A m \in DOMAIN Scopes[l].vars :
          ~(Scopes[l].vars[m].name = tree[at].name /\ at \in Span(Scopes[l].node))
    BY <1>1, <1>4, <2>1
  <2>3. ScopesFit(Scopes, Append(pending, at), at + 1, Root)
    BY <1>0, <1>1, <1>2, <1>3, <2>2, DeferFits
  <2>4. ~svelte => ScopesFit(Scopes, pending, at + 1, Root)
    BY <1>3, SkipFits
  <2> QED BY <2>3, <2>4
<1>6. ASSUME HoldingScope(stack, name) # 0
      PROVE  LET T == RecordUse(stack, name, at)
             IN /\ T \in Seq(Scope) /\ Len(T) = Len(stack)
                /\ SameNodes(stack, T)
                /\ ScopesFit(finished \o T, pending, at + 1, Root)
  <2> DEFINE i == HoldingScope(stack, name)
             j == LatestBinding(stack[i], name)
             T == RecordUse(stack, name, at)
             n == Len(finished)
  <2>1. /\ i \in DOMAIN stack
        /\ j \in DOMAIN stack[i].vars /\ stack[i].vars[j].name = name
        /\ \A l \in DOMAIN stack : (\E m \in DOMAIN stack[l].vars : stack[l].vars[m].name = name) => l <= i
    BY <1>0, <1>6, Held
  <2>2. /\ T \in Seq(Scope) /\ Len(T) = Len(stack)
        /\ SameNodes(stack, T)
        /\ \/ T = stack /\ stack[i].vars[j].site = at
           \/ Used(stack, T, i, j, at)
    BY <1>0, <1>1, <1>6, Recorded
  <2> HIDE DEF i, j, T
  <2>3. Scopes = finished \o stack /\ n + i \in DOMAIN Scopes /\ Scopes[n + i] = stack[i]
    BY <1>0, <2>1, ScopesAre DEF Scopes
  <2>4. CASE T = stack /\ stack[i].vars[j].site = at
    <3>1. \E l \in DOMAIN Scopes : \E m \in DOMAIN Scopes[l].vars : Scopes[l].vars[m].site = at
      BY <2>1, <2>3, <2>4
    <3>2. ScopesFit(Scopes, pending, at + 1, Root)
      BY <1>3, <3>1, SkipFits
    <3> QED BY <2>2, <2>3, <2>4, <3>2 DEF T
  <2>5. CASE Used(stack, T, i, j, at)
    <3>1. Used(Scopes, finished \o T, n + i, j, at)
      BY <1>0, <2>1, <2>2, <2>3, <2>5, AllUsed
    <3>2. ASSUME NEW l \in DOMAIN Scopes, NEW m \in DOMAIN Scopes[l].vars,
                 Scopes[l].vars[m].name = tree[at].name, Scopes[l].vars[m].site < at,
                 at \in Span(Scopes[l].node), Scopes[n + i].node < Scopes[l].node
          PROVE  FALSE
      <4>1. l > n /\ l - n \in DOMAIN stack /\ Scopes[l] = stack[l - n]
        BY <1>1, <1>4, <3>2
      <4>2. l - n <= i
        BY <2>1, <3>2, <4>1
      <4>3. l - n = i \/ l - n < i
        BY <2>1, <4>1, <4>2, <1>0
      <4>4. stack[l - n].node = stack[i].node \/ stack[l - n].node < stack[i].node
        BY <1>0, <2>1, <4>1, <4>3 DEF Nested
      <4>5. stack[i].node \in Nat /\ stack[l - n].node \in Nat
        <5>1. stack[i] \in Scope /\ stack[l - n] \in Scope
          BY <1>0, <2>1, <4>1
        <5> QED BY <5>1, NodesAssumption DEF Scope
      <4>6. stack[i].node < stack[l - n].node
        BY <2>3, <3>2, <4>1
      <4> QED BY ONLY <4>4, <4>5, <4>6
    <3>3. at \in Span(Scopes[n + i].node) /\ tree[at].name = Scopes[n + i].vars[j].name
      BY <1>1, <2>1, <2>3
    <3>4. ScopesFit(finished \o T, pending, at + 1, Root)
      BY <1>2, <1>3, <3>1, <3>2, <3>3, UsedFits
    <3> QED BY <2>2, <3>4 DEF T
  <2> QED BY <2>2, <2>4, <2>5
<1> QED BY <1>5, <1>6
-----------------------------------------------------------------------------
(* What holds of the next state, said of the tree of this one.               *)
LEMMA Carried ==
  ASSUME UNCHANGED <<svelte, tree>>
  PROVE  /\ ScopesFit(Scopes', pending', at', Root) => ScopesFit(Scopes, pending, at, Root)'
         /\ Nested(stack', at') => Nested(stack, at)'
         /\ Left(finished', at') => Left(finished, at)'
<1>1. UsesFit(Scopes', at') => UsesFit(Scopes, at)'
  BY DEF UsesFit, Span, Root
<1>2. UsesDiffer(Scopes') => UsesDiffer(Scopes)'
  BY DEF UsesDiffer
<1>3. PendingFits(Scopes', pending', at') => PendingFits(Scopes, pending, at)'
  BY DEF PendingFits
<1>4. SitesNamed(Scopes') => SitesNamed(Scopes)'
  BY DEF SitesNamed
<1>5. UsesNearest(Scopes') => UsesNearest(Scopes)'
  BY DEF UsesNearest, Span, Root
<1>6. PendingUnbound(Scopes', pending') => PendingUnbound(Scopes, pending)'
  BY DEF PendingUnbound, Span, Root
<1>7. NoneForgotten(Scopes', pending', at', Root) => NoneForgotten(Scopes, pending, at, Root)'
  BY DEF NoneForgotten, Root
<1>8. LookedUp(Scopes, pending, at, Root)'
  BY DEF LookedUp
<1>9. ScopesFit(Scopes', pending', at', Root) => ScopesFit(Scopes, pending, at, Root)'
  BY <1>1, <1>2, <1>3, <1>4, <1>5, <1>6, <1>7, <1>8 DEF ScopesFit
<1>10. Nested(stack', at') => Nested(stack, at)'
  BY DEF Nested, Span, Root
<1>11. Left(finished', at') => Left(finished, at)'
  BY DEF Left
<1> QED BY <1>9, <1>10, <1>11

LEMMA InvOfStep ==
  ASSUME WalkInv, UNCHANGED <<svelte, tree>>, ~done', at' <= Len(tree) + 1,
         at' \in 1..MaxNodes + 1, stack' \in Seq(Scope), finished' \in Seq(Scope),
         pending' \in Seq(Site), sid' \in Nat, done' \in BOOLEAN,
         Nested(stack', at'), Left(finished', at'), ScopesFit(finished' \o stack', pending', at', Root)
  PROVE  WalkInv'
<1>1. Scopes' = finished' \o stack'
  BY DEF Scopes
<1>2. ScopesFit(Scopes', pending', at', Root)
  BY <1>1
<1>3. ScopesFit(Scopes, pending, at, Root)' /\ Nested(stack, at)' /\ Left(finished, at)'
  BY <1>2, Carried
<1>4. WalkTypeOK'
  BY DEF WalkInv, WalkTypeOK
<1>5. (tree \in PlainTree \cup SvelteTree)'
  BY DEF WalkInv
<1> QED BY <1>3, <1>4, <1>5 DEF WalkInv

LEMMA VisitStep ==
  ASSUME WalkInv, UNCHANGED <<svelte, tree, finished, done>>, ~done, ~Leaving, at <= Len(tree),
         NEW d \in 1..2, at' = at + d, at' <= Len(tree) + 1
  PROVE  at' \in 1..MaxNodes + 1 /\ ~done' /\ done' \in BOOLEAN /\ finished' \in Seq(Scope)
         /\ Left(finished', at')
<1>1. /\ at \in 1..MaxNodes + 1 /\ tree \in PlainTree \cup SvelteTree /\ finished \in Seq(Scope)
      /\ Left(finished, at) /\ done \in BOOLEAN
  BY DEF WalkInv, WalkTypeOK
<1>2. Len(tree) \in Nat /\ Len(tree) <= MaxNodes /\ MaxNodes \in Nat
  BY <1>1, NodeFacts, NodesAssumption
<1>3. at \in Nat /\ at' \in Nat /\ at <= at' /\ at' \in 1..MaxNodes + 1
  BY <1>1, <1>2
<1>4. Left(finished, at')
  BY <1>1, <1>3, LeftStays
<1> QED BY <1>1, <1>3, <1>4

LEMMA ReferenceKeeps == ASSUME WalkInv, Reference PROVE WalkInv'
<1> DEFINE name == tree[at].name
           T == RecordUse(stack, name, at)
           held == HoldingScope(stack, name) # 0
<1>0. /\ stack \in Seq(Scope) /\ finished \in Seq(Scope) /\ pending \in Seq(Site) /\ sid \in Nat
      /\ tree \in PlainTree \cup SvelteTree /\ at \in 1..MaxNodes + 1
      /\ ~done => Nested(stack, at)
  BY DEF WalkInv, WalkTypeOK
<1>1. /\ ~done /\ ~Leaving /\ at <= Len(tree) /\ at' = at + 1 /\ UNCHANGED <<svelte, tree, finished, done>>
      /\ sid' = sid
      /\ held => stack' = T /\ pending' = pending
      /\ ~held => stack' = stack /\ pending' = IF svelte THEN Append(pending, at) ELSE pending
  BY DEF Reference, Visiting
<1>2. /\ at \in DOMAIN tree /\ at \in Site /\ \A i \in DOMAIN stack : at \in Span(stack[i].node)
  BY <1>1, Visited
<1>3. /\ held => /\ T \in Seq(Scope) /\ Len(T) = Len(stack)
                 /\ SameNodes(stack, T)
                 /\ ScopesFit(finished \o T, pending, at + 1, Root)
      /\ ~held => ScopesFit(Scopes, Append(pending, at), at + 1, Root)
      /\ ~held /\ ~svelte => ScopesFit(Scopes, pending, at + 1, Root)
  BY <1>1, LookupFits
<1> HIDE DEF T, held
<1>4. at \in Nat /\ Len(tree) \in Nat
  BY <1>0, NodeFacts
<1>5. at' <= Len(tree) + 1
  BY <1>1, <1>4
<1>6. /\ at' \in 1..MaxNodes + 1 /\ ~done' /\ done' \in BOOLEAN /\ finished' \in Seq(Scope)
      /\ Left(finished', at')
  BY <1>1, <1>5, VisitStep
<1>7. stack' \in Seq(Scope) /\ SameNodes(stack, stack')
  BY <1>0, <1>1, <1>3 DEF SameNodes
<1>8. Nested(stack', at')
  BY <1>0, <1>1, <1>2, <1>4, <1>7, NestedStays
<1>9. pending' \in Seq(Site)
  <2>1. Append(pending, at) \in Seq(Site)
    BY <1>0, <1>2
  <2>2. pending' = pending \/ pending' = Append(pending, at)
    BY <1>1
  <2> QED BY <1>0, <2>1, <2>2
<1>10. ScopesFit(finished' \o stack', pending', at', Root)
  BY <1>1, <1>3 DEF Scopes
<1> QED BY <1>0, <1>1, <1>5, <1>6, <1>7, <1>8, <1>9, <1>10, InvOfStep

LEMMA VariablesKeep == ASSUME WalkInv, BindVariables PROVE WalkInv'
<1> DEFINE T == CollectBindings(stack, at, tree[at].kind)
<1>0. /\ stack \in Seq(Scope) /\ finished \in Seq(Scope) /\ pending \in Seq(Site) /\ sid \in Nat
      /\ tree \in PlainTree \cup SvelteTree /\ at \in 1..MaxNodes + 1
      /\ ~done => Nested(stack, at)
      /\ ScopesFit(Scopes, pending, at, Root)
  BY DEF WalkInv, WalkTypeOK
<1>1. /\ ~done /\ ~Leaving /\ at <= Len(tree) /\ at' = at + 1 /\ UNCHANGED <<svelte, tree, finished, done>>
      /\ tree[at].kind \in {"decl", "assign"}
      /\ stack' = T /\ sid' = sid + Len(Matches(at, tree[at].kind)) /\ pending' = pending
  BY DEF BindVariables, Visiting
<1>2. /\ at \in DOMAIN tree /\ \A i \in DOMAIN stack : at \in Span(stack[i].node)
      /\ at \in Nat \ {0} /\ Len(tree) \in Nat /\ tree \in Seq(NodeRec)
  BY <1>0, <1>1, Visited, NodeFacts
<1>3. /\ T \in Seq(Scope) /\ Len(T) = Len(stack) /\ SameNodes(stack, T) /\ Grown(stack, T, at)
  BY <1>0, <1>1, <1>2, VariablesAdded DEF Nested
<1> HIDE DEF T
<1>4. at' <= Len(tree) + 1
  BY <1>1, <1>2
<1>5. /\ at' \in 1..MaxNodes + 1 /\ ~done' /\ done' \in BOOLEAN /\ finished' \in Seq(Scope)
      /\ Left(finished', at')
  BY <1>1, <1>4, VisitStep
<1>6. Nested(stack', at')
  BY <1>0, <1>1, <1>2, <1>3, NestedStays
<1>7. sid' \in Nat
  <2>1. Len(Matches(at, tree[at].kind)) \in Nat
    BY <1>0, <1>2, SpanFacts, MatchesListed
  <2> QED BY <1>0, <1>1, <2>1
<1>8. ScopesFit(finished \o T, pending, at, Root)
  <2>1. Grown(Scopes, finished \o T, at)
    BY <1>0, <1>3, AllGrown DEF Scopes
  <2> QED BY <1>0, <1>1, <1>2, <2>1, GrownFits
<1>9. ScopesFit(finished \o T, pending, at + 1, Root)
  <2>1. ScopesFit(finished \o T, pending, at + 1, at)
    BY <1>2, <1>8, VisitFits
  <2> QED BY <1>1, <2>1, SkipFits
<1> QED BY <1>0, <1>1, <1>3, <1>4, <1>5, <1>6, <1>7, <1>9, InvOfStep

(* A node that opens a scope, with what is bound on the way.                 *)
LEMMA OpeningKeeps ==
  ASSUME WalkInv, Visiting({"func", "loop"}), pending' = pending, sid' \in Nat,
         stack' \in Seq(Scope), SameNodes(Append(stack, OpenScope(at)), stack'),
         Grown(stack, stack', at)
  PROVE  WalkInv'
<1>0. /\ stack \in Seq(Scope) /\ finished \in Seq(Scope) /\ pending \in Seq(Site)
      /\ tree \in PlainTree \cup SvelteTree /\ at \in 1..MaxNodes + 1
      /\ ~done => Nested(stack, at)
      /\ ScopesFit(Scopes, pending, at, Root)
  BY DEF WalkInv, WalkTypeOK
<1>1. /\ ~done /\ ~Leaving /\ at <= Len(tree) /\ at' = at + 1 /\ UNCHANGED <<svelte, tree, finished, done>>
      /\ tree[at].kind \in {"func", "loop"}
  BY DEF Visiting
<1>2. /\ at \in DOMAIN tree /\ \A i \in DOMAIN stack : at \in Span(stack[i].node)
      /\ at \in Nat \ {0} /\ Len(tree) \in Nat /\ tree \in Seq(NodeRec)
  BY <1>0, <1>1, Visited, NodeFacts
<1>3. at' <= Len(tree) + 1
  BY <1>1, <1>2
<1>4. /\ at' \in 1..MaxNodes + 1 /\ ~done' /\ done' \in BOOLEAN /\ finished' \in Seq(Scope)
      /\ Left(finished', at')
  BY <1>1, <1>3, VisitStep
<1>5. Nested(stack', at')
  BY <1>0, <1>1, <1>2, NestedOpens
<1>6. ScopesFit(finished \o stack', pending, at, Root)
  <2>1. Grown(Scopes, finished \o stack', at)
    BY <1>0, AllGrown DEF Scopes
  <2> QED BY <1>0, <1>1, <1>2, <2>1, GrownFits
<1>7. ScopesFit(finished \o stack', pending, at + 1, Root)
  <2>1. ScopesFit(finished \o stack', pending, at + 1, at)
    BY <1>2, <1>6, VisitFits
  <2> QED BY <1>1, <2>1, SkipFits
<1> QED BY <1>0, <1>1, <1>3, <1>4, <1>5, <1>7, InvOfStep

LEMMA LoopKeeps == ASSUME WalkInv, EnterLoop PROVE WalkInv'
<1>0. stack \in Seq(Scope) /\ sid \in Nat /\ at \in 1..MaxNodes + 1 /\ tree \in PlainTree \cup SvelteTree
  BY DEF WalkInv, WalkTypeOK
<1>1. /\ Visiting({"func", "loop"}) /\ pending' = pending /\ sid' = sid
      /\ stack' = Append(stack, OpenScope(at)) /\ ~done /\ ~Leaving /\ at <= Len(tree)
  BY DEF EnterLoop, Visiting
<1>2. at \in 0..MaxNodes
  BY <1>0, <1>1, Visited, NodeFacts
<1>3. stack' \in Seq(Scope) /\ Grown(stack, stack', at)
  BY <1>0, <1>1, <1>2, ScopeOpened
<1>4. SameNodes(Append(stack, OpenScope(at)), stack')
  BY <1>1 DEF SameNodes
<1> QED BY <1>0, <1>1, <1>3, <1>4, OpeningKeeps

LEMMA FunctionKeeps == ASSUME WalkInv, EnterFunction PROVE WalkInv'
<1> DEFINE pushed == Append(stack, OpenScope(at))
           inner == CollectParams(pushed, at)
           id == sid + Len(Matches(at, "param"))
           named == svelte /\ tree[at].name # None
           T == Bind(inner, Len(inner) - 1, NewBinding(tree[at].name, id + 1, at + 1, FALSE, FALSE))
<1>0. /\ stack \in Seq(Scope) /\ sid \in Nat /\ at \in 1..MaxNodes + 1 /\ tree \in PlainTree \cup SvelteTree
      /\ ~done => stack # <<>>
  BY DEF WalkInv, WalkTypeOK, Nested
<1>1. /\ Visiting({"func", "loop"}) /\ pending' = pending
      /\ stack' = (IF named THEN T ELSE inner) /\ sid' = (IF named THEN id + 1 ELSE id)
      /\ ~done /\ ~Leaving /\ at <= Len(tree) /\ tree[at].kind = "func"
  BY DEF EnterFunction, Visiting
<1>2. /\ at \in DOMAIN tree /\ at \in Nat /\ at \in 0..MaxNodes
  BY <1>0, <1>1, Visited, NodeFacts
<1>3. /\ pushed \in Seq(Scope) /\ Len(pushed) = Len(stack) + 1 /\ Grown(stack, pushed, at)
  BY <1>0, <1>2, ScopeOpened
<1>4. Len(stack) \in Nat /\ Len(stack) >= 1 /\ pushed # <<>>
  BY <1>0, <1>1, <1>3
<1> HIDE DEF pushed
<1>5. /\ inner \in Seq(Scope) /\ Len(inner) = Len(pushed) /\ SameNodes(pushed, inner) /\ Grown(pushed, inner, at)
  BY <1>0, <1>2, <1>3, <1>4, ParamsAdded
<1>6. id \in Nat
  <2>1. Len(Matches(at, "param")) \in Nat
    BY <1>0, <1>2, SpanFacts, NodeFacts, MatchesListed
  <2> QED BY <1>0, <2>1
<1> HIDE DEF inner, id
<1>7. CASE ~named
  <2>1. stack' = inner /\ sid' = id
    BY <1>1, <1>7
  <2>2. Grown(stack, stack', at)
    BY <1>3, <1>5, <2>1, GrownTwice
  <2> QED BY <1>1, <1>5, <1>6, <2>1, <2>2, OpeningKeeps DEF pushed
<1>8. CASE named
  <2>1. stack' = T /\ sid' = id + 1
    BY <1>1, <1>8
  <2>2. at + 1 \in DOMAIN tree /\ tree[at + 1].name = tree[at].name /\ tree[at].name \in VarName
    BY <1>0, <1>1, <1>2, <1>8, KindFacts
  <2>3. at + 1 \in Site /\ at + 1 >= at /\ id + 1 \in Nat
    BY <1>0, <1>2, <1>6, <2>2, NodeFacts
  <2>4. Len(inner) - 1 \in DOMAIN inner
    BY <1>3, <1>4, <1>5
  <2>5. /\ T \in Seq(Scope) /\ SameNodes(inner, T) /\ Grown(inner, T, at)
    BY <1>2, <1>5, <2>2, <2>3, <2>4, OneBound
  <2> HIDE DEF T
  <2>6. Grown(stack, stack', at)
    BY <1>3, <1>5, <2>1, <2>5, GrownTwice
  <2>7. SameNodes(pushed, stack')
    BY <1>5, <2>1, <2>5 DEF SameNodes
  <2> QED BY <1>1, <2>1, <2>3, <2>5, <2>6, <2>7, OpeningKeeps DEF pushed
<1> QED BY <1>7, <1>8

LEMMA EachKeeps == ASSUME WalkInv, EachBlock PROVE WalkInv'
<1> DEFINE name == tree[at].name
           found == HoldingScope(stack, name) # 0
           looked == IF found THEN RecordUse(stack, name, at) ELSE stack
           T == Bind(looked, Len(stack), NewBinding(tree[at + 1].name, sid + 1, at + 1, FALSE, TRUE))
           P == IF found THEN pending ELSE Append(pending, at)
<1>0. /\ stack \in Seq(Scope) /\ finished \in Seq(Scope) /\ pending \in Seq(Site) /\ sid \in Nat
      /\ tree \in PlainTree \cup SvelteTree /\ at \in 1..MaxNodes + 1
      /\ ~done => Nested(stack, at)
  BY DEF WalkInv, WalkTypeOK
<1>1. /\ ~done /\ ~Leaving /\ at <= Len(tree) /\ at' = at + 2 /\ UNCHANGED <<svelte, tree, finished, done>>
      /\ tree[at].kind = "each"
      /\ stack' = T /\ pending' = P /\ sid' = sid + 1
  BY DEF EachBlock
<1>2. /\ at \in DOMAIN tree /\ at \in Site /\ \A i \in DOMAIN stack : at \in Span(stack[i].node)
      /\ at \in Nat \ {0} /\ Len(tree) \in Nat /\ tree \in Seq(NodeRec) /\ DOMAIN tree = 1..Len(tree)
  BY <1>0, <1>1, Visited, NodeFacts
<1>3. /\ at + 1 \in DOMAIN tree /\ tree[at + 1].kind = "param" /\ tree[at + 1].name \in VarName
      /\ at + 1 \in Site /\ tree[at].size = 2
  BY <1>0, <1>1, <1>2, KindFacts, NodeFacts
<1>4. /\ looked \in Seq(Scope) /\ Len(looked) = Len(stack) /\ SameNodes(stack, looked)
      /\ ScopesFit(finished \o looked, P, at + 1, Root)
  <2>1. CASE found
    <3>1. /\ looked \in Seq(Scope) /\ Len(looked) = Len(stack) /\ SameNodes(stack, looked)
          /\ ScopesFit(finished \o looked, pending, at + 1, Root)
      BY <1>1, <2>1, LookupFits
    <3> QED BY <2>1, <3>1
  <2>2. CASE ~found
    <3>1. ScopesFit(Scopes, Append(pending, at), at + 1, Root)
      BY <1>1, <2>2, LookupFits
    <3> QED BY <1>0, <2>2, <3>1 DEF Scopes, SameNodes
  <2> QED BY <2>1, <2>2
<1>5. P \in Seq(Site)
  <2>1. Append(pending, at) \in Seq(Site)
    BY <1>0, <1>2
  <2> QED BY <1>0, <2>1
<1> HIDE DEF looked, P, found
<1>6. Len(stack) \in DOMAIN looked
  BY <1>0, <1>1, <1>4 DEF Nested
<1>7. /\ T \in Seq(Scope) /\ SameNodes(looked, T) /\ Grown(looked, T, at + 1)
  <2>1. at + 1 \in Nat /\ sid + 1 \in Nat /\ at + 1 >= at + 1 /\ TRUE \in BOOLEAN
    BY <1>0, <1>2
  <2> QED BY <1>3, <1>4, <1>6, <2>1, OneBound
<1> HIDE DEF T
<1>8. ScopesFit(finished \o T, P, at + 1, Root)
  <2>1. Grown(finished \o looked, finished \o T, at + 1)
    BY <1>0, <1>4, <1>7, AllGrown
  <2>2. at + 1 \in Nat /\ at + 1 <= Len(tree)
    BY <1>2, <1>3
  <2> QED BY <1>2, <1>4, <2>1, <2>2, GrownFits
<1>9. ScopesFit(finished \o T, P, at + 2, Root)
  <2>1. at + 1 \in Nat \ {0} /\ at + 1 + 1 = at + 2
    BY <1>2
  <2>2. ScopesFit(finished \o T, P, at + 1 + 1, at + 1)
    BY <1>2, <1>3, <1>8, <2>1, VisitFits
  <2>3. ScopesFit(finished \o T, P, at + 1 + 1, Root)
    BY <1>3, <2>2, SkipFits
  <2> QED BY <2>1, <2>3
<1>10. at' <= Len(tree) + 1
  BY <1>1, <1>2, <1>3
<1>11. /\ at' \in 1..MaxNodes + 1 /\ ~done' /\ done' \in BOOLEAN /\ finished' \in Seq(Scope)
       /\ Left(finished', at')
  <2>1. 2 \in 1..2
    OBVIOUS
  <2> QED BY <1>1, <1>10, <2>1, VisitStep
<1>12. Nested(T, at + 2)
  <2>1. SameNodes(stack, T)
    BY <1>4, <1>7 DEF SameNodes
  <2>2. SameNodes(T, T)
    BY DEF SameNodes
  <2>3. Nested(T, at + 1)
    BY <1>0, <1>1, <1>2, <1>7, <2>1, NestedStays
  <2>4. ASSUME NEW i \in DOMAIN T PROVE at + 1 \in Span(T[i].node)
    <3>1. at \in Span(T[i].node) /\ (T[i].node = Root \/ T[i].node \in DOMAIN tree)
      BY <1>2, <2>1, <2>3 DEF SameNodes, Nested
    <3>2. at + 1 \in Span(at)
      BY <1>0, <1>2, <1>3, SpanFacts
    <3> QED BY <1>0, <1>3, <3>1, <3>2, SpanFacts
  <2>5. at + 1 \in Nat /\ at + 1 + 1 = at + 2
    BY <1>2
  <2>6. Nested(T, at + 1 + 1)
    BY <1>0, <1>7, <2>2, <2>3, <2>4, <2>5, NestedStays
  <2> QED BY <2>5, <2>6
<1>13. sid' \in Nat
  BY <1>0, <1>1
<1> QED BY <1>0, <1>1, <1>5, <1>7, <1>9, <1>10, <1>11, <1>12, <1>13, InvOfStep

LEMMA FrontIs ==
  ASSUME NEW R, NEW S \in Seq(R), NEW m \in Nat, m > 1, Len(S) = m
  PROVE  /\ Front(S) \in Seq(R)
         /\ Len(Front(S)) = m - 1
         /\ DOMAIN Front(S) = 1..m - 1
         /\ \A i \in 1..m - 1 : Front(S)[i] = S[i]
<1> DEFINE T == SubSeq(S, 1, m - 1)
<1>1. Front(S) = T
  BY DEF Front
<1>2. \A i \in 1..m - 1 : i \in 1..m
  OBVIOUS
<1>3. DOMAIN S = 1..m /\ \A i \in 1..m : S[i] \in R
  OBVIOUS
<1>4. 1 \in Int /\ m - 1 \in Int /\ m - 1 - 1 + 1 = m - 1 /\ 1 <= m - 1
      /\ \A i \in 1..m - 1 : 1 + i - 1 = i
  BY ONLY m \in Nat, m > 1
<1>5. /\ T \in Seq(R) /\ Len(T) = m - 1 /\ \A i \in 1..m - 1 : T[i] = S[i]
  <2>1. \A i \in 1..m - 1 : S[i] \in R
    BY <1>2, <1>3
  <2>2. /\ T \in Seq(R)
        /\ Len(T) = IF 1 <= m - 1 THEN m - 1 - 1 + 1 ELSE 0
        /\ \A i \in 1..m - 1 - 1 + 1 : T[i] = S[1 + i - 1]
    BY <1>4, <2>1, SubSeqProperties
  <2> HIDE DEF T
  <2> QED BY <1>4, <2>2
<1>6. DOMAIN T = 1..m - 1
  <2> HIDE DEF T
  <2> QED BY <1>5
<1> QED BY <1>1, <1>5, <1>6

LEMMA ClosedMoves ==
  ASSUME NEW F \in Seq(Scope), NEW S \in Seq(Scope), Len(S) > 1, NEW P, NEW a \in Nat,
         ScopesFit(F \o S, P, a, Root)
  PROVE  ScopesFit(Append(F, Last(S)) \o Front(S), P, a, Root)
<1> DEFINE A == F \o S
           B == Append(F, Last(S)) \o Front(S)
           n == Len(F)
           m == Len(S)
           p == [i \in 1..n + m |-> IF i <= n THEN i ELSE IF i = n + 1 THEN n + m ELSE i - 1]
<1>1. /\ n \in Nat /\ m \in Nat /\ m > 1
      /\ DOMAIN A = 1..n + m
      /\ \A i \in 1..n + m : A[i] = IF i <= n THEN F[i] ELSE S[i - n]
  OBVIOUS
<1>2. /\ DOMAIN B = 1..n + m
      /\ \A i \in 1..n + m : B[i] = IF i <= n THEN F[i] ELSE IF i = n + 1 THEN S[m] ELSE S[i - 1 - n]
  <2> DEFINE F2 == Append(F, Last(S))
             T == Front(S)
  <2>1. S[m] \in Scope /\ Last(S) = S[m]
    BY <1>1 DEF Last
  <2>2. /\ F2 \in Seq(Scope) /\ Len(F2) = n + 1 /\ F2[n + 1] = S[m]
        /\ \A i \in 1..n : F2[i] = F[i]
    <3> HIDE DEF n, m
    <3>1. F2 = Append(F, S[m])
      BY <2>1
    <3> QED BY <2>1, <3>1 DEF n
  <2>3. /\ T \in Seq(Scope) /\ Len(T) = m - 1 /\ \A i \in 1..m - 1 : T[i] = S[i]
    BY <1>1, FrontIs
  <2>4. B = F2 \o T
    OBVIOUS
  <2> HIDE DEF F2, T, n, m
  <2>5. /\ DOMAIN B = 1..n + 1 + (m - 1)
        /\ \A i \in 1..n + 1 + (m - 1) : B[i] = IF i <= n + 1 THEN F2[i] ELSE T[i - (n + 1)]
    <3>1. /\ B \in Seq(Scope) /\ Len(B) = n + 1 + (m - 1)
          /\ \A i \in 1..n + 1 + (m - 1) : B[i] = IF i <= n + 1 THEN F2[i] ELSE T[i - (n + 1)]
      <4>1. /\ F2 \o T \in Seq(Scope) /\ Len(F2 \o T) = Len(F2) + Len(T)
            /\ \A i \in 1..Len(F2) + Len(T) :
                 (F2 \o T)[i] = IF i <= Len(F2) THEN F2[i] ELSE T[i - Len(F2)]
        BY <2>2, <2>3, ConcatProperties
      <4> HIDE DEF B
      <4> QED BY <2>2, <2>3, <2>4, <4>1, Zenon
    <3> QED BY <3>1, LenProperties
  <2>6. n + 1 + (m - 1) = n + m
    BY ONLY <1>1
  <2>7. ASSUME NEW i \in 1..n + m
        PROVE  B[i] = IF i <= n THEN F[i] ELSE IF i = n + 1 THEN S[m] ELSE S[i - 1 - n]
    <3>1. B[i] = IF i <= n + 1 THEN F2[i] ELSE T[i - (n + 1)]
      BY <2>5, <2>6
    <3>2. CASE i <= n
      <4>1. i \in 1..n /\ i <= n + 1
        BY ONLY <1>1, <3>2, i \in 1..n + m
      <4> QED BY <2>2, <3>1, <3>2, <4>1
    <3>3. CASE i = n + 1
      <4>1. i <= n + 1 /\ ~(i <= n)
        BY ONLY <1>1, <3>3
      <4> QED BY <2>2, <3>1, <3>3, <4>1
    <3>4. CASE ~(i <= n) /\ i # n + 1
      <4>1. ~(i <= n + 1) /\ i - (n + 1) \in 1..m - 1 /\ i - (n + 1) = i - 1 - n
        BY ONLY <1>1, <3>4, i \in 1..n + m
      <4> QED BY <2>3, <3>1, <3>4, <4>1
    <3> QED BY <3>2, <3>3, <3>4
  <2> QED BY <2>5, <2>6, <2>7
<1> HIDE DEF A, B, n, m
<1>3. /\ \A i \in 1..n + m : p[i] \in 1..n + m
      /\ \A i, j \in 1..n + m : p[i] = p[j] => i = j
  BY ONLY <1>1
<1>4. ASSUME NEW i \in 1..n + m PROVE \E j \in 1..n + m : p[j] = i
  <2>1. CASE i <= n
    <3>1. p[i] = i
      BY ONLY <1>1, <2>1, i \in 1..n + m
    <3> QED BY <3>1
  <2>2. CASE i = n + m
    <3>1. n + 1 \in 1..n + m /\ p[n + 1] = n + m
      BY ONLY <1>1
    <3> QED BY <2>2, <3>1
  <2>3. CASE i > n /\ i < n + m
    <3>1. i + 1 \in 1..n + m /\ p[i + 1] = i
      BY ONLY <1>1, <2>3, i \in 1..n + m
    <3> QED BY <3>1
  <2>4. i <= n \/ i = n + m \/ (i > n /\ i < n + m)
    BY ONLY <1>1, i \in 1..n + m
  <2> QED BY <2>1, <2>2, <2>3, <2>4
<1>5. ASSUME NEW i \in 1..n + m PROVE B[i] = A[p[i]]
  <2>1. CASE i <= n
    <3>1. p[i] = i
      BY ONLY <1>1, <2>1, i \in 1..n + m
    <3> QED BY <1>1, <1>2, <2>1, <3>1
  <2>2. CASE i = n + 1
    <3>1. p[i] = n + m /\ n + m \in 1..n + m /\ ~(n + m <= n) /\ n + m - n = m /\ ~(i <= n)
      BY ONLY <1>1, <2>2
    <3> QED BY <1>1, <1>2, <2>2, <3>1
  <2>3. CASE i > n + 1
    <3>1. p[i] = i - 1 /\ i - 1 \in 1..n + m /\ ~(i - 1 <= n) /\ ~(i <= n) /\ i # n + 1
      BY ONLY <1>1, <2>3, i \in 1..n + m
    <3> QED BY <1>1, <1>2, <2>3, <3>1
  <2>4. i <= n \/ i = n + 1 \/ i > n + 1
    BY ONLY <1>1, i \in 1..n + m
  <2> QED BY <2>1, <2>2, <2>3, <2>4
<1>6. p \in [DOMAIN B -> DOMAIN A]
  BY <1>1, <1>2, <1>3
<1> HIDE DEF p
<1>7. ScopesFit(A, P, a, Root)
  BY DEF A
<1>8. ScopesFit(B, P, a, Root)
  <2>1. /\ \A i, j \in DOMAIN B : p[i] = p[j] => i = j
        /\ \A i \in DOMAIN A : \E j \in DOMAIN B : p[j] = i
        /\ \A i \in DOMAIN B : B[i] = A[p[i]]
    BY <1>1, <1>2, <1>3, <1>4, <1>5
  <2> QED BY <1>6, <1>7, <2>1, MovedFits
<1> QED BY <1>8 DEF B

LEMMA LeaveKeeps == ASSUME WalkInv, LeaveScope PROVE WalkInv'
<1> DEFINE m == Len(stack)
           T == Front(stack)
           F == Append(finished, Last(stack))
<1>0. /\ stack \in Seq(Scope) /\ finished \in Seq(Scope) /\ pending \in Seq(Site) /\ sid \in Nat
      /\ tree \in PlainTree \cup SvelteTree /\ at \in 1..MaxNodes + 1 /\ at <= Len(tree) + 1
      /\ ~done => Nested(stack, at) /\ Left(finished, at)
      /\ done \in BOOLEAN
      /\ ScopesFit(finished \o stack, pending, at, Root)
  BY DEF WalkInv, WalkTypeOK, Scopes
<1>1. /\ ~done /\ m > 1 /\ at \notin Span(Last(stack).node)
      /\ finished' = F /\ stack' = T /\ UNCHANGED <<svelte, tree, at, pending, sid, done>>
  BY DEF LeaveScope, Leaving
<1>2. m \in Nat /\ DOMAIN stack = 1..m /\ at \in Nat /\ Nested(stack, at) /\ Left(finished, at)
  BY <1>0, <1>1
<1>3. Last(stack) = stack[m] /\ stack[m] \in Scope
  BY <1>0, <1>1, <1>2 DEF Last
<1>4. /\ T \in Seq(Scope) /\ DOMAIN T = 1..m - 1 /\ \A i \in 1..m - 1 : T[i] = stack[i]
  BY <1>0, <1>1, <1>2, FrontIs
<1>5. F \in Seq(Scope) /\ \A i \in DOMAIN F : (i \in DOMAIN finished /\ F[i] = finished[i]) \/ F[i] = stack[m]
  <2>1. F = Append(finished, stack[m])
    BY <1>3
  <2> HIDE DEF F, m
  <2> QED BY <1>0, <1>3, <2>1
<1>6. ScopesFit(F \o T, pending, at, Root)
  BY <1>0, <1>1, <1>2, ClosedMoves
<1> HIDE DEF T, F, m
<1>7. \A i \in 1..m - 1 : i \in 1..m /\ i < m /\ m \in 1..m
  BY ONLY <1>1, <1>2
<1>8. 1 \in 1..m - 1
  BY ONLY <1>1, <1>2
<1>9. Nested(T, at)
  <2>1. T # <<>> /\ T[1].node = Root
    <3>1. T # <<>>
      <4>1. 1 \in DOMAIN T
        BY <1>4, <1>8
      <4> QED BY <4>1
    <3> QED BY <1>2, <1>4, <1>8, <3>1 DEF Nested
  <2>2. \A i \in DOMAIN T : i \in DOMAIN stack /\ T[i] = stack[i]
    BY <1>2, <1>4, <1>7
  <2> QED BY <1>2, <2>1, <2>2 DEF Nested
<1>10. Left(F, at)
  <2> DEFINE n == stack[m].node
  <2>1. stack[1].node = Root /\ stack[1].node < n
    BY <1>1, <1>2, <1>7, <1>8 DEF Nested
  <2>2. n # Root
    BY <2>1 DEF Root
  <2>3. n \in DOMAIN tree /\ n < at /\ at <= n + tree[n].size
    BY <1>2, <1>7, <1>8, <2>2 DEF Nested
  <2>4. Span(n) = n..n + tree[n].size - 1 /\ n \in Nat /\ tree[n].size \in Nat
    BY <1>0, <2>3, SpanFacts, NodeFacts
  <2>5. at \notin Span(n)
    BY <1>1, <1>3
  <2> HIDE DEF n
  <2>6. n + tree[n].size <= at
    BY ONLY <1>2, <2>3, <2>4, <2>5
  <2> QED BY <1>2, <1>5, <2>3, <2>6 DEF Left, n
<1> QED BY <1>0, <1>1, <1>4, <1>5, <1>6, <1>9, <1>10, InvOfStep

(* At the end of the tree only the scope of the file is open.                *)
LEMMA OnlyRootOpen ==
  ASSUME WalkInv, AtEnd
  PROVE  Len(stack) = 1 /\ DOMAIN stack = 1..1 /\ stack[1].node = Root
<1>0. /\ stack \in Seq(Scope) /\ tree \in PlainTree \cup SvelteTree
      /\ at \in 1..MaxNodes + 1 /\ Nested(stack, at)
      /\ ~Leaving /\ at > Len(tree)
  BY DEF WalkInv, WalkTypeOK, AtEnd
<1> DEFINE m == Len(stack)
<1>1. m \in Nat /\ DOMAIN stack = 1..m /\ stack # <<>> /\ stack[1].node = Root
  BY <1>0 DEF Nested
<1>2. m # 0
  BY <1>0, <1>1
<1>3. ASSUME m > 1 PROVE FALSE
  <2>1. 1 \in DOMAIN stack /\ m \in DOMAIN stack /\ 1 < m
    BY <1>1, <1>3
  <2>2. Last(stack) = stack[m]
    BY DEF Last
  <2> DEFINE n == stack[m].node
  <2>3. stack[1].node < n
    BY <1>0, <2>1 DEF Nested
  <2>4. n # Root
    BY <1>1, <2>3 DEF Root
  <2>5. n \in DOMAIN tree
    BY <1>0, <2>1, <2>4 DEF Nested
  <2>6. Span(n) \subseteq DOMAIN tree /\ DOMAIN tree = 1..Len(tree) /\ Len(tree) \in Nat
    BY <1>0, <2>5, SpanFacts, NodeFacts
  <2>7. at \notin DOMAIN tree
    BY <1>0, <2>6
  <2>8. Leaving
    BY <1>3, <2>2, <2>6, <2>7 DEF Leaving
  <2> QED BY <1>0, <2>8
<1>4. m = 1
  BY <1>1, <1>2, <1>3
<1> QED BY <1>1, <1>4

LEMMA ResolveKeeps == ASSUME WalkInv, Resolve PROVE WalkInv'
<1> DEFINE f == Head(pending)
           Q == Tail(pending)
           name == tree[f].name
           n == Len(finished)
<1>0. /\ stack \in Seq(Scope) /\ finished \in Seq(Scope) /\ pending \in Seq(Site) /\ sid \in Nat
      /\ tree \in PlainTree \cup SvelteTree /\ at \in 1..MaxNodes + 1 /\ at <= Len(tree) + 1
      /\ ~done => Nested(stack, at) /\ Left(finished, at)
      /\ done \in BOOLEAN
      /\ ScopesFit(Scopes, pending, at, Root)
  BY DEF WalkInv, WalkTypeOK
<1>1. /\ AtEnd /\ ~done /\ at > Len(tree) /\ pending # <<>> /\ pending' = Q
      /\ stack' = IF HoldingScope(stack, name) = 0 THEN stack ELSE RecordUse(stack, name, f)
      /\ UNCHANGED <<svelte, tree, at, finished, sid, done>>
  BY DEF Resolve, AtEnd
<1>2. tree \in Seq(NodeRec) /\ at \in Nat /\ Nested(stack, at) /\ Left(finished, at)
  BY <1>0, <1>1, NodeFacts
<1>3. /\ ScopesFit(Scopes, Q, at, f)
      /\ f \in Site /\ f \in DOMAIN tree /\ f # Root
      /\ \A l \in DOMAIN Scopes : \A m \in DOMAIN Scopes[l].vars :
           ~(/\ Scopes[l].vars[m].name = tree[f].name
             /\ Scopes[l].vars[m].site < f
             /\ f \in Span(Scopes[l].node))
  BY <1>0, <1>1, <1>2, TakeFits
<1>4. Q \in Seq(Site)
  BY <1>0, <1>1, HeadTailProperties
<1>5. DOMAIN stack = 1..1 /\ stack[1].node = Root
  BY <1>1, OnlyRootOpen
<1>6. \A l \in DOMAIN Scopes :
        \/ (l \in DOMAIN finished /\ Scopes[l] = finished[l])
        \/ (l > n /\ l - n \in DOMAIN stack /\ Scopes[l] = stack[l - n])
  BY <1>0, ScopesAre DEF Scopes
<1> HIDE DEF f, Q
<1>7. CASE HoldingScope(stack, name) = 0
  <2>1. \A i \in DOMAIN stack : \A j \in DOMAIN stack[i].vars : stack[i].vars[j].name # name
    BY <1>0, <1>7, NotHeld
  <2>2. \A i \in DOMAIN finished : finished[i].node # Root
    <3>1. \A i \in DOMAIN finished : finished[i].node \in DOMAIN tree
      BY <1>2 DEF Left
    <3>2. Root \notin DOMAIN tree
      BY <1>2 DEF Root
    <3> QED BY <3>1, <3>2
  <2>3. \A i \in DOMAIN Scopes : \A j \in DOMAIN Scopes[i].vars :
          Scopes[i].node = Root => Scopes[i].vars[j].name # name
    BY <1>6, <2>1, <2>2
  <2>4. ScopesFit(Scopes, Q, at, Root)
    BY <1>1, <1>3, <2>3, SkipFits
  <2>5. ScopesFit(finished \o stack, Q, at, Root)
    BY <2>4 DEF Scopes
  <2> QED BY <1>0, <1>1, <1>2, <1>4, <1>7, <2>5, InvOfStep
<1>8. CASE HoldingScope(stack, name) # 0
  <2> DEFINE i == HoldingScope(stack, name)
             j == LatestBinding(stack[i], name)
             T == RecordUse(stack, name, f)
  <2>1. i \in DOMAIN stack /\ j \in DOMAIN stack[i].vars /\ stack[i].vars[j].name = name
    BY <1>0, <1>8, Held
  <2>2. /\ T \in Seq(Scope) /\ Len(T) = Len(stack)
        /\ SameNodes(stack, T)
        /\ \/ T = stack /\ stack[i].vars[j].site = f
           \/ Used(stack, T, i, j, f)
    BY <1>0, <1>3, <1>8, Recorded
  <2>3. stack' = T
    BY <1>1, <1>8
  <2> HIDE DEF i, j, T
  <2>4. Scopes = finished \o stack /\ n + i \in DOMAIN Scopes /\ Scopes[n + i] = stack[i]
    BY <1>0, <2>1, ScopesAre DEF Scopes
  <2>5. ScopesFit(finished \o T, Q, at, Root)
    <3>1. CASE T = stack /\ stack[i].vars[j].site = f
      <4>1. \E l \in DOMAIN Scopes : \E m \in DOMAIN Scopes[l].vars : Scopes[l].vars[m].site = f
        BY <2>1, <2>4, <3>1
      <4>2. ScopesFit(Scopes, Q, at, Root)
        BY <1>3, <4>1, SkipFits
      <4> QED BY <2>4, <3>1, <4>2
    <3>2. CASE Used(stack, T, i, j, f)
      <4>1. Used(Scopes, finished \o T, n + i, j, f)
        BY <1>0, <2>1, <2>2, <2>4, <3>2, AllUsed
      <4>2. stack[i].node = Root
        BY <1>5, <2>1
      <4>3. Span(Root) = DOMAIN tree
        BY <1>0, SpanFacts
      <4>4. f \in Span(Scopes[n + i].node) /\ tree[f].name = Scopes[n + i].vars[j].name
        BY <1>3, <2>1, <2>4, <4>2, <4>3
      <4> QED BY <1>2, <1>3, <4>1, <4>4, UsedFits
    <3> QED BY <2>2, <3>1, <3>2
  <2>6. Nested(T, at)
    <3>1. \A l \in DOMAIN T : l \in DOMAIN stack /\ T[l].node = stack[l].node
      BY <2>2 DEF SameNodes
    <3>2. T # <<>> /\ 1 \in DOMAIN stack
      <4>1. 1 \in DOMAIN stack /\ 1 \in DOMAIN T
        BY <1>5, <2>2 DEF SameNodes
      <4> QED BY <4>1
    <3>3. 1 \in DOMAIN T
      BY <2>2, <3>2 DEF SameNodes
    <3>4. T[1].node = Root
      BY <1>5, <3>1, <3>3
    <3>5. \A l \in DOMAIN T :
            T[l].node # Root => /\ T[l].node \in DOMAIN tree
                                /\ T[l].node < at
                                /\ at <= T[l].node + tree[T[l].node].size
      BY <1>2, <3>1 DEF Nested
    <3>6. \A l, k \in DOMAIN T :
            l < k => T[l].node < T[k].node /\ Span(T[k].node) \subseteq Span(T[l].node)
      BY <1>2, <3>1 DEF Nested
    <3> QED BY <3>2, <3>4, <3>5, <3>6 DEF Nested
  <2> QED BY <1>0, <1>1, <1>2, <1>4, <2>2, <2>3, <2>5, <2>6, InvOfStep
<1> QED BY <1>7, <1>8

LEMMA FinishKeeps == ASSUME WalkInv, Finish PROVE WalkInv'
<1>0. /\ stack \in Seq(Scope) /\ finished \in Seq(Scope) /\ pending \in Seq(Site) /\ sid \in Nat
      /\ tree \in PlainTree \cup SvelteTree /\ at \in 1..MaxNodes + 1 /\ at <= Len(tree) + 1
      /\ svelte \in BOOLEAN /\ tree \in Seq(NodeRec)
      /\ ScopesFit(Scopes, pending, at, Root)
  BY DEF WalkInv, WalkTypeOK
<1>1. /\ AtEnd /\ at > Len(tree) /\ pending = <<>> /\ finished' = finished \o Reverse(stack)
      /\ stack' = <<>> /\ done' = TRUE /\ UNCHANGED <<svelte, tree, at, pending, sid>>
  BY DEF Finish, AtEnd
<1>2. Len(stack) = 1 /\ stack = [i \in 1..1 |-> stack[i]]
  <2>1. Len(stack) = 1 /\ DOMAIN stack = 1..1
    BY <1>1, OnlyRootOpen
  <2> QED BY <1>0, <2>1
<1>3. Reverse(stack) = stack
  <2>1. Reverse(stack) = [i \in 1..1 |-> stack[(1 - i) + 1]]
    BY <1>2 DEF Reverse
  <2>2. \A i \in 1..1 : stack[(1 - i) + 1] = stack[i]
    <3>1. \A i \in 1..1 : (1 - i) + 1 = i
      OBVIOUS
    <3> QED BY <3>1
  <2> QED BY <1>2, <2>1, <2>2
<1>4. finished' = Scopes
  BY <1>1, <1>3 DEF Scopes
<1>5. Scopes \in Seq(Scope)
  BY <1>0, ScopesAre DEF Scopes
<1>6. Scopes' = Scopes
  <2>1. Scopes' = finished' \o stack'
    BY DEF Scopes
  <2>2. Scopes' = Scopes \o <<>>
    BY <1>1, <1>4, <2>1
  <2> QED BY <1>5, <2>2, ConcatEmptySeq
<1>7. ScopesFit(Scopes, pending, at, Root)'
  <2>1. ScopesFit(Scopes', pending', at', Root)
    BY <1>0, <1>1, <1>6
  <2> QED BY <1>1, <2>1, Carried
<1>8. WalkTypeOK'
  BY <1>0, <1>1, <1>4, <1>5 DEF WalkTypeOK
<1> QED BY <1>0, <1>1, <1>7, <1>8 DEF WalkInv

LEMMA WalkInitInv == WalkInit => WalkInv
<1> SUFFICES ASSUME WalkInit PROVE WalkInv
  OBVIOUS
<1>1. /\ svelte \in BOOLEAN /\ tree \in PlainTree \cup SvelteTree /\ at = 1
      /\ finished = <<>> /\ pending = <<>> /\ sid = 0 /\ done = FALSE
      /\ stack = <<OpenScope(Root)>>
  BY DEF WalkInit
<1>2. tree \in Seq(NodeRec) /\ Len(tree) \in Nat /\ DOMAIN tree = 1..Len(tree) /\ MaxNodes \in Nat
  BY <1>1, NodeFacts, NodesAssumption
<1>3. OpenScope(Root) \in Scope /\ OpenScope(Root).node = Root /\ OpenScope(Root).vars = <<>>
  BY <1>2 DEF OpenScope, Scope, Root
<1> DEFINE o == OpenScope(Root)
<1> HIDE DEF o
<1>4. stack = <<o>> /\ o \in Scope /\ o.node = Root /\ o.vars = <<>>
  BY <1>1, <1>3 DEF o
<1>5. stack \in Seq(Scope) /\ DOMAIN stack = {1} /\ stack[1] = o /\ stack # <<>>
  BY <1>4
<1>6. Scopes = stack
  <2>1. Scopes = <<>> \o stack
    BY <1>1 DEF Scopes
  <2> QED BY <1>5, <2>1, ConcatEmptySeq
<1>7. \A i \in DOMAIN Scopes : Scopes[i].vars = <<>>
  BY <1>4, <1>5, <1>6
<1>8. \A i \in DOMAIN Scopes : DOMAIN Scopes[i].vars = {}
  BY <1>7
<1>9. DOMAIN pending = {} /\ DOMAIN finished = {}
  BY <1>1
<1>10. \A u \in DOMAIN tree : ~(u < at)
  BY <1>1, <1>2
<1>11. ScopesFit(Scopes, pending, at, Root)
  <2>1. UsesFit(Scopes, at)
    BY <1>8 DEF UsesFit
  <2>2. UsesDiffer(Scopes)
    BY <1>8 DEF UsesDiffer
  <2>3. PendingFits(Scopes, pending, at)
    BY <1>9 DEF PendingFits
  <2>4. SitesNamed(Scopes)
    BY <1>8 DEF SitesNamed
  <2>5. UsesNearest(Scopes)
    BY <1>8 DEF UsesNearest
  <2>6. PendingUnbound(Scopes, pending)
    BY <1>9 DEF PendingUnbound
  <2>7. NoneForgotten(Scopes, pending, at, Root)
    BY <1>10 DEF NoneForgotten
  <2>8. LookedUp(Scopes, pending, at, Root)
    BY DEF LookedUp
  <2> QED BY <2>1, <2>2, <2>3, <2>4, <2>5, <2>6, <2>7, <2>8 DEF ScopesFit
<1>12. Nested(stack, at) /\ Left(finished, at)
  BY <1>4, <1>5, <1>9 DEF Nested, Left
<1>13. WalkTypeOK
  <2>1. finished \in Seq(Scope) /\ pending \in Seq(Site)
    BY <1>1, EmptySeq
  <2>2. at \in 1..MaxNodes + 1
    BY ONLY <1>1, <1>2
  <2> QED BY <1>1, <1>2, <1>5, <2>1, <2>2 DEF WalkTypeOK
<1>14. at <= Len(tree) + 1
  BY <1>1, <1>2
<1> QED BY <1>1, <1>11, <1>12, <1>13, <1>14 DEF WalkInv

THEOREM WalkInvariant == WalkSpec => []WalkInv
<1>1. WalkInit => WalkInv
  BY WalkInitInv
<1>2. WalkInv /\ [WalkNext]_walkVars => WalkInv'
  <2> SUFFICES ASSUME WalkInv, [WalkNext]_walkVars PROVE WalkInv'
    OBVIOUS
  <2>1. CASE EnterFunction
    BY <2>1, FunctionKeeps
  <2>2. CASE EnterLoop
    BY <2>2, LoopKeeps
  <2>3. CASE BindVariables
    BY <2>3, VariablesKeep
  <2>4. CASE Reference
    BY <2>4, ReferenceKeeps
  <2>5. CASE EachBlock
    BY <2>5, EachKeeps
  <2>6. CASE LeaveScope
    BY <2>6, LeaveKeeps
  <2>7. CASE Resolve
    BY <2>7, ResolveKeeps
  <2>8. CASE Finish
    BY <2>8, FinishKeeps
  <2>9. CASE UNCHANGED walkVars
    <3>1. UNCHANGED <<svelte, tree, at, stack, finished, pending, sid, done>>
      BY <2>9 DEF walkVars
    <3>2. Scopes' = Scopes
      BY <3>1 DEF Scopes
    <3>3. ScopesFit(Scopes, pending, at, Root)' /\ (Nested(stack, at) => Nested(stack, at)')
          /\ (Left(finished, at) => Left(finished, at)')
      BY <3>1, <3>2, Carried DEF WalkInv
    <3>4. WalkTypeOK'
      BY <3>1 DEF WalkInv, WalkTypeOK
    <3> QED BY <3>1, <3>3, <3>4 DEF WalkInv
  <2> QED BY <2>1, <2>2, <2>3, <2>4, <2>5, <2>6, <2>7, <2>8, <2>9 DEF WalkNext
<1> QED BY <1>1, <1>2, PTL DEF WalkSpec

(* The variables keep their types.                                           *)
THEOREM WalkTypes == WalkSpec => []WalkTypeOK
<1>1. WalkInv => WalkTypeOK
  BY DEF WalkInv
<1> QED BY <1>1, WalkInvariant, PTL

LEMMA ScopesTyped ==
  ASSUME WalkInv
  PROVE  /\ tree \in Seq(NodeRec) /\ tree \in PlainTree \cup SvelteTree
         /\ DOMAIN tree = 1..Len(tree) /\ Len(tree) \in Nat
         /\ Scopes \in Seq(Scope)
         /\ \A i \in DOMAIN Scopes :
              /\ Scopes[i].node \in Nat
              /\ Scopes[i].vars \in Seq(Binding)
              /\ \A j \in DOMAIN Scopes[i].vars :
                   /\ Scopes[i].vars[j].uses \in Seq(Site)
                   /\ DOMAIN Scopes[i].vars[j].uses = 1..Len(Scopes[i].vars[j].uses)
<1>1. tree \in PlainTree \cup SvelteTree /\ finished \in Seq(Scope) /\ stack \in Seq(Scope)
  BY DEF WalkInv, WalkTypeOK
<1>2. tree \in Seq(NodeRec) /\ DOMAIN tree = 1..Len(tree) /\ Len(tree) \in Nat
  BY <1>1, NodeFacts
<1>3. Scopes \in Seq(Scope)
  BY <1>1, ScopesAre DEF Scopes
<1>4. ASSUME NEW i \in DOMAIN Scopes
      PROVE  /\ Scopes[i].node \in Nat
             /\ Scopes[i].vars \in Seq(Binding)
             /\ \A j \in DOMAIN Scopes[i].vars :
                  /\ Scopes[i].vars[j].uses \in Seq(Site)
                  /\ DOMAIN Scopes[i].vars[j].uses = 1..Len(Scopes[i].vars[j].uses)
  <2>1. Scopes[i] \in Scope
    BY <1>3
  <2>2. Scopes[i].node \in Nat /\ Scopes[i].vars \in Seq(Binding)
    BY <2>1, NodesAssumption DEF Scope
  <2> DEFINE V == Scopes[i].vars
  <2>3. V \in Seq(Binding)
    BY <2>2
  <2> HIDE DEF V
  <2>4. ASSUME NEW j \in DOMAIN V PROVE V[j].uses \in Seq(Site) /\ DOMAIN V[j].uses = 1..Len(V[j].uses)
    <3>1. V[j] \in Binding
      BY <2>3
    <3>2. V[j].uses \in Seq(Site)
      BY <3>1 DEF Binding
    <3> QED BY <3>2, LenProperties
  <2> QED BY <2>2, <2>4 DEF V
<1> QED BY <1>1, <1>2, <1>3, <1>4

LEMMA PlaceIs ==
  \A p \in Place : /\ p[1] \in DOMAIN Scopes
                   /\ p[2] \in DOMAIN Scopes[p[1]].vars
                   /\ p = <<p[1], p[2]>>
BY DEF Place

LEMMA InPlace ==
  ASSUME NEW i \in DOMAIN Scopes, NEW j \in DOMAIN Scopes[i].vars
  PROVE  <<i, j>> \in Place /\ At(<<i, j>>) = Scopes[i].vars[j]
BY DEF Place, At

LEMMA AtMostOne ==
  ASSUME NEW S, \A x, y \in S : x = y
  PROVE  IsFiniteSet(S) /\ Cardinality(S) \in Nat /\ Cardinality(S) <= 1
<1>1. CASE S = {}
  BY <1>1, FS_EmptySet
<1>2. CASE S # {}
  <2>1. PICK x \in S : TRUE
    BY <1>2
  <2>2. S = {x}
    BY <2>1
  <2> QED BY <2>2, FS_Singleton
<1> QED BY <1>1, <1>2

(* An identifier is counted as a use once, or it is pending, and not both.   *)
THEOREM OneUse == WalkSpec => []OneUsePerIdentifier
<1>1. WalkInv => OneUsePerIdentifier
  <2> SUFFICES ASSUME WalkInv, NEW u \in DOMAIN tree
               PROVE  /\ Cardinality({p \in Place : Contains(At(p).uses, u)})
                           + Cardinality({k \in DOMAIN pending : pending[k] = u}) <= 1
                      /\ \A p \in Place :
                           Cardinality({k \in DOMAIN At(p).uses : At(p).uses[k] = u}) <= 1
    BY DEF OneUsePerIdentifier
  <2> DEFINE A == {p \in Place : Contains(At(p).uses, u)}
             B == {k \in DOMAIN pending : pending[k] = u}
  <2>1. UsesDiffer(Scopes) /\ PendingFits(Scopes, pending, at)
    BY DEF WalkInv, ScopesFit
  <2>2. ASSUME NEW p \in Place
        PROVE  /\ p[1] \in DOMAIN Scopes /\ p[2] \in DOMAIN Scopes[p[1]].vars
               /\ p = <<p[1], p[2]>> /\ At(p) = Scopes[p[1]].vars[p[2]]
               /\ DOMAIN At(p).uses = 1..Len(At(p).uses)
    BY PlaceIs, ScopesTyped DEF At
  <2>3. ASSUME NEW p \in A PROVE \E k \in DOMAIN Scopes[p[1]].vars[p[2]].uses :
                                   Scopes[p[1]].vars[p[2]].uses[k] = u
    BY <2>2 DEF Contains
  <2>4. \A p, q \in A : p = q
    <3> SUFFICES ASSUME NEW p \in A, NEW q \in A PROVE p = q
      OBVIOUS
    <3>1. p[1] = q[1] /\ p[2] = q[2]
      BY <2>1, <2>2, <2>3 DEF UsesDiffer
    <3> QED BY <2>2, <3>1
  <2>5. \A k, l \in B : k = l
    BY <2>1 DEF PendingFits
  <2>6. A = {} \/ B = {}
    BY <2>1, <2>2, <2>3 DEF PendingFits
  <2>7. \A p \in Place : Cardinality({k \in DOMAIN At(p).uses : At(p).uses[k] = u}) <= 1
    <3> SUFFICES ASSUME NEW p \in Place
                 PROVE  Cardinality({k \in DOMAIN At(p).uses : At(p).uses[k] = u}) <= 1
      OBVIOUS
    <3>1. \A k, l \in {k \in DOMAIN At(p).uses : At(p).uses[k] = u} : k = l
      BY <2>1, <2>2 DEF UsesDiffer
    <3> QED BY <3>1, AtMostOne
  <2> HIDE DEF A, B
  <2>8. /\ Cardinality(A) \in Nat /\ Cardinality(A) <= 1
        /\ Cardinality(B) \in Nat /\ Cardinality(B) <= 1
    BY <2>4, <2>5, AtMostOne
  <2>9. Cardinality(A) = 0 \/ Cardinality(B) = 0
    BY <2>6, FS_EmptySet
  <2>10. Cardinality(A) + Cardinality(B) <= 1
    BY ONLY <2>8, <2>9
  <2> QED BY <2>7, <2>10 DEF A, B
<1> QED BY <1>1, WalkInvariant, PTL

(* A use is attached to a binding whose scope it lies in.                    *)
THEOREM UsesInScope == WalkSpec => []UsesStayInScope
<1>1. WalkInv => UsesStayInScope
  <2> SUFFICES ASSUME WalkInv, NEW p \in Place, NEW k \in DOMAIN At(p).uses
               PROVE  At(p).uses[k] \in Span(Scopes[p[1]].node)
    BY DEF UsesStayInScope
  <2>1. UsesFit(Scopes, at)
    BY DEF WalkInv, ScopesFit
  <2>2. p[1] \in DOMAIN Scopes /\ p[2] \in DOMAIN Scopes[p[1]].vars
        /\ At(p) = Scopes[p[1]].vars[p[2]]
    BY PlaceIs DEF At
  <2> QED BY <2>1, <2>2 DEF UsesFit
<1> QED BY <1>1, WalkInvariant, PTL

(* A use is attached to the nearest scope that bound its name before it.     *)
THEOREM UsesFindNearest == WalkSpec => []NearestBinding
<1>1. WalkInv => NearestBinding
  <2> SUFFICES ASSUME WalkInv, NEW p \in Place, NEW k \in DOMAIN At(p).uses, NEW q \in Place,
                      At(q).name = At(p).name, At(q).site < At(p).uses[k],
                      At(p).uses[k] \in Span(Scopes[q[1]].node),
                      Scopes[p[1]].node < Scopes[q[1]].node
               PROVE  FALSE
    BY DEF NearestBinding
  <2>1. UsesNearest(Scopes)
    BY DEF WalkInv, ScopesFit
  <2>2. /\ p[1] \in DOMAIN Scopes /\ p[2] \in DOMAIN Scopes[p[1]].vars
        /\ At(p) = Scopes[p[1]].vars[p[2]]
        /\ q[1] \in DOMAIN Scopes /\ q[2] \in DOMAIN Scopes[q[1]].vars
        /\ At(q) = Scopes[q[1]].vars[q[2]]
    BY PlaceIs DEF At
  <2> QED BY <2>1, <2>2 DEF UsesNearest
<1> QED BY <1>1, WalkInvariant, PTL

(* In a Svelte file an identifier whose name the file binds, wherever it     *)
(* binds it, is not forgotten.                                              *)
THEOREM LateDeclarations == WalkSpec => []LateDeclarationsAreFound
<1>1. WalkInv => LateDeclarationsAreFound
  <2> SUFFICES ASSUME WalkInv, svelte, done, NEW u \in DOMAIN tree,
                      tree[u].kind \in {"ident", "each"},
                      NEW q \in Place, Scopes[q[1]].node = Root, At(q).name = tree[u].name
               PROVE  \E p \in Place : At(p).site = u \/ Contains(At(p).uses, u)
    BY DEF LateDeclarationsAreFound
  <2>1. pending = <<>> /\ at > Len(tree) /\ NoneForgotten(Scopes, pending, at, Root)
    BY DEF WalkInv, ScopesFit
  <2>2. at \in Nat
    BY DEF WalkInv, WalkTypeOK
  <2>3. u \in 1..Len(tree) /\ Len(tree) \in Nat
    BY ScopesTyped
  <2>4. u < at /\ u # Root
    BY ONLY <2>1, <2>2, <2>3 DEF Root
  <2>5. q[1] \in DOMAIN Scopes /\ q[2] \in DOMAIN Scopes[q[1]].vars
        /\ At(q) = Scopes[q[1]].vars[q[2]]
    BY PlaceIs DEF At
  <2>6. ~ \E k \in DOMAIN pending : pending[k] = u
    BY <2>1
  <2>7. CASE \E i \in DOMAIN Scopes : \E j \in DOMAIN Scopes[i].vars :
               \E k \in DOMAIN Scopes[i].vars[j].uses : Scopes[i].vars[j].uses[k] = u
    <3>1. PICK i \in DOMAIN Scopes :
            \E j \in DOMAIN Scopes[i].vars : \E k \in DOMAIN Scopes[i].vars[j].uses :
              Scopes[i].vars[j].uses[k] = u
      BY <2>7
    <3>2. PICK j \in DOMAIN Scopes[i].vars : \E k \in DOMAIN Scopes[i].vars[j].uses :
            Scopes[i].vars[j].uses[k] = u
      BY <3>1
    <3>3. Contains(Scopes[i].vars[j].uses, u)
      BY <3>2, ScopesTyped DEF Contains
    <3> QED BY <3>3, InPlace
  <2>8. CASE \E i \in DOMAIN Scopes : \E j \in DOMAIN Scopes[i].vars : Scopes[i].vars[j].site = u
    BY <2>8, InPlace
  <2> QED BY <2>1, <2>4, <2>5, <2>6, <2>7, <2>8 DEF NoneForgotten
<1> QED BY <1>1, WalkInvariant, PTL

(* No site is reported as a dead store and as an unused variable as well.    *)
THEOREM DeadStoresSubsume == WalkSpec => []DeadStoreSubsumesUnused
<1>1. WalkInv => DeadStoreSubsumesUnused
  <2> SUFFICES ASSUME WalkInv, NEW s \in ReportedSites("DeadStore"),
                      s \in ReportedSites("UnusedVariable")
               PROVE  FALSE
    BY DEF DeadStoreSubsumesUnused
  <2> DEFINE stored == {<<At(p).name, At(p).site>> : p \in DeadStores}
             kept == {p \in UnusedVars : <<At(p).name, At(p).site>> \notin stored}
  <2>1. Analyze = Finding("DeadStore", DeadStores) \cup Finding("UnusedVariable", kept)
                    \cup Finding("ConstantValue", ConstValues)
    BY DEF Analyze
  <2> HIDE DEF stored, kept
  <2>2. \A f \in Analyze : /\ f.kind = "DeadStore" => f.place \in DeadStores
                           /\ f.kind = "UnusedVariable" => f.place \in kept
    BY <2>1 DEF Finding
  <2>3. PICK p \in DeadStores : At(p).site = s
    BY <2>2 DEF ReportedSites
  <2>4. PICK q \in kept : At(q).site = s
    BY <2>2 DEF ReportedSites
  <2>5. p \in Place /\ q \in Place
    BY DEF kept, DeadStores, UnusedVars, Unread
  <2>6. At(p).name = tree[s].name /\ At(q).name = tree[s].name
    <3>1. SitesNamed(Scopes)
      BY DEF WalkInv, ScopesFit
    <3>2. \A r \in Place : tree[At(r).site].name = At(r).name
      BY <3>1, PlaceIs DEF SitesNamed, At
    <3> QED BY <2>3, <2>4, <2>5, <3>2
  <2>7. <<At(q).name, At(q).site>> \in stored
    BY <2>3, <2>4, <2>6 DEF stored
  <2> QED BY <2>7 DEF kept
<1> QED BY <1>1, WalkInvariant, PTL
=============================================================================
