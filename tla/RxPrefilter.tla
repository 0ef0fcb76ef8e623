---------------------------- MODULE RxPrefilter ----------------------------
(***************************************************************************)
(* rxprefilter.go: what is extracted from an expression when its rule is   *)
(* loaded (the least length of a match, the literals a match needs), and   *)
(* the predicate built from it, which searches as NeedleSearch does.       *)
(***************************************************************************)
EXTENDS RegexSemantics, NeedleSearch

Total(ns) == FoldLeft(LAMBDA a, n : a + n, 0, ns)
Each(Op(_), s) == [k \in DOMAIN s |-> Op(s[k])]

(* the fewest bytes of a match; a replacement character matches one bad byte *)
RECURSIVE MinLen(_)
MinLen(re) ==
    CASE re.op = "literal" ->
           Total(Each(LAMBDA r : IF r = Replacement THEN 1 ELSE Len(Encode(r)), re.rune))
      [] re.op \in {"anychar", "charclass"} -> 1
      [] re.op \in {"capture", "plus"} -> MinLen(re.sub[1])
      [] re.op = "concat" -> Total(Each(MinLen, re.sub))
      [] re.op = "alternate" -> Least({MinLen(re.sub[k]) : k \in DOMAIN re.sub})
      [] OTHER -> 0

RECURSIVE HasFold(_)
HasFold(re) == re.fold \/ \E k \in DOMAIN re.sub : HasFold(re.sub[k])

(***************************************************************************)
(* The literals.  [all, any]: every member of all occurs in an input that  *)
(* matches, and one of any (no condition when any is empty).  Go's nil is  *)
(* both empty, allRequired is any = <<>>, anyRequired is all = <<>>,       *)
(* combinedRequired neither.                                               *)
(***************************************************************************)
Required(all, any) == [all |-> all, any |-> any]
Nothing == Required(<<>>, <<>>)

ToLower(c) == IF c \in Capitals THEN c - 10 ELSE IF c = Kelvin THEN 1 ELSE c
RawLiteral(re, ci) ==
    IF re.op # "literal" \/ Contains(re.rune, Replacement) THEN <<>>
    ELSE Bytes(IF ci THEN Each(ToLower, re.rune) ELSE re.rune)

AnyTooShort(ss, n) == \E k \in DOMAIN ss : Len(ss[k]) < n
FilterShort(ss, n) == SelectSeq(ss, LAMBDA s : Len(s) >= n)
Longest(ss) == FoldLeft(LAMBDA best, s : IF Len(s) > Len(best) THEN s ELSE best, <<>>, ss)
(* the first of the smallest sets *)
Fewest(sets) == FoldLeft(LAMBDA best, s : IF best = <<>> \/ Len(s) < Len(best) THEN s ELSE best,
                         <<>>, sets)

LiteralOf(re, ci) == LET s == RawLiteral(re, ci)
                     IN IF Len(s) < 2 THEN Nothing ELSE Required(<<s>>, <<>>)

RECURSIVE ExtractLiterals(_, _), ConcatLiterals(_, _), AlternateLiterals(_, _),
          TrieReconstruct(_, _), RawExtractSuffixes(_, _)

ExtractLiterals(re, ci) ==
    CASE re.op = "literal" -> LiteralOf(re, ci)
      [] re.op \in {"capture", "plus"} -> ExtractLiterals(re.sub[1], ci)
      [] re.op = "concat" -> ConcatLiterals(re, ci)
      [] re.op = "alternate" -> AlternateLiterals(re, ci)
      [] OTHER -> Nothing

(* what the children require; a child that requires both kinds is passed over *)
ConcatLiterals(re, ci) ==
    LET parts == Each(LAMBDA sub : ExtractLiterals(sub, ci), re.sub)
        all   == FlattenSeq(Each(LAMBDA p : IF p.any = <<>> THEN p.all ELSE <<>>, parts))
        any   == Fewest(Each(LAMBDA p : p.any, SelectSeq(parts, LAMBDA p : p.any # <<>> /\ p.all = <<>>)))
        trie  == TrieReconstruct(re, ci)
    IN IF all # <<>>
       THEN Required(all, IF AnyTooShort(any, 2) THEN <<>> ELSE any)
       ELSE Required(<<>>, IF trie # <<>> THEN trie ELSE any)

AlternateSkipsNothing(re, ci) ==
    LET branches == SelectSeq(Each(LAMBDA sub : ExtractLiterals(sub, ci), re.sub), LAMBDA b : b # Nothing)
    IN Required(<<>>, FlattenSeq(Each(
           LAMBDA b : IF b.any = <<>> THEN <<Longest(b.all)>> ELSE b.any, branches)))
(* one literal of every branch, or all of a branch that is itself a choice *)
AlternateLiterals(re, ci) ==
    LET branches == Each(LAMBDA sub : ExtractLiterals(sub, ci), re.sub)
    IN IF Contains(branches, Nothing) THEN Nothing
       ELSE Required(<<>>, FlattenSeq(Each(
                LAMBDA b : IF b.any = <<>> THEN <<Longest(b.all)>> ELSE b.any, branches)))

(* a literal followed by a choice: the literal is put in front of what the branches give *)
TrieReconstruct(re, ci) ==
    IF re.op # "concat" \/ Len(re.sub) # 2 THEN <<>>
    ELSE LET prefix   == RawLiteral(re.sub[1], ci)
             suffixes == IF prefix = <<>> THEN <<>> ELSE RawExtractSuffixes(re.sub[2], ci)
         IN FilterShort(Each(LAMBDA s : prefix \o s, suffixes), 2)

RawExtractSuffixes(re, ci) ==
    CASE re.op = "literal" -> LET s == RawLiteral(re, ci) IN IF s = <<>> THEN <<>> ELSE <<s>>
      [] re.op = "alternate" ->
           LET branches == Each(LAMBDA sub : RawExtractSuffixes(sub, ci), re.sub)
           IN IF Contains(branches, <<>>) THEN <<>> ELSE FlattenSeq(branches)
      [] re.op = "concat" ->
           LET lits == ExtractLiterals(re, ci)
           IN CASE lits.all = <<>> -> lits.any
                [] lits.any # <<>> -> <<Longest(lits.all)>>
                [] OTHER -> IF Len(lits.all) = 1 THEN lits.all ELSE <<>>
      [] re.op = "capture" -> RawExtractSuffixes(re.sub[1], ci)
      [] OTHER -> <<>>

RECURSIVE HasBeginAnchor(_), HasEndAnchor(_)
HasBeginAnchor(re) == \/ re.op = "begintext"
                      \/ re.op \in {"capture", "concat"} /\ HasBeginAnchor(Head(re.sub))
HasEndAnchor(re) == \/ re.op = "endtext"
                    \/ re.op \in {"capture", "concat"} /\ HasEndAnchor(Last(re.sub))

(***************************************************************************)
(* The predicate: a record that Passes interprets.                         *)
(***************************************************************************)
MinUseful == 4
AnyRequiredMaxN == 256

NoFilter == [kind |-> "none"]
LengthOnly(n) == [kind |-> "length", min |-> n]

(* which needles must open and close the input; the others just occur in it *)
MultiNeedle(needles, usePrefix, useSuffix) ==
    LET one == usePrefix /\ useSuffix /\ Len(needles) < 2
        suf == useSuffix /\ ~one
    IN [prefix |-> IF usePrefix THEN Head(needles) ELSE <<>>,
        suffix |-> IF suf THEN Last(needles) ELSE <<>>,
        middle |-> SubSeq(needles, IF usePrefix THEN 2 ELSE 1, Len(needles) - (IF suf THEN 1 ELSE 0))]

BuildAll(re, all) ==
    MultiNeedle(FilterShort(all, 2), HasBeginAnchor(re) /\ Len(Head(all)) >= 2,
                                     HasEndAnchor(re) /\ Len(Last(all)) >= 2)
NoNeedles == [prefix |-> <<>>, suffix |-> <<>>, middle |-> <<>>]

(* the literals one of which must occur, when a search for them is worth building *)
Searchable(any, ci) == /\ Len(any) \in 1..AnyRequiredMaxN
                       /\ Len(any) = 1 \/ ~ci \/ \A k \in DOMAIN any : IsASCII(any[k])

PrefilterFunc(re) ==
    LET ci   == HasFold(re)
        mml  == MinLen(re)
        lits == ExtractLiterals(re, ci)
        all  == IF lits.all = <<>> THEN NoNeedles ELSE BuildAll(re, lits.all)
        any  == IF Searchable(lits.any, ci) THEN lits.any ELSE <<>>
    IN CASE lits = Nothing -> IF mml >= MinUseful THEN LengthOnly(mml) ELSE NoFilter
         [] lits.all = <<>> /\ (AnyTooShort(lits.any, 2) \/ any = <<>>) -> NoFilter
         [] OTHER -> [kind |-> "literals", min |-> IF mml >= MinUseful THEN mml ELSE 0, ci |-> ci,
                      all |-> all, any |-> any]

(* what an expression of a rule that Go cannot parse gives is as good as nothing *)
MinMatchLength(p) == IF p.go THEN MinLen(p.re) ELSE 0
Prefilter(p) == IF p.go THEN PrefilterFunc(p.re) ELSE NoFilter

AnyOccurs(s, any, ci) ==
    CASE any = <<>> -> TRUE
      [] Len(any) = 1 -> Occurs(s, any[1], ci)
      [] OTHER -> Match(NewIndexedMatcher(any, ci), s)

Passes(pf, s) ==
    CASE pf.kind = "none" -> TRUE
      [] pf.kind = "length" -> Len(s) >= pf.min
      [] OTHER ->
           \/ pf.ci /\ ~IsASCII(s)
           \/ /\ Len(s) >= pf.min
              /\ HasPrefix(s, pf.all.prefix, pf.ci)
              /\ HasSuffix(s, pf.all.suffix, pf.ci)
              /\ \A k \in DOMAIN pf.all.middle : Occurs(s, pf.all.middle[k], pf.ci)
              /\ AnyOccurs(s, pf.any, pf.ci)
=============================================================================
