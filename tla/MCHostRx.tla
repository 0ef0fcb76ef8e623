------------------------------ MODULE MCHostRx ------------------------------
(***************************************************************************)
(* HostRx over the expressions of RegexSemantics and the prefilter of      *)
(* RxPrefilter, with the expressions, inputs and rule sets that they are   *)
(* checked with.  The expressions have the shapes that the walk tells      *)
(* apart, over the letters 1..3, as Go's parser delivers them.             *)
(***************************************************************************)
EXTENDS HostRx, RxPrefilter

L1    == {Lit(<<1>>), Lit(<<3>>)}
L2    == {Lit(<<1, 2>>), Lit(<<2, 3>>)}
Words == {Lit(<<2>>), Lit(<<2, 3>>), Lit(<<3, 1, 2>>)}
Gaps  == {AnyChar, Star(AnyChar), Quest(Lit(<<3>>)), Class(<<2, 3>>)}

Tails == {Concat(<<l, g>>) : l \in L2, g \in Gaps}     \* a literal at the front
Heads == {Concat(<<g, l>>) : l \in L2, g \in Gaps}     \* a literal further back
Pairs == {Concat(<<l, g, k>>) : l, k \in L2, g \in Gaps}

Choice(S)  == {Alternate(<<x, y>>) : x \in Words, y \in S}
Alternatives    == Choice(Words) \cup Choice(Tails) \cup Choice(Pairs)
              \cup Choice({Capture(Alternate(<<Lit(<<1, 2>>), Lit(<<3, 3>>)>>))})
Tries(S)   == {Concat(<<l, c>>) : l \in L1, c \in S}
Chains(S)  == {Concat(<<l, g, c>>) : l \in L2, g \in Gaps, c \in S}

(* expressions without text anchors; BeginLine and EndLine are ^ and $ under (?m) *)
Plain == L1 \cup L2 \cup Words \cup {Plus(l) : l \in L2} \cup {Star(l) : l \in L2}
         \cup Tails \cup Heads \cup Pairs \cup Alternatives
         \cup Tries(Choice(Words) \cup Choice(Tails) \cup Choice({Quest(Lit(<<1, 2>>))}))
         \cup Chains(Choice(Words) \cup Choice({Star(Lit(<<1, 2>>))}))
         \cup Choice(Tries(Choice(Words)))
         \cup {Concat(<<BeginLine, l, g>>) : l \in L2, g \in Gaps}
         \cup {Concat(<<g, l, EndLine>>) : l \in L2, g \in Gaps}
         \cup {Concat(<<g, c, h, d>>) : g, h \in {AnyChar, Star(AnyChar)},
                 c, d \in {Alternate(<<Lit(<<1, 2>>), Lit(<<3, 3>>)>>),
                           Alternate(<<Lit(<<2, 3, 1>>), Lit(<<1, 1>>), Lit(<<3, 2>>)>>)}}

(* a literal next to the anchor *)
Anchored == {Concat(<<BeginText, l, g>>) : l \in L2, g \in Gaps}
            \cup {Concat(<<g, l, EndText>>) : l \in L2, g \in Gaps}
            \cup {Concat(<<BeginText, l, g, k, EndText>>) : l, k \in L2, g \in Gaps}
            \cup {Concat(<<BeginText, l, EndText>>) : l \in L2}

(* runes outside ASCII, the replacement character, needles longer than the shift table counts *)
Odd == {Lit(<<Replacement, 1, 2>>), Lit(<<Kelvin, 2>>),
        Concat(<<AnyChar, Lit(<<Replacement, Replacement>>)>>),
        Alternate(<<Lit(<<Kelvin, 2>>), Lit(<<3, 3>>)>>),
        Concat(<<Lit(<<1, 2>>), Star(AnyChar), Lit(<<2, Kelvin>>)>>),
        Concat(<<Class(<<1, 2>>), AnyChar, Class(<<2, 3>>), AnyChar>>),
        Alternate(<<Lit(<<1, 2, 3, 1>>), Lit(<<2, 2, 3, 1>>)>>),
        Alternate(<<Lit(<<1, 2, 3, 1, 2>>), Lit(<<3, 2, 3, 1>>)>>)}

(* what the literals are wrong for: one further back in a branch, one away from its anchor *)
Further == Tries(Choice(Heads))
Away == {Concat(<<BeginText, g, l>>) : l \in L2, g \in Gaps}
        \cup {Concat(<<l, g, EndText>>) : l \in L2, g \in Gaps}

RECURSIVE FoldAll(_)
(* the expression under (?i): the parser keeps every letter as its capital *)
FoldAll(re) == [re EXCEPT !.fold = TRUE, !.sub = [k \in DOMAIN @ |-> FoldAll(@[k])],
                          !.rune = [k \in DOMAIN @ |->
                              IF @[k] \in Letters THEN @[k] + 10 ELSE IF @[k] = Kelvin THEN 11 ELSE @[k]]]

HostRule(re) == Pattern(re, FALSE, TRUE)
FoldRule(re) == Pattern(FoldAll(re), TRUE, TRUE)

(* rules that share a WAF, one that V8 alone can parse, and one that nobody can *)
Mixed == {<<HostRule(Lit(<<1, 2>>)), HostRule(Concat(<<Lit(<<1>>), Quest(Lit(<<3>>))>>))>>,
          <<FoldRule(Lit(<<2>>)), HostRule(Lit(<<2>>)), HostRule(Lit(<<3>>))>>,
          <<Pattern(Star(Lit(<<1>>)), FALSE, FALSE), HostRule(Lit(<<2>>))>>,
          <<HostRule(Lit(<<1>>)), Pattern(Lit(<<2>>), TRUE, FALSE)>>}

ExactRules == Mixed \cup {<<HostRule(re)>> : re \in Plain \cup Odd}
                    \cup {<<FoldRule(re)>> : re \in Plain \cup Odd \cup Anchored}
InexactRules == {<<HostRule(re)>> : re \in Further} \cup {<<FoldRule(re)>> : re \in Further \cup Away}

(* every word of up to five letters, and what folds, breaks a line or is no UTF-8 *)
MCInputs == SeqOf(Letters, 5)
            \cup SeqOf({1, 2, 12, Kelvin, LF}, 3) \cup SeqOf({1, 2, Replacement, Malformed}, 3)
MCValues == {<<1, 2>>, <<3, 1>>, <<2>>, <<1, Malformed>>}

MCOctet == Letters \cup Capitals \cup {LF, Malformed} \cup UNION {Range(Encode(c)) : c \in {Kelvin, Replacement}}
SmallOfCapital == -10
=============================================================================
