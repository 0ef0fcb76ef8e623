--------------------------- MODULE RegexSemantics ---------------------------
(***************************************************************************)
(* What a regular expression matches: the authority that the shortcuts of  *)
(* the host take (the prefilter, the memo) are compared with.  The engines *)
(* (Go's regexp and V8's RegExp) are not in the repository; they are       *)
(* modelled by the denotation of the expressions the repository walks.     *)
(*                                                                         *)
(* An expression is a node of Go's regexp/syntax tree after Simplify.  A   *)
(* character is a small number: the letters 1..3 and their capitals 11..13,*)
(* a line feed, a rune outside ASCII that folds with the letter 1 (as the  *)
(* Kelvin sign does with k), the replacement character U+FFFD, and, in     *)
(* inputs only, a byte that is no UTF-8.                                   *)
(***************************************************************************)
EXTENDS Integers, SequencesExt

Letters     == 1..3
Capitals    == 11..13
LF          == 9
Kelvin      == 20
Replacement == 30
Malformed   == 219

(* UTF-8: every character as the bytes Go sees; ASCII is below 128 *)
Encode(c) == CASE c = Kelvin -> <<201, 202, 203>>
               [] c = Replacement -> <<211, 212, 213>>
               [] OTHER -> <<c>>
Bytes(s) == FlattenSeq([k \in DOMAIN s |-> Encode(s[k])])

(* both engines read a byte that is no UTF-8 as the replacement character *)
Read(c) == IF c = Malformed THEN Replacement ELSE c
Decoded(s) == [k \in DOMAIN s |-> Read(s[k])]

(* simple case folding; V8 without the u flag keeps ASCII letters apart from the Kelvin sign *)
Folded(c, engine) == CASE c \in Capitals -> c - 10
                       [] c = Kelvin /\ engine = "go" -> 1
                       [] OTHER -> c
SameChar(p, c, fold, engine) ==
    \/ p = Read(c)
    \/ fold /\ Folded(p, engine) = Folded(Read(c), engine)

Node(op, sub)  == [op |-> op, sub |-> sub, rune |-> <<>>, fold |-> FALSE]
Lit(rs)        == [op |-> "literal", sub |-> <<>>, rune |-> rs, fold |-> FALSE]
LitFold(rs)    == [Lit(rs) EXCEPT !.fold = TRUE]
Class(rs)      == [op |-> "charclass", sub |-> <<>>, rune |-> rs, fold |-> FALSE]
AnyChar        == Node("anychar", <<>>)
BeginText      == Node("begintext", <<>>)
EndText        == Node("endtext", <<>>)
BeginLine      == Node("beginline", <<>>)
EndLine        == Node("endline", <<>>)
Concat(sub)    == Node("concat", sub)
Alternate(sub) == Node("alternate", sub)
Capture(re)    == Node("capture", <<re>>)
Plus(re)       == Node("plus", <<re>>)
Star(re)       == Node("star", <<re>>)
Quest(re)      == Node("quest", <<re>>)

(* Ends(re, s, i, engine): the positions where a match of re that starts after i characters ends *)
RECURSIVE Ends(_, _, _, _), Again(_, _, _, _)
Ends(re, s, i, engine) ==
    CASE re.op = "literal" ->
           IF /\ i + Len(re.rune) <= Len(s)
              /\ \A k \in DOMAIN re.rune : SameChar(re.rune[k], s[i + k], re.fold, engine)
           THEN {i + Len(re.rune)} ELSE {}
      [] re.op = "charclass" ->
           IF i < Len(s) /\ \E k \in DOMAIN re.rune : SameChar(re.rune[k], s[i + 1], re.fold, engine)
           THEN {i + 1} ELSE {}
      [] re.op = "anychar"   -> IF i < Len(s) THEN {i + 1} ELSE {}
      [] re.op = "begintext" -> IF i = 0 THEN {i} ELSE {}
      [] re.op = "endtext"   -> IF i = Len(s) THEN {i} ELSE {}
      [] re.op = "beginline" -> IF i = 0 \/ s[i] = LF THEN {i} ELSE {}
      [] re.op = "endline"   -> IF i = Len(s) \/ s[i + 1] = LF THEN {i} ELSE {}
      [] re.op = "capture"   -> Ends(re.sub[1], s, i, engine)
      [] re.op = "concat"    ->
           FoldLeft(LAMBDA froms, sub : UNION {Ends(sub, s, j, engine) : j \in froms}, {i}, re.sub)
      [] re.op = "alternate" -> UNION {Ends(re.sub[k], s, i, engine) : k \in DOMAIN re.sub}
      [] re.op = "quest"     -> {i} \cup Ends(re.sub[1], s, i, engine)
      [] re.op = "star"      -> Again(re.sub[1], s, {i}, engine)
      [] re.op = "plus"      -> Again(re.sub[1], s, Ends(re.sub[1], s, i, engine), engine)

(* the positions reached from a set of positions by any number of repetitions *)
Again(re, s, from, engine) ==
    LET next == from \cup UNION {Ends(re, s, j, engine) : j \in from}
    IN IF next = from THEN from ELSE Again(re, s, next, engine)

(* the expression matches somewhere in the input *)
Matches(re, s, engine) == \E i \in 0..Len(s) : Ends(re, s, i, engine) # {}
=============================================================================
