--------------------------- MODULE IgnoreVerdicts ---------------------------
(***************************************************************************)
(* What the ignore matcher of packages/core/src/ignore.ts decides, once    *)
(* its lists have been looked at: a verdict of the lists is joined with    *)
(* that of the function, the most restrictive first.                       *)
(***************************************************************************)
EXTENDS Naturals

Inspect  == "false"
SkipBody == "skip-body"
SkipAll  == "true"
Verdicts == {Inspect, SkipBody, SkipAll}
None     == "null"

(* VERDICT_RANK.                                                           *)
Rank(v) == CASE v = SkipAll -> 0
             [] v = SkipBody -> 1
             [] OTHER -> 2
LeastRestrictive(a, b) == IF Rank(a) >= Rank(b) THEN b ELSE a
MostRestrictive(a, b) == IF Rank(a) >= Rank(b) THEN a ELSE b

(* The catch: a predicate that throws inspects.                            *)
OrInspect(listed) == IF listed = None THEN Inspect ELSE listed
OnThrow(listed) == Inspect

(* The function said match, or threw, or is absent; the lists said listed. *)
Decide(match, listed) ==
  CASE match = "absent" -> OrInspect(listed)
    [] match = "throws" -> OnThrow(listed)
    [] match \in Verdicts -> IF listed = None THEN match
                             ELSE MostRestrictive(listed, match)
=============================================================================
