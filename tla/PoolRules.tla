------------------------------ MODULE PoolRules ------------------------------
(***************************************************************************)
(* The start of a pool (PoolBoot) with the rules that are given to it      *)
(* (CoreRuleSet) and the binary that its threads run (WasmPatch).          *)
(***************************************************************************)
EXTENDS PoolBoot, CoreRuleSet, WasmPatch

(* A pool that create() returns has the rules that were asked for: what    *)
(* was excluded is gone, whatever the order, no language is dropped from   *)
(* the other direction, and the tuning is there when the rules start.      *)
RulesAreAsAsked == phase = "resolved" => AllAsAsked

(* "rewrite min in place", "leaves non-memory sections untouched": what    *)
(* create() compiles is the given binary with the least number of pages    *)
(* raised when it is too small, the flags, the greatest number of pages    *)
(* and every other section as they were; both readers of the section find  *)
(* it large enough, and making it ready again changes nothing.             *)
PatchIsExact == phase = "compiling" => PatchingIsExact
==============================================================================
