------------------------------- MODULE HostRx -------------------------------
(***************************************************************************)
(* The @rx operator of the WASM module (hostrx.go) together with the       *)
(* regular expressions of the host (hostRegex.ts): the rules of a WAF are  *)
(* loaded one by one, each compiled by the host or, when the host rejects  *)
(* it, by Go; evaluating a rule on a value goes through the prefilter, and *)
(* the host remembers its latest results for each handle.                  *)
(*                                                                         *)
(* What an expression finds and what a prefilter is made of are taken as   *)
(* given: MCHostRx puts RegexSemantics and RxPrefilter there.              *)
(***************************************************************************)
EXTENDS NeedleSearch

CONSTANTS
    RuleSets,        \* sequences of patterns a WAF may be created with
    Inputs,          \* the values a prefilter is judged on when its rule is loaded
    Values,          \* the values that arrive in requests
    MemoCapacity,    \* MATCH_MEMO_CAPACITY, 8 in the code
    Finds(_, _, _),  \* whether an expression matches in a string, for the "host" and for "go"
    Shortest(_),     \* minMatchLength
    FilterOf(_),     \* prefilterFunc
    LetsThrough(_, _),   \* a prefilter's answer for some bytes
    Octets(_),       \* the bytes of a value
    Text(_)          \* what the host makes of these bytes

ASSUME MemoAssumption == MemoCapacity \in Nat \ {0}

(***************************************************************************)
(* A pattern: the expression, whether it has a group at the front that V8  *)
(* rejects (an inline flag such as (?i) after the (?sm) that newHostRX     *)
(* puts there), and whether Go can parse it.                               *)
(***************************************************************************)
Pattern(re, inline, go) == [re |-> re, inline |-> inline, go |-> go]
Patterns == UNION {{rules[k] : k \in DOMAIN rules} : rules \in RuleSets}

ASSUME RulesAssumption == RuleSets \subseteq Seq(Patterns)
ASSUME ValuesAssumption == Values \subseteq Inputs

(* An engine has an answer for every value, and the text of a value that is *)
(* no UTF-8 is to the host what its bytes are to Go.                        *)
ASSUME EngineAssumption ==
    \A p \in Patterns, v \in Values :
        /\ Finds(p.re, v, "host") \in BOOLEAN /\ Finds(p.re, v, "go") \in BOOLEAN
        /\ Finds(p.re, Text(v), "host") = Finds(p.re, v, "host")

(* Several literals are searched for at once only when each is some bytes, *)
(* and in lower case and ASCII when case is folded.                        *)
ASSUME FilterAssumption ==
    /\ \A s \in Inputs : Octets(s) \in Seq(Octet)
    /\ \A p \in Patterns :
         FilterOf(p).kind = "literals" /\ Len(FilterOf(p).any) > 1 =>
             Needles(FilterOf(p).any, FilterOf(p).ci)

VARIABLES
    todo,        \* the patterns of the rule set still to be loaded
    ops,         \* the operators built: hostRx objects
    patterns,    \* HostRegex.patterns: handle to expression
    memos,       \* HostRegex.memos: handle to its latest results, newest first
    nextHandle,
    last         \* what the last step did

vars == <<todo, ops, patterns, memos, nextHandle, last>>

Init == /\ todo \in RuleSets
        /\ ops = <<>>
        /\ patterns = <<>>
        /\ memos = <<>>
        /\ nextHandle = 1
        /\ last = [step |-> "none"]

(* Map.set *)
With(f, x, y) == [z \in DOMAIN f \cup {x} |-> IF z = x THEN y ELSE f[z]]

(* translatePattern takes the leading (?sm) off; any other inline flag makes new RegExp throw *)
Translates(p) == ~p.inline

HostRX(p, handle) == [handle |-> handle, re |-> p.re,
                      minLen |-> Shortest(p), prefilter |-> FilterOf(p)]

(* newHostRX: the host first, Go when the host rejects the pattern, an error when both do *)
NewHostRX ==
    /\ todo # <<>>
    /\ LET p == Head(todo)
       IN IF Translates(p)
          THEN /\ patterns' = With(patterns, nextHandle, p.re)
               /\ nextHandle' = nextHandle + 1
               /\ ops' = Append(ops, HostRX(p, nextHandle))
               /\ todo' = Tail(todo)
               /\ last' = [step |-> "loaded", op |-> Len(ops) + 1]
          ELSE /\ UNCHANGED <<patterns, nextHandle>>
               /\ IF p.go
                  THEN /\ ops' = Append(ops, HostRX(p, 0))
                       /\ todo' = Tail(todo)
                       /\ last' = [step |-> "loaded", op |-> Len(ops) + 1]
                  ELSE /\ todo' = <<>>   \* the error ends the creation of the WAF
                       /\ ops' = <<>>
                       /\ last' = [step |-> "rejected"]
    /\ UNCHANGED memos

Admits(op, bytes) == /\ op.minLen = 0 \/ Len(bytes) >= op.minLen
                     /\ LetsThrough(op.prefilter, bytes)

MemoOfAny(h) == IF memos = <<>> THEN <<>> ELSE memos[CHOOSE k \in DOMAIN memos : TRUE]
Memo(h) == IF h \in DOMAIN memos THEN memos[h] ELSE <<>>

(* the place of the first entry for an input, 0 when there is none *)
Remembered(memo, input) ==
    IF \E k \in DOMAIN memo : memo[k].input = input
    THEN CHOOSE k \in DOMAIN memo : /\ memo[k].input = input
                                    /\ \A i \in 1..(k - 1) : memo[i].input # input
    ELSE 0

(* the memo after a hit (moved to the front) or a miss (put in front, the oldest cut off) *)
Touched(memo, k) ==
    [i \in DOMAIN memo |-> IF i = 1 THEN memo[k] ELSE memo[IF i <= k THEN i - 1 ELSE i]]
ExtendedUncut(memo, entry) == <<entry>> \o memo
Extended(memo, entry) ==
    [i \in 1..(IF Len(memo) < MemoCapacity THEN Len(memo) + 1 ELSE MemoCapacity) |->
        IF i = 1 THEN entry ELSE memo[i - 1]]

(* HostRegex.match: an answer, and the memo it leaves *)
HostMatch(h, input) ==
    LET memo == Memo(h)
        k    == Remembered(memo, input)
        new  == Finds(patterns[h], input, "host")
    IN IF k # 0 THEN [matched |-> memo[k].matched, memo |-> Touched(memo, k)]
       ELSE [matched |-> new, memo |-> Extended(memo, [input |-> input, matched |-> new])]

(* hostRx.Evaluate: the shortcuts, then the host with the text of the value, or Go *)
Evaluate(o, value) ==
    LET op == ops[o]
        done(b) == last' = [step |-> "evaluated", op |-> o, value |-> value, matched |-> b]
    IN /\ todo = <<>>
       /\ CASE ~Admits(op, Octets(value)) -> done(FALSE) /\ UNCHANGED memos
            [] Admits(op, Octets(value)) /\ op.handle > 0 ->
                 LET answer == HostMatch(op.handle, Text(value))
                 IN done(answer.matched) /\ memos' = With(memos, op.handle, answer.memo)
            [] OTHER -> done(Finds(op.re, value, "go")) /\ UNCHANGED memos
       /\ UNCHANGED <<todo, ops, patterns, nextHandle>>

Next == NewHostRX \/ \E o \in DOMAIN ops, v \in Values : Evaluate(o, v)

Spec == Init /\ [][Next]_vars

-----------------------------------------------------------------------------
Engine(op) == IF op.handle > 0 THEN "host" ELSE "go"

(* The state is well formed: an operator of the host holds a handle of its *)
(* own expression, and a memo belongs to a compiled pattern, never         *)
(* outgrows its capacity and holds no input twice.                         *)
TypeOK ==
    /\ nextHandle \in Nat
    /\ DOMAIN patterns = 1..(nextHandle - 1)
    /\ DOMAIN memos \subseteq DOMAIN patterns
    /\ \A o \in DOMAIN ops : ops[o].handle > 0 => patterns[ops[o].handle] = ops[o].re
    /\ \A h \in DOMAIN memos : /\ Len(memos[h]) <= MemoCapacity
                               /\ IsInjective([i \in DOMAIN memos[h] |-> memos[h][i].input])

(* The safety guarantee of rxprefilter.go: no input that the expression    *)
(* matches, for Go or for the engine that will be asked, is turned away by *)
(* its length or by its literals.                                          *)
FilterIsSound(op) ==
    \A s \in Inputs, e \in {"go", Engine(op)} : Finds(op.re, s, e) => Admits(op, Octets(s))
NeverFalseNegative == last.step = "loaded" => FilterIsSound(ops[last.op])

(* The search for several needles at once answers what a search for each    *)
(* needle in turn answers, whatever the shift table skips.                  *)
IndexedSearchIsExact ==
    last.step = "loaded" =>
        LET pf == ops[last.op].prefilter
        IN pf.kind = "literals" /\ Len(pf.any) > 1 =>
             LET m == NewIndexedMatcher(pf.any, pf.ci)
             IN \A s \in Inputs : Match(m, Octets(s)) <=>
                  \E k \in DOMAIN pf.any : Occurs(Octets(s), pf.any[k], pf.ci)

(* A rule's verdict is what its expression says of the value, through the  *)
(* prefilter, the memo of its handle, and either engine.                   *)
EvaluateIsMatch ==
    last.step = "evaluated" =>
        LET op == ops[last.op]
        IN last.matched = Finds(op.re, last.value, Engine(op))
=============================================================================
