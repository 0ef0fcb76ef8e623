---------------------------- MODULE HostRxProofs ----------------------------
(***************************************************************************)
(* Proofs about the @rx operator, for any rules, any values, any engines   *)
(* and a memo of any capacity.                                             *)
(*                                                                         *)
(* A memo is looked up by its input and says what the expression of its    *)
(* handle said once: so every entry of it has to be true of the expression *)
(* that the handle stands for now (MemoFits), and an operator must hold    *)
(* the handle of its own expression (Loaded).                              *)
(*                                                                         *)
(* At the end, the search for several literals at once: that the windows   *)
(* it skips hold no needle.                                                *)
(***************************************************************************)
EXTENDS HostRx, Recursion, SequenceTheorems, TLAPS

(* The operators that newHostRX may build, those of the host and of Go.    *)
Operators ==
    {HostRX(p, h) : p \in {q \in Patterns : Translates(q)}, h \in Nat \ {0}}
      \cup {HostRX(p, 0) : p \in {q \in Patterns : ~Translates(q)}}
Expressions == {p.re : p \in Patterns}

(* What is loaded: handles are given out in turn, each to one operator's   *)
(* expression.                                                             *)
Loaded ==
    /\ todo \in Seq(Patterns) /\ ops \in Seq(Operators)
    /\ nextHandle \in Nat \ {0} /\ DOMAIN patterns = 1..(nextHandle - 1)
    /\ \A h \in DOMAIN patterns : patterns[h] \in Expressions
    /\ \A o \in DOMAIN ops : ops[o].handle > 0 =>
         ops[o].handle \in DOMAIN patterns /\ patterns[ops[o].handle] = ops[o].re

(* What may be remembered for an expression.                               *)
Entries(re) == {[input |-> Text(v), matched |-> Finds(re, Text(v), "host")] : v \in Values}

Distinct(memo) == \A i, j \in DOMAIN memo : memo[i].input = memo[j].input => i = j

MemoFits(memo, re) ==
    memo \in Seq(Entries(re)) /\ Len(memo) <= MemoCapacity /\ Distinct(memo)

Memos == /\ DOMAIN memos \subseteq DOMAIN patterns
         /\ \A h \in DOMAIN memos : MemoFits(memos[h], patterns[h])

(* What the last evaluation answered: the engine's verdict on the value as *)
(* that engine reads it, unless a shortcut was taken.                      *)
Verdict(op, v) ==
    IF ~Admits(op, Octets(v)) THEN FALSE
    ELSE IF op.handle > 0 THEN Finds(op.re, Text(v), "host") ELSE Finds(op.re, v, "go")

Answers == last.step = "evaluated" =>
             /\ last.op \in DOMAIN ops /\ last.value \in Values
             /\ last.matched = Verdict(ops[last.op], last.value)

HInv == Loaded /\ Memos /\ Answers

-----------------------------------------------------------------------------
(* The memo.                                                               *)

(* As no input is remembered twice, the first entry is the only one.       *)
LEMMA RememberedPlace ==
  ASSUME NEW S, NEW memo \in Seq(S), Distinct(memo), NEW input
  PROVE  \/ /\ Remembered(memo, input) \in DOMAIN memo
            /\ memo[Remembered(memo, input)].input = input
         \/ /\ Remembered(memo, input) = 0
            /\ \A k \in DOMAIN memo : memo[k].input # input
<1>1. CASE \E k \in DOMAIN memo : memo[k].input = input
  <2>1. PICK k \in DOMAIN memo : memo[k].input = input
    BY <1>1
  <2>2. \A i \in 1..(k - 1) : i \in DOMAIN memo /\ i # k
    BY LenProperties
  <2>3. \A i \in 1..(k - 1) : memo[i].input # input
    BY <2>1, <2>2 DEF Distinct
  <2>4. QED
    BY <1>1, <2>1, <2>3 DEF Remembered
<1>2. CASE ~ \E k \in DOMAIN memo : memo[k].input = input
  BY <1>2 DEF Remembered
<1>3. QED
  BY <1>1, <1>2

(* A hit moves an entry to the front and nothing else.                     *)
LEMMA TouchedFits ==
  ASSUME NEW re, NEW memo, MemoFits(memo, re), NEW k \in DOMAIN memo
  PROVE  MemoFits(Touched(memo, k), re)
<1> DEFINE from(i) == IF i = 1 THEN k ELSE IF i <= k THEN i - 1 ELSE i
           t == Touched(memo, k)
<1>1. /\ Len(memo) \in Nat /\ DOMAIN memo = 1..Len(memo)
      /\ \A i \in DOMAIN memo : memo[i] \in Entries(re)
  BY LenProperties, ElementOfSeq DEF MemoFits
<1>2. \A i \in 1..Len(memo) : from(i) \in 1..Len(memo)
  BY <1>1
<1>3. \A i, j \in 1..Len(memo) : from(i) = from(j) => i = j
  BY <1>1
<1>4. t = [i \in 1..Len(memo) |-> memo[from(i)]]
  BY <1>1 DEF Touched
<1> HIDE DEF from
<1>5. t \in [1..Len(memo) -> Entries(re)]
  BY <1>1, <1>2, <1>4
<1>6. t \in Seq(Entries(re)) /\ Len(t) = Len(memo) /\ DOMAIN t = 1..Len(memo)
  <2>1. t \in Seq(Entries(re))
    BY <1>1, <1>5, SeqDef
  <2>2. QED
    BY <1>1, <1>5, <2>1, LenProperties
<1>7. Distinct(t)
  <2>1. SUFFICES ASSUME NEW i \in 1..Len(memo), NEW j \in 1..Len(memo), t[i].input = t[j].input
                 PROVE  i = j
    BY <1>6 DEF Distinct
  <2>2. memo[from(i)].input = memo[from(j)].input
    BY <1>4, <2>1
  <2>3. from(i) = from(j)
    BY <1>1, <1>2, <2>2 DEF MemoFits, Distinct
  <2>4. QED
    BY <1>3, <2>3
<1>8. QED
  BY <1>6, <1>7 DEF MemoFits

(* A miss puts an entry in front, and the memo does not outgrow its        *)
(* capacity.                                                               *)
LEMMA ExtendedFits ==
  ASSUME NEW re, NEW memo, MemoFits(memo, re), NEW entry \in Entries(re),
         \A k \in DOMAIN memo : memo[k].input # entry.input
  PROVE  MemoFits(Extended(memo, entry), re)
<1> DEFINE n == IF Len(memo) < MemoCapacity THEN Len(memo) + 1 ELSE MemoCapacity
           t == Extended(memo, entry)
<1>1. /\ Len(memo) \in Nat /\ DOMAIN memo = 1..Len(memo)
      /\ \A i \in DOMAIN memo : memo[i] \in Entries(re)
  BY LenProperties, ElementOfSeq DEF MemoFits
<1>2. n \in Nat /\ n <= MemoCapacity /\ \A i \in 1..n : i # 1 => i - 1 \in 1..Len(memo)
  BY <1>1, MemoAssumption DEF MemoFits
<1>3. t = [i \in 1..n |-> IF i = 1 THEN entry ELSE memo[i - 1]]
  BY DEF Extended
<1> HIDE DEF n
<1>4. t \in [1..n -> Entries(re)]
  BY <1>1, <1>2, <1>3
<1>5. t \in Seq(Entries(re)) /\ Len(t) = n /\ DOMAIN t = 1..n
  <2>1. t \in Seq(Entries(re))
    BY <1>2, <1>4, SeqDef
  <2>2. QED
    BY <1>2, <1>4, <2>1, LenProperties
<1>6. Distinct(t)
  <2>1. SUFFICES ASSUME NEW i \in 1..n, NEW j \in 1..n, t[i].input = t[j].input
                 PROVE  i = j
    BY <1>5 DEF Distinct
  <2>2. CASE i = 1 \/ j = 1
    BY <1>1, <1>2, <1>3, <2>1, <2>2
  <2>3. CASE i # 1 /\ j # 1
    <3>1. memo[i - 1].input = memo[j - 1].input /\ i - 1 \in DOMAIN memo /\ j - 1 \in DOMAIN memo
      BY <1>1, <1>2, <1>3, <2>1, <2>3
    <3>2. i - 1 = j - 1
      BY <3>1 DEF MemoFits, Distinct
    <3>3. QED
      BY <1>2, <3>2
  <2>4. QED
    BY <2>2, <2>3
<1>7. QED
  BY <1>2, <1>5, <1>6 DEF MemoFits

(* HostRegex.match answers what the expression says, also from its memo.   *)
LEMMA HostMatchIsTrue ==
  ASSUME Memos, NEW h \in DOMAIN patterns, NEW v \in Values
  PROVE  /\ HostMatch(h, Text(v)).matched = Finds(patterns[h], Text(v), "host")
         /\ MemoFits(HostMatch(h, Text(v)).memo, patterns[h])
<1> DEFINE re == patterns[h]
           memo == Memo(h)
           k == Remembered(memo, Text(v))
           entry == [input |-> Text(v), matched |-> Finds(re, Text(v), "host")]
<1>1. MemoFits(memo, re)
  <2>1. CASE h \in DOMAIN memos
    BY <2>1 DEF Memos, Memo
  <2>2. CASE h \notin DOMAIN memos
    <3>1. memo = << >>
      BY <2>2 DEF Memo
    <3>2. MemoFits(<< >>, re)
      BY EmptySeq, MemoAssumption DEF MemoFits, Distinct
    <3>3. QED
      BY <3>1, <3>2
  <2>3. QED
    BY <2>1, <2>2
<1> HIDE DEF re, memo
<1>2. entry \in Entries(re)
  BY DEF Entries
<1>3. memo \in Seq(Entries(re)) /\ Distinct(memo) /\ DOMAIN memo = 1..Len(memo) /\ Len(memo) \in Nat
  BY <1>1, LenProperties DEF MemoFits
<1>4. CASE k \in DOMAIN memo /\ memo[k].input = Text(v)
  <2>1. k # 0 /\ memo[k] \in Entries(re)
    BY <1>3, <1>4, ElementOfSeq
  <2>2. memo[k].matched = Finds(re, Text(v), "host")
    BY <1>4, <2>1 DEF Entries
  <2>3. HostMatch(h, Text(v)) = [matched |-> memo[k].matched, memo |-> Touched(memo, k)]
    BY <2>1 DEF HostMatch, memo
  <2>4. QED
    BY <1>1, <1>4, <2>2, <2>3, TouchedFits DEF re
<1>5. CASE k = 0 /\ \A i \in DOMAIN memo : memo[i].input # Text(v)
  <2>1. HostMatch(h, Text(v)) =
          [matched |-> Finds(re, Text(v), "host"), memo |-> Extended(memo, entry)]
    BY <1>5 DEF HostMatch, memo, re
  <2>2. MemoFits(Extended(memo, entry), re)
    BY <1>1, <1>2, <1>5, ExtendedFits
  <2>3. QED
    BY <2>1, <2>2 DEF re
<1>6. QED
  BY <1>3, <1>4, <1>5, RememberedPlace

-----------------------------------------------------------------------------
LEMMA InitHolds == Init => HInv
<1> SUFFICES ASSUME Init PROVE HInv
  OBVIOUS
<1>1. Loaded
  BY RulesAssumption, EmptySeq DEF Init, Loaded
<1>2. Memos /\ Answers
  BY DEF Init, Memos, Answers
<1>3. QED
  BY <1>1, <1>2 DEF HInv

(* Loading a rule.                                                         *)
LEMMA LoadingKeeps ==
  ASSUME HInv, NewHostRX
  PROVE  HInv'
<1> DEFINE p == Head(todo)
<1>1. p \in Patterns /\ Tail(todo) \in Seq(Patterns) /\ p.re \in Expressions
  BY HeadTailProperties DEF HInv, Loaded, NewHostRX, Expressions
<1>2. /\ DOMAIN ops = 1..Len(ops) /\ Len(ops) \in Nat
      /\ ops \in Seq(Operators) /\ nextHandle \in Nat \ {0}
      /\ DOMAIN patterns = 1..(nextHandle - 1)
  BY LenProperties DEF HInv, Loaded
<1>3. CASE Translates(p)
  <2>1. /\ patterns' = With(patterns, nextHandle, p.re) /\ nextHandle' = nextHandle + 1
        /\ ops' = Append(ops, HostRX(p, nextHandle)) /\ todo' = Tail(todo)
        /\ last' = [step |-> "loaded", op |-> Len(ops) + 1] /\ memos' = memos
    BY <1>3 DEF NewHostRX
  <2>2. HostRX(p, nextHandle) \in Operators
    BY <1>1, <1>2, <1>3 DEF Operators
  <2>3. /\ ops' \in Seq(Operators) /\ DOMAIN ops' = 1..(Len(ops) + 1)
        /\ \A o \in 1..Len(ops) : ops'[o] = ops[o]
        /\ ops'[Len(ops) + 1] = HostRX(p, nextHandle)
    BY <1>2, <2>1, <2>2, AppendProperties
  <2>4. /\ DOMAIN patterns' = 1..nextHandle /\ patterns'[nextHandle] = p.re
        /\ \A h \in DOMAIN patterns : h # nextHandle /\ patterns'[h] = patterns[h]
    BY <1>2, <2>1 DEF With
  <2>5. Loaded'
    <3>1. ASSUME NEW o \in DOMAIN ops', ops'[o].handle > 0
          PROVE  ops'[o].handle \in DOMAIN patterns' /\ patterns'[ops'[o].handle] = ops'[o].re
      <4>1. CASE o \in 1..Len(ops)
        BY <1>2, <2>3, <2>4, <3>1, <4>1 DEF HInv, Loaded
      <4>2. CASE o = Len(ops) + 1
        BY <1>2, <2>3, <2>4, <4>2 DEF HostRX
      <4>3. QED
        BY <1>2, <2>3, <4>1, <4>2
    <3>2. \A h \in DOMAIN patterns' : patterns'[h] \in Expressions
      BY <1>1, <1>2, <2>4 DEF HInv, Loaded
    <3>3. QED
      BY <1>1, <1>2, <2>1, <2>3, <2>4, <3>1, <3>2 DEF Loaded
  <2>6. Memos'
    BY <1>2, <2>1, <2>4 DEF HInv, Memos
  <2>7. Answers'
    BY <2>1 DEF Answers
  <2>8. QED
    BY <2>5, <2>6, <2>7 DEF HInv
<1>4. CASE ~Translates(p) /\ p.go
  <2>1. /\ patterns' = patterns /\ nextHandle' = nextHandle /\ memos' = memos
        /\ ops' = Append(ops, HostRX(p, 0)) /\ todo' = Tail(todo)
        /\ last' = [step |-> "loaded", op |-> Len(ops) + 1]
    BY <1>4 DEF NewHostRX
  <2>2. HostRX(p, 0) \in Operators
    BY <1>1, <1>4 DEF Operators
  <2>3. /\ ops' \in Seq(Operators) /\ DOMAIN ops' = 1..(Len(ops) + 1)
        /\ \A o \in 1..Len(ops) : ops'[o] = ops[o]
        /\ ops'[Len(ops) + 1] = HostRX(p, 0)
    BY <1>2, <2>1, <2>2, AppendProperties
  <2>4. \A o \in DOMAIN ops' : ops'[o].handle > 0 => o \in 1..Len(ops)
    BY <1>2, <2>3 DEF HostRX
  <2>5. Loaded'
    BY <1>1, <1>2, <2>1, <2>3, <2>4 DEF HInv, Loaded
  <2>6. Memos' /\ Answers'
    BY <2>1 DEF HInv, Memos, Answers
  <2>7. QED
    BY <2>5, <2>6 DEF HInv
<1>5. CASE ~Translates(p) /\ ~p.go
  <2>1. /\ patterns' = patterns /\ nextHandle' = nextHandle /\ memos' = memos
        /\ ops' = << >> /\ todo' = << >> /\ last' = [step |-> "rejected"]
    BY <1>5 DEF NewHostRX
  <2>2. << >> \in Seq(Patterns) /\ << >> \in Seq(Operators) /\ DOMAIN << >> = {}
    BY EmptySeq
  <2>3. Loaded'
    BY <1>2, <2>1, <2>2 DEF HInv, Loaded
  <2>4. Memos' /\ Answers'
    BY <2>1 DEF HInv, Memos, Answers
  <2>5. QED
    BY <2>3, <2>4 DEF HInv
<1>6. QED
  BY <1>3, <1>4, <1>5

(* Evaluating a rule.                                                      *)
LEMMA EvaluatingKeeps ==
  ASSUME HInv, NEW o \in DOMAIN ops, NEW v \in Values, Evaluate(o, v)
  PROVE  HInv'
<1> DEFINE op == ops[o]
           admitted == Admits(op, Octets(v))
<1>1. todo' = todo /\ ops' = ops /\ patterns' = patterns /\ nextHandle' = nextHandle
  BY DEF Evaluate
<1>2. Loaded'
  BY <1>1 DEF HInv, Loaded
<1>3. Memos' /\ last' = [step |-> "evaluated", op |-> o, value |-> v, matched |-> Verdict(op, v)]
  <2>1. CASE ~admitted
    <3>1. memos' = memos /\ last' = [step |-> "evaluated", op |-> o, value |-> v, matched |-> FALSE]
      BY <2>1 DEF Evaluate
    <3>2. QED
      BY <1>1, <2>1, <3>1 DEF HInv, Memos, Verdict
  <2>2. CASE admitted /\ op.handle > 0
    <3> DEFINE answer == HostMatch(op.handle, Text(v))
    <3>1. /\ memos' = With(memos, op.handle, answer.memo)
          /\ last' = [step |-> "evaluated", op |-> o, value |-> v, matched |-> answer.matched]
      BY <2>2 DEF Evaluate
    <3>2. op.handle \in DOMAIN patterns /\ patterns[op.handle] = op.re
      BY <2>2 DEF HInv, Loaded
    <3>3. /\ answer.matched = Finds(op.re, Text(v), "host")
          /\ MemoFits(answer.memo, patterns[op.handle])
      BY <3>2, HostMatchIsTrue DEF HInv
    <3> HIDE DEF answer
    <3>4. Memos'
      BY <1>1, <3>1, <3>2, <3>3 DEF HInv, Memos, With
    <3>5. QED
      BY <2>2, <3>1, <3>3, <3>4 DEF Verdict
  <2>3. CASE admitted /\ ~(op.handle > 0)
    <3>1. /\ memos' = memos
          /\ last' = [step |-> "evaluated", op |-> o, value |-> v, matched |-> Finds(op.re, v, "go")]
      BY <2>3 DEF Evaluate
    <3>2. QED
      BY <1>1, <2>3, <3>1 DEF HInv, Memos, Verdict
  <2>4. QED
    BY <2>1, <2>2, <2>3
<1>4. Answers'
  BY <1>1, <1>3 DEF Answers
<1>5. QED
  BY <1>2, <1>3, <1>4 DEF HInv

LEMMA StepsKeep == HInv /\ [Next]_vars => HInv'
<1> SUFFICES ASSUME HInv, [Next]_vars PROVE HInv'
  OBVIOUS
<1>1. CASE NewHostRX
  BY <1>1, LoadingKeeps
<1>2. CASE \E o \in DOMAIN ops, v \in Values : Evaluate(o, v)
  BY <1>2, EvaluatingKeeps
<1>3. CASE UNCHANGED vars
  BY <1>3 DEF HInv, Loaded, Memos, Answers, vars
<1>4. QED
  BY <1>1, <1>2, <1>3 DEF Next

(* The inductive invariant: every memo is true of the expression that its  *)
(* handle stands for, and every answer is the one of the rule's engine.    *)
THEOREM MemosAreTrue == Spec => []HInv
<1>1. QED
  BY InitHolds, StepsKeep, PTL DEF Spec

(* TypeOK: handles belong to their expressions, and the memo of a handle   *)
(* neither outgrows its capacity nor remembers an input twice.             *)
THEOREM TypesHold == Spec => []TypeOK
<1>1. HInv => TypeOK
  <2> SUFFICES ASSUME HInv PROVE TypeOK
    OBVIOUS
  <2>1. ASSUME NEW h \in DOMAIN memos
        PROVE  /\ Len(memos[h]) <= MemoCapacity
               /\ IsInjective([i \in DOMAIN memos[h] |-> memos[h][i].input])
    BY <2>1 DEF HInv, Memos, MemoFits, Distinct, IsInjective
  <2>2. QED
    BY <2>1 DEF HInv, Loaded, Memos, TypeOK
<1>2. QED
  BY <1>1, MemosAreTrue, PTL

(* No operator that may be built turns away what its expression matches.   *)
PrefilterIsSound ==
    \A p \in Patterns : FilterIsSound(HostRX(p, IF Translates(p) THEN 1 ELSE 0))

(* EvaluateIsMatch: a rule's verdict is what its expression says of the    *)
(* value, whichever shortcut was taken and whatever is remembered, when    *)
(* the prefilters turn away nothing that matches (NeverFalseNegative).     *)
(* The run rx has this hypothesis for every rule that it loads.            *)
THEOREM VerdictsAreMatches ==
  ASSUME PrefilterIsSound
  PROVE  Spec => []EvaluateIsMatch
<1>1. HInv => EvaluateIsMatch
  <2> SUFFICES ASSUME HInv, last.step = "evaluated"
               PROVE  last.matched = Finds(ops[last.op].re, last.value, Engine(ops[last.op]))
    BY DEF EvaluateIsMatch
  <2> DEFINE op == ops[last.op]
             v == last.value
  <2>1. v \in Values /\ op \in Operators /\ last.matched = Verdict(op, v)
    BY LenProperties, ElementOfSeq DEF HInv, Loaded, Answers
  <2>2. PICK p \in Patterns, h \in Nat : op = HostRX(p, h) /\ (h > 0 <=> Translates(p))
    BY <2>1 DEF Operators
  <2> DEFINE e == Engine(op)
  <2>3. /\ op.re = p.re /\ op.handle = h /\ op.minLen = Shortest(p)
        /\ op.prefilter = FilterOf(p) /\ e = IF Translates(p) THEN "host" ELSE "go"
    BY <2>2 DEF HostRX, Engine
  <2>4. /\ Finds(p.re, v, e) \in BOOLEAN
        /\ Finds(p.re, Text(v), "host") = Finds(p.re, v, "host")
    BY <2>1, <2>3, EngineAssumption
  <2>5. Finds(p.re, v, e) => Admits(op, Octets(v))
    <3> DEFINE g == HostRX(p, IF Translates(p) THEN 1 ELSE 0)
    <3>1. FilterIsSound(g)
      BY DEF PrefilterIsSound
    <3>2. g.re = p.re /\ Engine(g) = e /\ g.minLen = op.minLen /\ g.prefilter = op.prefilter
      BY <2>3 DEF HostRX, Engine
    <3>3. v \in Inputs
      BY <2>1, ValuesAssumption
    <3> HIDE DEF g, e, op, v
    <3>4. Finds(g.re, v, Engine(g)) => Admits(g, Octets(v))
      BY <3>1, <3>3 DEF FilterIsSound
    <3>5. QED
      BY <3>2, <3>4 DEF Admits
  <2>6. Verdict(op, v) = Finds(op.re, v, e)
    <3>1. CASE ~Admits(op, Octets(v))
      BY <2>3, <2>4, <2>5, <3>1 DEF Verdict
    <3>2. CASE Admits(op, Octets(v)) /\ h > 0
      BY <2>2, <2>3, <2>4, <3>2 DEF Verdict
    <3>3. CASE Admits(op, Octets(v)) /\ ~(h > 0)
      BY <2>2, <2>3, <3>3 DEF Verdict
    <3>4. QED
      BY <3>1, <3>2, <3>3
  <2>7. QED
    BY <2>1, <2>6
<1>2. QED
  BY <1>1, MemosAreTrue, PTL

-----------------------------------------------------------------------------
(* The search for several needles at once.                                 *)

(* A set of numbers that is not empty has the number Least gives.          *)
LEMMA LeastIsLeast ==
  ASSUME NEW ns, ns \subseteq Nat, ns # {}
  PROVE  Least(ns) \in ns /\ \A n \in ns : Least(ns) <= n
BY LeastNumber DEF Least

(* What the search relies on: an entry of the shift table is no more than  *)
(* the window, and no more than the distance from any place of the byte in *)
(* a needle to the end of the window, although it is kept in few bits; the *)
(* bucket of a byte has every needle with this byte at the window's end.   *)
ShiftsAreSafe(m, needles) ==
  \A b \in Octet :
    /\ m.shift[b] \in 0 .. m.minLen
    /\ \A k \in DOMAIN needles, j \in 1 .. m.minLen :
         needles[k][j] = AsLower(b, m.ci) => m.shift[b] <= m.minLen - j
BucketsAreComplete(m, needles) ==
  \A b \in Octet : m.endBuckets[b] = {n \in Range(needles) : n[m.minLen] = b}
Prepared(m, needles) ==
  /\ m.minLen \in Nat \ {0}
  /\ \A k \in DOMAIN needles : Len(needles[k]) \in Nat /\ m.minLen <= Len(needles[k])
  /\ ShiftsAreSafe(m, needles) /\ BucketsAreComplete(m, needles)

LEMMA GapIsSafe ==
  ASSUME NEW minLen \in Nat, NEW j \in 1 .. minLen
  PROVE  Gap(minLen, j) \in Nat /\ Gap(minLen, j) <= minLen - j
<1> DEFINE d == minLen - j
<1>1. d \in Nat /\ ShiftWidth \in Nat /\ ShiftWidth > 1
  BY ShiftWidthAssumption
<1>2. \A a \in Nat : a % ShiftWidth \in Nat /\ a % ShiftWidth <= a
  BY <1>1
<1>3. QED
  BY <1>1, <1>2 DEF Gap

LEMMA MatcherIsPrepared ==
  ASSUME NEW ci, NEW needles, Needles(needles, ci), needles # <<>>
  PROVE  /\ Prepared(NewIndexedMatcher(needles, ci), needles)
         /\ NewIndexedMatcher(needles, ci).ci = ci
<1> DEFINE lens == {Len(needles[k]) : k \in DOMAIN needles}
           minLen == Least(lens)
           most == Least({minLen, ShiftWidth - 1})
           places(b) == {j \in 1 .. minLen : \E k \in DOMAIN needles : needles[k][j] \in {b, AsLower(b, ci)}}
           gaps(b) == {Gap(minLen, j) : j \in places(b)}
           m == NewIndexedMatcher(needles, ci)
<1>1. /\ DOMAIN needles # {}
      /\ \A k \in DOMAIN needles : needles[k] \in Seq(Octet) /\ needles[k] # <<>>
  BY EmptySeq, LenProperties, ElementOfSeq DEF Needles
<1>2. \A k \in DOMAIN needles : Len(needles[k]) \in Nat \ {0}
  BY <1>1, LenProperties, EmptySeq
<1>3. lens \subseteq Nat \ {0} /\ lens # {}
  BY <1>1, <1>2
<1>4. minLen \in Nat \ {0} /\ \A k \in DOMAIN needles : minLen <= Len(needles[k])
  BY <1>3, LeastIsLeast
<1>5. m = [minLen |-> minLen, ci |-> ci,
           shift |-> [b \in Octet |-> Least(gaps(b) \cup {most})],
           endBuckets |-> [b \in Octet |-> {n \in Range(needles) : n[minLen] = b}]]
  BY DEF NewIndexedMatcher
<1>6. most \in Nat /\ most <= minLen
  <2>1. {minLen, ShiftWidth - 1} \subseteq Nat
    BY <1>4, ShiftWidthAssumption
  <2>2. QED
    BY <2>1, LeastIsLeast
<1> HIDE DEF most, minLen
<1>7. ASSUME NEW b \in Octet
      PROVE  /\ m.shift[b] \in 0 .. minLen
             /\ \A k \in DOMAIN needles, j \in 1 .. minLen :
                  needles[k][j] = AsLower(b, ci) => m.shift[b] <= minLen - j
  <2>1. gaps(b) \cup {most} \subseteq Nat
    BY <1>4, <1>6, GapIsSafe
  <2>2. m.shift[b] = Least(gaps(b) \cup {most})
    BY <1>5
  <2> HIDE DEF m
  <2>3. m.shift[b] \in Nat /\ \A n \in gaps(b) \cup {most} : m.shift[b] <= n
    BY <2>1, <2>2, LeastIsLeast
  <2>4. ASSUME NEW k \in DOMAIN needles, NEW j \in 1 .. minLen, needles[k][j] = AsLower(b, ci)
        PROVE  m.shift[b] <= minLen - j
    <3>1. Gap(minLen, j) \in gaps(b)
      BY <2>4
    <3>2. m.shift[b] <= Gap(minLen, j)
      BY <2>3, <3>1
    <3>3. Gap(minLen, j) \in Nat /\ Gap(minLen, j) <= minLen - j
      BY <1>4, GapIsSafe
    <3>4. QED
      BY <1>4, <2>3, <3>2, <3>3
  <2>5. m.shift[b] <= most
    BY <2>3
  <2>6. QED
    BY <1>4, <1>6, <2>3, <2>4, <2>5
<1>8. /\ m.minLen = minLen /\ m.ci = ci
      /\ \A b \in Octet : m.endBuckets[b] = {n \in Range(needles) : n[minLen] = b}
  BY <1>5
<1> HIDE DEF m
<1>9. ShiftsAreSafe(m, needles)
  BY <1>7, <1>8 DEF ShiftsAreSafe
<1>10. BucketsAreComplete(m, needles)
  BY <1>8 DEF BucketsAreComplete
<1>11. m.minLen \in Nat \ {0} /\ \A k \in DOMAIN needles : Len(needles[k]) \in Nat /\ m.minLen <= Len(needles[k])
  BY <1>2, <1>4, <1>8
<1>12. QED
  BY <1>8, <1>9, <1>10, <1>11 DEF Prepared, m

(* The right edges: the function that Edges stands for exists, and is the  *)
(* repetition of Advance.                                                  *)
LEMMA AdvanceGoesOn ==
  ASSUME NEW needles, NEW m, Prepared(m, needles), NEW s \in Seq(Octet), NEW i \in Nat \ {0}
  PROVE  /\ Advance(m, s, i) \in Nat \ {0} /\ i <= Advance(m, s, i)
         /\ i <= Len(s) => i + 1 <= Advance(m, s, i)
<1>1. CASE i > Len(s)
  BY <1>1, LenProperties DEF Advance
<1>2. CASE ~(i > Len(s))
  <2>1. s[i] \in Octet /\ Len(s) \in Nat
    BY <1>2, LenProperties, ElementOfSeq
  <2>2. m.shift[s[i]] \in Nat
    BY <2>1 DEF Prepared, ShiftsAreSafe
  <2>3. QED
    BY <1>2, <2>1, <2>2 DEF Advance
<1>3. QED
  BY <1>1, <1>2

LEMMA EdgesAreRepeats ==
  ASSUME NEW needles, NEW m, Prepared(m, needles), NEW s \in Seq(Octet)
  PROVE  /\ Edges(m, s)[0] = m.minLen
         /\ \A k \in Nat : Edges(m, s)[k + 1] = Advance(m, s, Edges(m, s)[k])
<1> DEFINE V == Nat \ {0}
           g == [i \in V |-> Advance(m, s, i)]
           Edge(e) == e = [k \in Nat |-> IF k = 0 THEN m.minLen ELSE Advance(m, s, e[k - 1])]
<1>1. m.minLen \in V /\ g \in [V -> V]
  BY AdvanceGoesOn DEF Prepared
<1>2. PICK f : f \in [Nat -> V] /\ Repeats(f, m.minLen, g)
  BY <1>1, RepetitionExists
<1>3. Edge(f)
  <2>1. \A k \in Nat : k # 0 => g[f[k - 1]] = Advance(m, s, f[k - 1])
    BY <1>2
  <2>2. f = [k \in Nat |-> IF k = 0 THEN m.minLen ELSE g[f[k - 1]]]
    BY <1>2 DEF Repeats
  <2>3. \A k \in Nat : f[k] = IF k = 0 THEN m.minLen ELSE Advance(m, s, f[k - 1])
    BY <2>1, <2>2
  <2> HIDE DEF g
  <2>4. DOMAIN f = Nat /\ f = [k \in Nat |-> f[k]]
    BY <1>2
  <2>5. QED
    BY <2>3, <2>4
<1>4. Edges(m, s) = CHOOSE e : Edge(e)
  BY DEF Edges
<1>5. Edge(Edges(m, s))
  BY <1>3, <1>4
<1>6. \A k \in Nat : Edges(m, s)[k] = IF k = 0 THEN m.minLen ELSE Advance(m, s, Edges(m, s)[k - 1])
  BY <1>5
<1>7. \A k \in Nat : k + 1 \in Nat /\ k + 1 # 0 /\ (k + 1) - 1 = k
  OBVIOUS
<1>8. QED
  BY <1>6, <1>7

LEMMA EdgesAreNumbers ==
  ASSUME NEW needles, NEW m, Prepared(m, needles), NEW s \in Seq(Octet)
  PROVE  \A k \in Nat : Edges(m, s)[k] \in Nat /\ m.minLen <= Edges(m, s)[k]
<1> DEFINE e == Edges(m, s)
<1>1. /\ e[0] = m.minLen /\ m.minLen \in Nat \ {0}
      /\ \A k \in Nat : e[k + 1] = Advance(m, s, e[k])
  BY EdgesAreRepeats DEF Prepared
<1> DEFINE lo == m.minLen
           S == {i \in Nat : lo <= i}
<1>2. lo \in Nat \ {0} /\ e[0] = lo
  BY <1>1
<1> HIDE DEF lo
<1>3. e[0] \in S
  BY <1>2
<1>4. ASSUME NEW k \in Nat, e[k] \in S
      PROVE  e[k + 1] \in S
  <2>1. e[k] \in Nat \ {0} /\ lo <= e[k]
    BY <1>2, <1>4
  <2>2. Advance(m, s, e[k]) \in Nat /\ e[k] <= Advance(m, s, e[k])
    BY <2>1, AdvanceGoesOn
  <2>3. e[k + 1] = Advance(m, s, e[k])
    BY <1>1
  <2>4. QED
    BY <1>2, <2>1, <2>2, <2>3
<1> HIDE DEF e, S
<1>5. \A k \in Nat : e[k] \in S
  BY <1>3, <1>4, EveryValue
<1>6. QED
  BY <1>5 DEF S, e, lo

(* An occurrence, byte by byte.                                            *)
LEMMA OccurrenceIsByteWise ==
  ASSUME NEW s \in Seq(Octet), NEW n \in Seq(Octet), n # <<>>, NEW ci, NEW pos \in Nat \ {0}
  PROVE  OccursAt(s, n, pos, ci) <=>
           /\ pos + Len(n) - 1 <= Len(s)
           /\ \A j \in 1 .. Len(n) : AsLower(s[pos + j - 1], ci) = n[j]
<1> DEFINE final == pos + Len(n) - 1
           part == SubSeq(s, pos, final)
<1>1. Len(s) \in Nat /\ Len(n) \in Nat \ {0} /\ final \in Nat
  BY LenProperties, EmptySeq
<1>2. ASSUME final <= Len(s)
      PROVE  /\ DOMAIN part = 1 .. Len(n)
             /\ \A j \in 1 .. Len(n) : part[j] = s[pos + j - 1]
  <2>1. \A i \in pos .. final : s[i] \in Octet
    BY <1>1, <1>2, ElementOfSeq
  <2>2. /\ part \in Seq(Octet) /\ Len(part) = IF pos <= final THEN final - pos + 1 ELSE 0
        /\ \A j \in 1 .. final - pos + 1 : part[j] = s[pos + j - 1]
    BY <1>1, <2>1, SubSeqProperties
  <2>3. final - pos + 1 = Len(n) /\ pos <= final
    BY <1>1
  <2>4. QED
    BY <2>2, <2>3, LenProperties
<1> HIDE DEF part
<1>3. QED
  BY <1>2 DEF OccursAt, EqualBytes, part

(* The window never moves past an occurrence without finding a needle: an  *)
(* edge at or before the final byte of its window is a hit, or the next one *)
(* is no further.                                                          *)
LEMMA NoOccurrenceIsPassed ==
  ASSUME NEW needles \in Seq(Seq(Octet)), NEW m, Prepared(m, needles), NEW s \in Seq(Octet),
         NEW k \in DOMAIN needles, needles[k] # <<>>, NEW pos \in Nat \ {0}, OccursAt(s, needles[k], pos, m.ci),
         NEW i \in Nat, m.minLen <= i, i <= pos + m.minLen - 1
  PROVE  Found(m, s, i) \/ Advance(m, s, i) <= pos + m.minLen - 1
<1> DEFINE n == needles[k]
           lo == m.minLen
           end == pos + lo - 1
           b == s[i]
           sh == m.shift[b]
<1>1. n \in Seq(Octet) /\ lo \in Nat \ {0} /\ Len(n) \in Nat /\ lo <= Len(n) /\ Len(s) \in Nat
  BY ElementOfSeq, LenProperties DEF Prepared
<1>2. /\ pos + Len(n) - 1 <= Len(s)
      /\ \A j \in 1 .. Len(n) : AsLower(s[pos + j - 1], m.ci) = n[j]
  BY <1>1, OccurrenceIsByteWise
<1>3. end \in Nat /\ end <= Len(s) /\ i \in 1 .. Len(s) /\ b \in Octet
  <2>0. pos + Len(n) - 1 <= Len(s)
    BY <1>2
  <2> DEFINE k1 == Len(n)
             k2 == Len(s)
  <2>a. /\ k1 \in Nat /\ k2 \in Nat /\ lo \in Nat \ {0} /\ lo <= k1
        /\ pos + k1 - 1 <= k2 /\ pos \in Nat \ {0}
        /\ i \in Nat /\ lo <= i /\ i <= end
    BY <1>1, <2>0
  <2>1. end \in Nat /\ end <= Len(s) /\ i \in 1 .. Len(s)
    <3> HIDE DEF k1, k2, n, lo
    <3>1. end \in Nat /\ end <= k2 /\ i \in 1 .. k2
      BY <2>a
    <3>2. QED
      BY <3>1 DEF k2
  <2>2. QED
    BY <2>1, ElementOfSeq
<1>4. /\ sh \in 0 .. lo
      /\ \A j \in 1 .. lo : n[j] = AsLower(b, m.ci) => sh <= lo - j
  BY <1>3 DEF Prepared, ShiftsAreSafe
<1>5. ASSUME NEW j \in 1 .. lo, i = pos + j - 1
      PROVE  sh <= lo - j /\ n[j] = AsLower(b, m.ci)
  <2>1. j \in 1 .. Len(n)
    BY <1>1
  <2>2. AsLower(s[pos + j - 1], m.ci) = n[j]
    BY <1>2, <2>1
  <2>3. QED
    BY <1>4, <1>5, <2>2
<1>6. Advance(m, s, i) = i + (IF sh = 0 THEN 1 ELSE sh)
  BY <1>3 DEF Advance
<1>7. lo <= i /\ i <= end /\ end = pos + lo - 1
  OBVIOUS
<1>8. Found(m, s, i) <=> sh = 0 /\ \E d \in m.endBuckets[AsLower(b, m.ci)] : OccursAt(s, d, i - lo + 1, m.ci)
  BY <1>3 DEF Found
<1>9. \A c \in Octet : m.endBuckets[c] = {d \in Range(needles) : d[lo] = c}
  BY DEF Prepared, BucketsAreComplete
<1>10. n \in Range(needles) /\ OccursAt(s, n, pos, m.ci)
  BY DEF Range
<1>11. SUFFICES ASSUME ~Found(m, s, i) PROVE Advance(m, s, i) <= end
  OBVIOUS
<1> HIDE DEF n, lo, end, b, sh
<1>12. CASE i = end
  <2>1. sh = 0 /\ n[lo] = AsLower(b, m.ci)
    <3>1. lo \in 1 .. lo /\ i = pos + lo - 1 /\ lo - lo = 0
      BY <1>1, <1>7, <1>12
    <3>2. sh <= lo - lo /\ n[lo] = AsLower(b, m.ci)
      BY <1>5, <3>1
    <3>3. QED
      BY <1>1, <1>4, <3>1, <3>2
  <2>2. AsLower(b, m.ci) \in Octet
    <3>1. n[lo] \in Octet
      BY <1>1, ElementOfSeq
    <3>2. QED
      BY <2>1, <3>1
  <2>3. n \in m.endBuckets[AsLower(b, m.ci)]
    BY <1>9, <1>10, <2>1, <2>2
  <2>4. i - lo + 1 = pos
    BY <1>1, <1>7, <1>12
  <2>5. QED
    BY <1>8, <1>10, <1>11, <2>1, <2>3, <2>4
<1>13. CASE i < end /\ end - i < lo
  <2> DEFINE j == i - pos + 1
  <2>1. j \in 1 .. lo /\ i = pos + j - 1 /\ lo - j = end - i
    BY <1>1, <1>7, <1>13
  <2> HIDE DEF j
  <2>2. sh <= end - i
    BY <1>5, <2>1
  <2>3. QED
    BY <1>1, <1>3, <1>4, <1>6, <1>13, <2>2
<1>14. CASE i < end /\ ~(end - i < lo)
  BY <1>1, <1>3, <1>4, <1>6, <1>14
<1>15. i = end \/ i < end
  BY <1>3, <1>7
<1>16. QED
  BY <1>12, <1>13, <1>14, <1>15

(* A hit is an occurrence.                                                 *)
LEMMA HitsAreOccurrences ==
  ASSUME NEW needles \in Seq(Seq(Octet)), NEW m, Prepared(m, needles), NEW s \in Seq(Octet),
         NEW i \in Nat, m.minLen <= i, Found(m, s, i)
  PROVE  \E k \in DOMAIN needles : Occurs(s, needles[k], m.ci)
<1> DEFINE lo == m.minLen
           b == AsLower(s[i], m.ci)
<1>1. lo \in Nat \ {0} /\ lo <= i /\ Len(s) \in Nat /\ i \in 1 .. Len(s)
  BY LenProperties DEF Prepared, Found
<1>2. PICK n \in m.endBuckets[b] : OccursAt(s, n, i - lo + 1, m.ci)
  BY DEF Found
<1>3. s[i] \in Octet /\ b \in Octet
  BY <1>1, ElementOfSeq, OctetAssumption DEF AsLower, LowerASCII
<1>4. n \in Range(needles)
  BY <1>2, <1>3 DEF Prepared, BucketsAreComplete
<1>5. PICK k \in DOMAIN needles : n = needles[k]
  BY <1>4 DEF Range
<1>6. Len(n) \in Nat
  BY <1>5 DEF Prepared
<1>7. (i - lo + 1) + Len(n) - 1 <= Len(s)
  BY <1>2 DEF OccursAt
<1> HIDE DEF lo
<1>8. i - lo + 1 \in 1 .. (Len(s) - Len(n) + 1)
  BY <1>1, <1>6, <1>7
<1>9. Occurs(s, n, m.ci)
  BY <1>2, <1>8 DEF Occurs, lo
<1>10. QED
  BY <1>5, <1>9

(* As long as nothing is found, the edges stay within an occurrence, and   *)
(* each is further than the one before: so something is found within as    *)
(* many moves as there are bytes.                                          *)
LEMMA OccurrencesAreHit ==
  ASSUME NEW needles \in Seq(Seq(Octet)), NEW m, Prepared(m, needles), NEW s \in Seq(Octet),
         NEW k \in DOMAIN needles, needles[k] # <<>>, NEW pos \in Nat \ {0}, OccursAt(s, needles[k], pos, m.ci)
  PROVE  \E j \in 0 .. Len(s) : Found(m, s, Edges(m, s)[j])
<1> DEFINE e == Edges(m, s)
           lo == m.minLen
           end == pos + lo - 1
           T == {j \in Nat : j <= Len(s) => e[j] <= end /\ lo + j <= e[j]}
<1>1. SUFFICES ASSUME \A j \in 0 .. Len(s) : ~Found(m, s, e[j])
               PROVE  FALSE
  OBVIOUS
<1>2. /\ lo \in Nat \ {0} /\ Len(s) \in Nat /\ Len(needles[k]) \in Nat
      /\ pos + Len(needles[k]) - 1 <= Len(s) /\ lo <= Len(needles[k])
  BY LenProperties DEF Prepared, OccursAt
<1>3. /\ e[0] = lo
      /\ \A j \in Nat : e[j + 1] = Advance(m, s, e[j]) /\ e[j] \in Nat /\ lo <= e[j]
  BY EdgesAreRepeats, EdgesAreNumbers
<1>4. \A i \in Nat : lo <= i /\ i <= end /\ ~Found(m, s, i) => Advance(m, s, i) <= end
  BY NoOccurrenceIsPassed
<1>5. \A i \in Nat \ {0} : Advance(m, s, i) \in Nat /\ (i <= Len(s) => i + 1 <= Advance(m, s, i))
  BY AdvanceGoesOn
<1> HIDE DEF e, lo
<1>6. end \in Nat /\ end <= Len(s) /\ lo <= end
  BY <1>2
<1> HIDE DEF end
<1>7. \A j \in Nat : j \in T <=> (j <= Len(s) => e[j] <= end /\ lo + j <= e[j])
  OBVIOUS
<1> HIDE DEF T
<1>8. 0 \in T
  <2>1. e[0] = lo /\ lo \in Nat
    BY <1>2, <1>3
  <2>2. e[0] <= end /\ lo + 0 <= e[0]
    BY <1>6, <2>1
  <2>3. QED
    BY <1>7, <2>2
<1>9. ASSUME NEW j \in Nat, j \in T
      PROVE  j + 1 \in T
  <2>1. SUFFICES ASSUME j + 1 <= Len(s)
                 PROVE  e[j + 1] <= end /\ lo + (j + 1) <= e[j + 1]
    BY <1>7
  <2>2. e[j] <= end /\ lo + j <= e[j] /\ j \in 0 .. Len(s)
    <3>1. j <= Len(s)
      BY <1>2, <2>1
    <3>2. QED
      BY <1>2, <1>7, <1>9, <3>1
  <2>3. e[j] \in Nat \ {0} /\ lo <= e[j] /\ e[j] <= Len(s) /\ ~Found(m, s, e[j])
    <3>1. e[j] \in Nat /\ lo <= e[j]
      BY <1>3
    <3>2. QED
      BY <1>1, <1>2, <1>6, <2>2, <3>1
  <2>4. e[j + 1] = Advance(m, s, e[j])
    BY <1>3
  <2>5. e[j + 1] <= end
    BY <1>4, <2>2, <2>3, <2>4
  <2>6. e[j + 1] \in Nat /\ e[j] + 1 <= e[j + 1]
    BY <1>5, <2>3, <2>4
  <2>7. QED
    BY <1>2, <2>2, <2>3, <2>5, <2>6
<1>10. Nat \subseteq T
  BY <1>8, <1>9, Induction
<1>11. e[Len(s)] <= end /\ lo + Len(s) <= e[Len(s)] /\ e[Len(s)] \in Nat
  <2>1. Len(s) \in T /\ Len(s) \in Nat /\ Len(s) <= Len(s)
    BY <1>2, <1>10
  <2>2. QED
    BY <1>3, <1>7, <2>1
<1>12. QED
  BY <1>2, <1>6, <1>11

(* The search for several needles at once finds exactly what a search for  *)
(* each in turn finds, for all needles and all bytes: no needle is missed  *)
(* for the windows that are skipped, and although the table keeps its      *)
(* entries in few bits, nor is there any that does not occur.              *)
THEOREM SearchIsExact ==
  ASSUME NEW ci, NEW needles, Needles(needles, ci), needles # <<>>, NEW s \in Seq(Octet)
  PROVE  Match(NewIndexedMatcher(needles, ci), s) <=>
           \E k \in DOMAIN needles : Occurs(s, needles[k], ci)
<1> DEFINE m == NewIndexedMatcher(needles, ci)
<1>1. Prepared(m, needles) /\ m.ci = ci
  BY MatcherIsPrepared
<1>2. /\ needles \in Seq(Seq(Octet)) /\ m.minLen # 0 /\ Len(s) \in Nat
      /\ \A k \in DOMAIN needles : needles[k] # <<>> /\ Len(needles[k]) \in Nat /\ (ci => IsASCII(needles[k]))
  BY <1>1, LenProperties DEF Needles, Prepared
<1> HIDE DEF m
<1>3. ASSUME Match(m, s)
      PROVE  \E k \in DOMAIN needles : Occurs(s, needles[k], ci)
  <2>1. PICK j \in 0 .. Len(s) : Found(m, s, Edges(m, s)[j])
    BY <1>3 DEF Match
  <2>2. Edges(m, s)[j] \in Nat /\ m.minLen <= Edges(m, s)[j]
    BY <1>1, EdgesAreNumbers
  <2>3. QED
    BY <1>1, <1>2, <2>1, <2>2, HitsAreOccurrences
<1>4. ASSUME NEW k \in DOMAIN needles, Occurs(s, needles[k], ci)
      PROVE  Match(m, s)
  <2>1. PICK pos \in 1 .. (Len(s) - Len(needles[k]) + 1) : OccursAt(s, needles[k], pos, ci)
    BY <1>2, <1>4 DEF Occurs
  <2>2. pos \in Nat \ {0}
    BY <1>2
  <2>3. \E j \in 0 .. Len(s) : Found(m, s, Edges(m, s)[j])
    BY <1>1, <1>2, <2>1, <2>2, OccurrencesAreHit
  <2>4. QED
    BY <1>2, <2>3 DEF Match
<1>5. QED
  BY <1>3, <1>4 DEF m

(* What was loaded last is an operator.                                    *)
LoadedExists == last.step = "loaded" => last.op \in DOMAIN ops

LEMMA LoadedIsThere == Spec => []LoadedExists
<1>1. Init => LoadedExists
  BY DEF Init, LoadedExists
<1>2. HInv /\ LoadedExists /\ [Next]_vars => LoadedExists'
  <2> SUFFICES ASSUME HInv, LoadedExists, [Next]_vars PROVE LoadedExists'
    OBVIOUS
  <2>1. ops \in Seq(Operators) /\ Len(ops) \in Nat
    BY LenProperties DEF HInv, Loaded
  <2>2. CASE NewHostRX
    <3> DEFINE p == Head(todo)
    <3>1. CASE last'.step = "loaded"
      <4>1. PICK h \in Nat : ops' = Append(ops, HostRX(p, h)) /\ last'.op = Len(ops) + 1
                              /\ HostRX(p, h) \in Operators
        <5>1. p \in Patterns /\ nextHandle \in Nat \ {0}
          BY <2>2, HeadTailProperties DEF NewHostRX, HInv, Loaded
        <5>2. CASE Translates(p)
          BY <2>2, <5>1, <5>2 DEF NewHostRX, Operators
        <5>3. CASE ~Translates(p) /\ p.go
          BY <2>2, <5>1, <5>3 DEF NewHostRX, Operators
        <5>4. CASE ~Translates(p) /\ ~p.go
          BY <2>2, <3>1, <5>4 DEF NewHostRX
        <5>5. QED
          BY <5>2, <5>3, <5>4
      <4>2. DOMAIN ops' = 1 .. (Len(ops) + 1)
        BY <2>1, <4>1, AppendProperties, LenProperties
      <4>3. QED
        BY <2>1, <4>1, <4>2 DEF LoadedExists
    <3>2. QED
      BY <3>1 DEF LoadedExists
  <2>3. CASE \E o \in DOMAIN ops, v \in Values : Evaluate(o, v)
    <3>1. last'.step = "evaluated"
      BY <2>3 DEF Evaluate
    <3>2. QED
      BY <3>1 DEF LoadedExists
  <2>4. CASE UNCHANGED vars
    BY <2>4 DEF LoadedExists, vars
  <2>5. QED
    BY <2>2, <2>3, <2>4 DEF Next
<1>3. QED
  BY <1>1, <1>2, MemosAreTrue, PTL DEF Spec

(* IndexedSearchIsExact: whatever rules are loaded, the search that the    *)
(* prefilter of one makes for several literals at once answers what a      *)
(* search for each in turn answers.                                        *)
THEOREM SearchesAreExact == Spec => []IndexedSearchIsExact
<1>1. HInv /\ LoadedExists => IndexedSearchIsExact
  <2> DEFINE pf == ops[last.op].prefilter
  <2>1. SUFFICES ASSUME HInv, LoadedExists, last.step = "loaded", pf.kind = "literals", Len(pf.any) > 1,
                        NEW s \in Inputs
                 PROVE  Match(NewIndexedMatcher(pf.any, pf.ci), Octets(s)) <=>
                          \E k \in DOMAIN pf.any : Occurs(Octets(s), pf.any[k], pf.ci)
    BY DEF IndexedSearchIsExact
  <2>2. ops[last.op] \in Operators
    BY <2>1, LenProperties, ElementOfSeq DEF HInv, Loaded, LoadedExists
  <2>3. PICK p \in Patterns : pf = FilterOf(p)
    <3>1. PICK p \in Patterns, h \in Nat : ops[last.op] = HostRX(p, h)
      BY <2>2 DEF Operators
    <3>2. HostRX(p, h).prefilter = FilterOf(p)
      BY DEF HostRX
    <3>3. QED
      BY <3>1, <3>2
  <2> HIDE DEF pf
  <2>4. Needles(pf.any, pf.ci) /\ Octets(s) \in Seq(Octet)
    BY <2>1, <2>3, FilterAssumption
  <2>5. pf.any # << >>
    BY <2>1, EmptySeq
  <2>6. QED
    BY <2>4, <2>5, SearchIsExact
<1>2. QED
  BY <1>1, MemosAreTrue, LoadedIsThere, PTL
=============================================================================
