----------------------------- MODULE MCPoolBoot -----------------------------
(***************************************************************************)
(* The start of a pool, with the options and the binaries it is given.     *)
(***************************************************************************)
EXTENDS PoolRules

-----------------------------------------------------------------------------
(* Options that are absent, undefined or given, one kind at a time and     *)
(* together.                                                               *)
Choice(name, values) == {<< >>} \cup {name :> v : v \in values}

Levels == Choice("paranoia", {Undefined, 4})
Blocks == Choice("anomalyBlock", {Undefined, TRUE, FALSE})
Thresholds ==
  {<< >>, [inboundAnomalyThreshold |-> 7, outboundAnomalyThreshold |-> Undefined],
   [inboundAnomalyThreshold |-> Undefined, outboundAnomalyThreshold |-> 6]}
Inbound  == Choice("exclude", {Undefined, {}, {"php"}, {"java", "nodejs", "iis"}})
Outbound == Choice("outboundExclude", {{"php", "dotnet"}, {"java", "iis"}})
DroppedCategories ==
  Choice("excludeCategories",
         {<<c>> : c \in CrsCategory} \cup
         {<< >>, <<"dos-protection", "scanner-detection">>, <<"php", "sqli", "php">>})

MCOverrides ==
  {l @@ b @@ t : l \in Levels, b \in Blocks, t \in Thresholds}
    \cup {i @@ o @@ c : i \in Inbound, o \in Outbound, c \in DroppedCategories}
    \cup {[extra |-> "SecRule"], [extra |-> ""]}

-----------------------------------------------------------------------------
(* Binaries of one or two sections in either order, whose contents look like *)
(* sections of memory themselves, with every padding of the sizes, limits  *)
(* with and without a greatest number of pages.                            *)
Other(id, content, pad) ==
  [kind |-> "other", id |-> id, content |-> content, sizePad |-> pad]
Memory(flags, min, max, pad, minPad, countPad) ==
  [kind |-> "memory", flags |-> flags, min |-> min, max |-> max, sizePad |-> pad,
   minPad |-> minPad, maxPad |-> minPad, countPad |-> countPad]
MemoriesOf(count, content) ==
  [kind |-> "memories", count |-> count, countPad |-> 1, content |-> content,
   sizePad |-> 1]

Others ==
  {Other(0, c, p) : c \in {<< >>, <<5, 2, 1, 0>>, <<1, 5, 1>>}, p \in {1, 3}}
    \cup {Other(7, <<5, 3, 1, 1, 0>>, 2)}
MemorySections ==
  {Memory(f, m, x, p, q, 1) : f \in {0, 1, 3}, m \in {0, 2, 5, 6, 9}, x \in {9, 21},
                              p \in {1, 3}, q \in {1, 3}}
    \cup {Memory(1, 2, 9, 1, 1, 2), MemoriesOf(0, << >>), MemoriesOf(2, <<0, 1, 0, 3>>)}

MCModules ==
  {<<o>> : o \in Others} \cup {<<m>> : m \in MemorySections}
    \cup {<<o, m>> : o \in Others, m \in MemorySections}
    \cup {<<m, o>> : o \in Others, m \in MemorySections}
=============================================================================
