------------------------------ MODULE WasmPatch ------------------------------
(***************************************************************************)
(* The rewriting of a WASM binary so that it starts with enough memory     *)
(* (wasmPatch.ts, and ensureInitialPages() of wasm.ts).                    *)
(*                                                                         *)
(* A binary is a sequence of bytes after the magic number: sections of an  *)
(* id, a size and as many bytes.  Numbers are ULEB: digits of base Base    *)
(* (128 in the code), the least significant first, and a byte of Base or   *)
(* more says that another follows.  An encoder may pad a number with zero  *)
(* digits, which linkers do for the sizes they fill in later.  Positions   *)
(* count from 0, as in the code.  A valid binary has numbers of 32 bits in *)
(* at most five digits: the reader's limit of six is left out.             *)
(***************************************************************************)
EXTENDS Integers, Sequences, SequencesExt

CONSTANTS
  Base,          (* values of a digit                                      *)
  InitialPages,  (* CORAZA_INITIAL_PAGES                                   *)
  Modules        (* the binaries, each a sequence of sections              *)
ASSUME WidthAssumption == Base \in Nat \ {0, 1} /\ InitialPages \in Nat

Byte == 0 .. 2 * Base - 1
SectionMemory == 5
HasMax(flags) == flags % 2 = 1

(* A byte past the end is undefined, which counts as 0.                    *)
At(wasm, i) == IF i < Len(wasm) THEN wasm[i + 1] ELSE 0
Part(wasm, from, to) == SubSeq(wasm, from + 1, to)

(* What is left of a number after so many digits.                          *)
Rest(value) ==
  LET rest[k \in Nat] == IF k = 0 THEN value ELSE rest[k - 1] \div Base
  IN rest
Digit(value, k) == Rest(value)[k - 1] % Base

(* The number at i: it ends with the first byte that nothing follows.      *)
Ends(wasm, i, last) ==
  At(wasm, last) < Base /\ \A k \in i .. last - 1 : At(wasm, k) >= Base
ReadULEB(wasm, i) ==
  LET last == CHOOSE k \in i .. i + Len(wasm) : Ends(wasm, i, k)
      value[k \in 0 .. last - i] ==              (* of the digits from last - k *)
        (At(wasm, last - k) % Base) + (IF k = 0 THEN 0 ELSE Base * value[k - 1])
  IN [value |-> value[last - i], after |-> last + 1]

(* Digits are written until nothing is left.                               *)
WriteULEB(value) ==
  LET count == CHOOSE n \in 1 .. value + 1 :
                 Rest(value)[n] = 0 /\ \A k \in 1 .. n - 1 : Rest(value)[k] # 0
  IN [k \in 1 .. count |->
        Digit(value, k) + (IF Rest(value)[k] # 0 THEN Base ELSE 0)]

-----------------------------------------------------------------------------
(* The walk over the sections: the first one with this id, and with its    *)
(* content at this position when one is given.                             *)
SectionAt(wasm, i) ==
  LET size == ReadULEB(wasm, i + 1)
  IN [id |-> At(wasm, i), at |-> i, start |-> size.after,
      end |-> size.after + size.value]
NoSection == [id |-> -1, at |-> -1, start |-> -1, end |-> -1]
Anywhere == -1

Positions(wasm) ==
  LET i[k \in Nat] == IF k = 0 THEN 0 ELSE SectionAt(wasm, i[k - 1]).end
  IN i
IsWanted(section, id, start) ==
  section.id = id /\ start \in {Anywhere, section.start}
StopsAt(wasm, i, id, start) ==
  i >= Len(wasm) \/ IsWanted(SectionAt(wasm, i), id, start)
Stops(wasm, k, id, start) == StopsAt(wasm, Positions(wasm)[k], id, start)
FirstStop(wasm, id, start) ==
  CHOOSE n \in 0 .. Len(wasm) :
    /\ Stops(wasm, n, id, start)
    /\ \A m \in 0 .. n - 1 : ~ Stops(wasm, m, id, start)
Found(wasm, i) == IF i >= Len(wasm) THEN NoSection ELSE SectionAt(wasm, i)
Walk(wasm, id, start) == Found(wasm, Positions(wasm)[FirstStop(wasm, id, start)])

MemorySection(wasm) == Walk(wasm, SectionMemory, Anywhere)
FirstByteOf(wasm, contentStart, id) ==
  LET here == {i \in 0 .. contentStart - 1 : At(wasm, i) = id}
  IN CHOOSE i \in here : \A j \in here : i <= j
FindSectionIdIndex(wasm, contentStart, id) == Walk(wasm, id, contentStart).at

NoPages == -1
ReadInitialMemoryPages(wasm) ==
  LET section == MemorySection(wasm)
      count == ReadULEB(wasm, section.start)
  IN IF section = NoSection \/ count.value # 1 THEN NoPages
     ELSE ReadULEB(wasm, count.after + 1).value

(* The limits: flags, the least number of pages, and the greatest one when *)
(* the flags say so.                                                       *)
MaxBytes(wasm, flags, afterMin, end) ==
  IF HasMax(flags) THEN Part(wasm, afterMin, end) ELSE << >>

PatchMemorySection(wasm, start, end, pages) ==
  LET count == ReadULEB(wasm, start)
      flags == At(wasm, count.after)
      min == ReadULEB(wasm, count.after + 1)
      content == <<1, flags>> \o WriteULEB(pages)
                   \o MaxBytes(wasm, flags, min.after, end)
      id == FindSectionIdIndex(wasm, start, SectionMemory)
  IN IF count.value # 1 \/ min.value >= pages \/ id < 0 THEN wasm
     ELSE Part(wasm, 0, id + 1) \o WriteULEB(Len(content)) \o content
            \o Part(wasm, end, Len(wasm))

PatchInitialMemory(wasm, pages) ==
  LET section == MemorySection(wasm)
  IN IF section = NoSection THEN wasm
     ELSE PatchMemorySection(wasm, section.start, section.end, pages)

EnsureInitialPages(wasm) ==
  IF ReadInitialMemoryPages(wasm) >= InitialPages THEN wasm
  ELSE PatchInitialMemory(wasm, InitialPages)

-----------------------------------------------------------------------------
(* The binary format, by what it encodes: a section is an id, the number   *)
(* of digits its size is padded to, and its content.  That of memories is  *)
(* their number and their limits, which are taken apart for a single one.  *)
Digits(value, pad) ==
  LET needed == CHOOSE n \in 1 .. value + 1 :
                  Rest(value)[n] = 0 /\ \A k \in 1 .. n - 1 : Rest(value)[k] # 0
  IN IF pad > needed THEN pad ELSE needed
ULEB(value, pad) ==
  [k \in 1 .. Digits(value, pad) |->
     Digit(value, k) + (IF k < Digits(value, pad) THEN Base ELSE 0)]

Limits(s) ==
  <<s.flags>> \o ULEB(s.min, s.minPad)
    \o (IF HasMax(s.flags) THEN ULEB(s.max, s.maxPad) ELSE << >>)
Content(s) ==
  CASE s.kind = "memory"   -> ULEB(1, s.countPad) \o Limits(s)
    [] s.kind = "memories" -> ULEB(s.count, s.countPad) \o s.content
    [] s.kind = "other"    -> s.content
Id(s) == IF s.kind = "other" THEN s.id ELSE SectionMemory
EncodeSection(s) == <<Id(s)>> \o ULEB(Len(Content(s)), s.sizePad) \o Content(s)
Encode(sections) ==
  FlattenSeq([k \in DOMAIN sections |-> EncodeSection(sections[k])])

OneMemory ==
  [kind : {"memory"}, sizePad : Nat, countPad : Nat, flags : Byte,
   min : Nat, minPad : Nat, max : Nat, maxPad : Nat]
Memories ==
  [kind : {"memories"}, sizePad : Nat, countPad : Nat, count : Nat \ {1},
   content : Seq(Byte)]
OtherSection ==
  [kind : {"other"}, sizePad : Nat, id : Byte \ {SectionMemory}, content : Seq(Byte)]
Section == OneMemory \cup Memories \cup OtherSection

(* A binary has at most one section of memories.                           *)
IsModule(sections) ==
  /\ sections \in Seq(Section)
  /\ \A j, k \in DOMAIN sections :
       Id(sections[j]) = SectionMemory /\ Id(sections[k]) = SectionMemory => j = k
ASSUME ModulesAssumption ==
  SectionMemory \in Byte /\ \A sections \in Modules : IsModule(sections)

(* The memory of the binary with more pages: the section is encoded anew,  *)
(* with the greatest number of pages as it was, and nothing else changes.  *)
Raised(s) ==
  IF s.kind = "memory" /\ s.min < InitialPages
  THEN [kind |-> "memory", sizePad |-> 1, countPad |-> 1, flags |-> s.flags,
        min |-> InitialPages, minPad |-> 1, max |-> s.max, maxPad |-> s.maxPad]
  ELSE s
RaisedModule(sections) == [k \in DOMAIN sections |-> Raised(sections[k])]

(* Both readers of the memory section find it large enough then, and       *)
(* making it ready again changes nothing.                                  *)
IsExact(sections, patched) ==
  /\ patched = Encode(RaisedModule(sections))
  /\ EnsureInitialPages(patched) = patched
  /\ (\E k \in DOMAIN sections : sections[k].kind = "memory") =>
       ReadInitialMemoryPages(patched) >= InitialPages
PatchingIsExact ==
  \A sections \in Modules : IsExact(sections, EnsureInitialPages(Encode(sections)))
=============================================================================
