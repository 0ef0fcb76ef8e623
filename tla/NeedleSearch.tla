----------------------------- MODULE NeedleSearch -----------------------------
(***************************************************************************)
(* Searching the bytes of a value for one literal and for several at once  *)
(* (rxprefilter.go).  Folding is of ASCII only; needles are lower case     *)
(* then.                                                                   *)
(***************************************************************************)
EXTENDS Integers, Sequences, Functions

CONSTANTS
    Octet,       \* the bytes
    UpperCase,   \* the capital letters among them
    CaseGap,     \* what makes a small letter of a capital
    ShiftWidth   \* values of an entry of the shift table (256: a uint8)

ASSUME OctetAssumption ==
    /\ UpperCase \subseteq Octet /\ CaseGap \in Int /\ Octet \subseteq Nat
    /\ \A b \in UpperCase : b + CaseGap \in Octet \ UpperCase
ASSUME ShiftWidthAssumption == ShiftWidth \in Nat /\ ShiftWidth > 1

IsASCII(s) == \A k \in DOMAIN s : s[k] < 128
LowerASCII(b) == IF b \in UpperCase THEN b + CaseGap ELSE b
AsLower(b, ci) == IF ci THEN LowerASCII(b) ELSE b
EqualBytes(a, b, ci) == \A k \in DOMAIN a : AsLower(a[k], ci) = b[k]
OccursAt(s, n, pos, ci) == /\ pos + Len(n) - 1 <= Len(s)
                           /\ EqualBytes(SubSeq(s, pos, pos + Len(n) - 1), n, ci)
HasPrefix(s, n, ci) == OccursAt(s, n, 1, ci)
HasSuffix(s, n, ci) == Len(n) <= Len(s) /\ OccursAt(s, n, Len(s) - Len(n) + 1, ci)
Occurs(s, n, ci) == \/ ci /\ ~IsASCII(n) /\ Len(n) <= Len(s)
                    \/ \E pos \in 1..(Len(s) - Len(n) + 1) : OccursAt(s, n, pos, ci)

-----------------------------------------------------------------------------
(* indexedMatcher: a window as long as the shortest needle, moved by what  *)
(* the byte at its right edge allows.                                      *)
Least(ns) == CHOOSE n \in ns : \A m \in ns : n <= m

(* how far the window may move when its last byte is the j-th of a needle *)
Gap(minLen, j) == (minLen - j) % ShiftWidth

NewIndexedMatcher(needles, ci) ==
    LET minLen == Least({Len(needles[k]) : k \in DOMAIN needles})
        most   == Least({minLen, ShiftWidth - 1})
        places(b) == {j \in 1..minLen : \E k \in DOMAIN needles : needles[k][j] \in {b, AsLower(b, ci)}}
    IN [minLen |-> minLen, ci |-> ci,
        shift |-> [b \in Octet |-> Least({Gap(minLen, j) : j \in places(b)} \cup {most})],
        endBuckets |-> [b \in Octet |-> {n \in Range(needles) : n[minLen] = b}]]

Found(m, s, i) ==
    /\ i <= Len(s) /\ m.shift[s[i]] = 0
    /\ \E n \in m.endBuckets[AsLower(s[i], m.ci)] : OccursAt(s, n, i - m.minLen + 1, m.ci)

AdvanceByWindow(m, s, i) ==
    IF i > Len(s) THEN i ELSE i + (IF m.shift[s[i]] = 0 THEN m.minLen ELSE m.shift[s[i]])
(* the next right edge; past the end the search is over *)
Advance(m, s, i) ==
    IF i > Len(s) THEN i ELSE i + (IF m.shift[s[i]] = 0 THEN 1 ELSE m.shift[s[i]])
Edges(m, s) ==
    LET edge[k \in Nat] == IF k = 0 THEN m.minLen ELSE Advance(m, s, edge[k - 1])
    IN edge

Match(m, s) == m.minLen # 0 /\ \E k \in 0..Len(s) : Found(m, s, Edges(m, s)[k])

(* What a search for several needles may be built from.                    *)
Needles(ns, ci) ==
    /\ ns \in Seq(Seq(Octet))
    /\ \A k \in DOMAIN ns : /\ ns[k] # <<>>
                            /\ ci => IsASCII(ns[k]) /\ \A j \in DOMAIN ns[k] : ns[k][j] \notin UpperCase
=============================================================================
