----------------------------- MODULE BundleCodec -----------------------------
(***************************************************************************)
(* The request bundle: connection, URI, headers and body of a request,     *)
(* packed by encodeRequestBundle() (transaction.ts) and unpacked by        *)
(* txProcessRequestBundle() (bundle.go).                                   *)
(*                                                                         *)
(* A string is the sequence of the UTF-8 widths of its characters, so that *)
(* Len is what JavaScript calls its length.  A byte is the width of the    *)
(* character it starts, or Cont when it continues one.  Every number of    *)
(* the packet takes one byte here; the ones of limited width wrap at       *)
(* MaxShort (a u8) and MaxAddr (a u16), which stand for 255 and 65535.     *)
(***************************************************************************)
EXTENDS Integers, Sequences, SequencesExt

CONSTANTS
  MaxShort,    (* greatest length of the method and of the protocol        *)
  MaxAddr,     (* greatest length of the address, greatest port            *)
  ScratchCap   (* bytes of scratchBuf, SCRATCH_CAP in transaction.ts       *)

ASSUME WidthAssumption == /\ MaxShort \in Nat /\ MaxAddr \in Nat
                          /\ ScratchCap \in Nat

Cont == 0
Blank == 9   (* what scratchBuf holds before the first request             *)

Strings == Seq(1..4)
HeaderLists == Seq(Strings \X Strings)
Bundles == [method : Strings, proto : Strings, addr : Strings, url : Strings, body : Strings,
            cport : Nat, sport : Nat, headers : HeaderLists]

Utf8(s) == FlattenSeq([i \in DOMAIN s |->
             [k \in 1..s[i] |-> IF k = 1 THEN s[i] ELSE Cont]])

(* truncateUtf8: the cut steps back over the bytes that continue a         *)
(* character, and b[end] of the code is b[end + 1] here.                   *)
CutInside(b, max) == IF Len(b) <= max THEN Len(b) ELSE max
CutAt(b, max) ==
  IF Len(b) <= max THEN Len(b)
  ELSE CHOOSE e \in 0..max :
         /\ e = 0 \/ b[e + 1] # Cont
         /\ \A k \in (e + 1)..max : b[k + 1] = Cont

Widest == [method |-> MaxShort, proto |-> MaxShort, addr |-> MaxAddr]

----------------------------------------------------------------------------
(* JavaScript: the short fields lie end to end in scratchBuf.              *)

(* writeScratch: a field whose worst case does not fit gets a buffer of    *)
(* its own, and the next offset counts its bytes all the same.             *)
NextOffsetShort(off, b, chars) == off + chars
NextOffset(off, b, chars) == off + Len(b)
WriteField(req, a, f) ==
  LET b == Utf8(req[f])
      size == IF f = "url" THEN Len(b) ELSE CutAt(b, Widest[f])
      fits == a.off + 4 * Len(req[f]) <= ScratchCap
  IN [off |-> NextOffset(a.off, b, Len(req[f])),
      buf |-> IF fits
              THEN [k \in 1..ScratchCap |->
                      IF k \in (a.off + 1)..(a.off + Len(b)) THEN b[k - a.off]
                      ELSE a.buf[k]]
              ELSE a.buf,
      view |-> [a.view EXCEPT ![f] = [fresh |-> ~fits, at |-> a.off,
                                      bytes |-> SubSeq(b, 1, size)]]]

EmptyScratch ==
  [off |-> 0, buf |-> [k \in 1..ScratchCap |-> Blank],
   view |-> [f \in {"method", "proto", "addr", "url"} |->
               [fresh |-> TRUE, at |-> 0, bytes |-> << >>]]]

(* What a view shows once every field is written.                          *)
Seen(a, f) ==
  LET v == a.view[f]
  IN IF v.fresh THEN v.bytes
     ELSE SubSeq(a.buf, v.at + 1, v.at + Len(v.bytes))

Sized(b) == <<Len(b)>> \o b

EncodeHeaders(headers) ==
  <<Len(headers)>> \o
  FlattenSeq([i \in DOMAIN headers |->
    Sized(Utf8(headers[i][1])) \o Sized(Utf8(headers[i][2]))])

Written(req) ==
  LET method == WriteField(req, EmptyScratch, "method")
      proto  == WriteField(req, method, "proto")
      addr   == WriteField(req, proto, "addr")
  IN WriteField(req, addr, "url")

EncodeBundle(req) ==
  LET s == Written(req)
      Short(f) == <<Len(Seen(s, f)) % (Widest[f] + 1)>> \o Seen(s, f)
  IN Short("addr") \o <<req.cport % (MaxAddr + 1), req.sport % (MaxAddr + 1)>>
     \o Short("method") \o Short("proto") \o Sized(Seen(s, "url"))
     \o Sized(EncodeHeaders(req.headers)) \o Sized(Utf8(req.body))

----------------------------------------------------------------------------
(* Go: a cursor over the packet.                                           *)

(* readU8, readU16, readU32 and readBlob: off does not move past the end.  *)
ReadNum(pkt, off) ==
  IF off + 1 > Len(pkt) THEN [ok |-> FALSE, val |-> 0, off |-> off]
  ELSE [ok |-> TRUE, val |-> pkt[off + 1], off |-> off + 1]

ReadSized(pkt, off) ==
  LET size == ReadNum(pkt, off)
      end == size.off + size.val
  IN IF ~size.ok \/ end > Len(pkt)
     THEN [ok |-> FALSE, val |-> << >>, off |-> size.off]
     ELSE [ok |-> TRUE, val |-> SubSeq(pkt, size.off + 1, end), off |-> end]

Ports == {"cport", "sport"}
ReadAt(pkt, off, f) == IF f \in Ports THEN ReadNum(pkt, off) ELSE ReadSized(pkt, off)

(* The cursor a, once r has been read for the field f.                     *)
After(a, f, r) ==
  [off |-> r.off, ok |-> a.ok /\ r.ok, vals |-> [a.vals EXCEPT ![f] = r.val]]
ReadField(pkt, a, f) == After(a, f, ReadAt(pkt, a.off, f))

Unread == [off |-> 0, ok |-> TRUE,
           vals |-> [f \in {"addr", "cport", "sport", "method", "proto", "url",
                            "hdr", "body"} |-> << >>]]

DecodeBundle(pkt) ==
  LET addr   == ReadField(pkt, Unread, "addr")
      ports  == ReadField(pkt, ReadField(pkt, addr, "cport"), "sport")
      method == ReadField(pkt, ports, "method")
      proto  == ReadField(pkt, method, "proto")
      url    == ReadField(pkt, proto, "url")
  IN ReadField(pkt, ReadField(pkt, url, "hdr"), "body")

(* parseHeaderPacket: it stops at the first entry that is cut short.       *)
ReadHeader(pkt, a) ==
  LET name == ReadSized(pkt, a.off)
      value == ReadSized(pkt, name.off)
  IN IF ~a.ok THEN a
     ELSE IF ~name.ok \/ ~value.ok THEN [a EXCEPT !.ok = FALSE]
     ELSE [off |-> value.off, ok |-> TRUE,
           hs |-> Append(a.hs, <<name.val, value.val>>)]

HeadersRead(pkt) ==
  LET read[k \in Nat] == IF k = 0 THEN [off |-> 1, ok |-> TRUE, hs |-> << >>]
                                  ELSE ReadHeader(pkt, read[k - 1])
  IN read

DecodeHeaders(pkt) ==
  IF pkt = << >> THEN [off |-> 0, ok |-> FALSE, hs |-> << >>]
  ELSE HeadersRead(pkt)[pkt[1]]

----------------------------------------------------------------------------
(* What the engine is to be given for a request: the longest prefix of     *)
(* whole characters that fits the field, and everything else unchanged.    *)

Fits(s, n, max) == Len(Utf8(SubSeq(s, 1, n))) <= max

Clip(s, max) ==
  LET n == CHOOSE n \in 0..Len(s) : /\ Fits(s, n, max)
                                    /\ n = Len(s) \/ ~Fits(s, n + 1, max)
  IN Utf8(SubSeq(s, 1, n))

Clipped(req) ==
  [addr |-> Clip(req.addr, MaxAddr), cport |-> req.cport % (MaxAddr + 1),
   sport |-> req.sport % (MaxAddr + 1),
   method |-> Clip(req.method, MaxShort), proto |-> Clip(req.proto, MaxShort),
   url |-> Utf8(req.url), body |-> Utf8(req.body),
   headers |-> [i \in DOMAIN req.headers |->
                  <<Utf8(req.headers[i][1]), Utf8(req.headers[i][2])>>]]

(* The fields the engine finds in a packet.                                *)
Fields(pkt) ==
  LET d == DecodeBundle(pkt).vals
  IN [addr |-> d.addr, cport |-> d.cport, sport |-> d.sport,
      method |-> d.method, proto |-> d.proto, url |-> d.url, body |-> d.body,
      headers |-> DecodeHeaders(d.hdr).hs]

(* What is decoded of an encoded input is the input, with the short fields *)
(* cut between characters.                                                 *)
RequestRoundTrips(req) ==
  LET pkt == EncodeBundle(req)
  IN Fields(pkt) = Clipped(req) /\ DecodeBundle(pkt).ok
HeadersRoundTrip(headers) ==
  LET d == DecodeHeaders(EncodeHeaders(headers))
  IN d.ok /\ d.hs = [k \in DOMAIN headers |->
                      <<Utf8(headers[k][1]), Utf8(headers[k][2])>>]

=============================================================================
