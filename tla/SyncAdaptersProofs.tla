------------------------- MODULE SyncAdaptersProofs -------------------------
(***************************************************************************)
(* Proofs about a request over the synchronous WAF, for any settings, any  *)
(* contexts, any matcher and any findings of the engine.                   *)
(*                                                                         *)
(* The properties speak of r, which a call of the application changes by a *)
(* chain of nested calls.  Calm is what holds of the record between any    *)
(* two of them; each function of the chain has a lemma that says what it   *)
(* may do to a calm record, and the steps of the system follow from these. *)
(* What NestedCalls computes of a block page call by call is then shown to *)
(* be what the calls of SyncAdapters do, by induction on the stack.        *)
(***************************************************************************)
EXTENDS NestedCalls, Recursion, TLAPS

(* Before its headers are inspected a hooked response has sent nothing;    *)
(* after that, a response whose headers are blocked is over.               *)
Silenced(s) == /\ s.hooked /\ s.headersDone /\ s.tx = "open"
               /\ s.found.hdr = "block" /\ s.found.read

Calm(s) ==
  /\ s \in Requests
  /\ s.ended => s.head # "none"
  /\ s.hooked => s.found.req = "pass"
  /\ s.hooked /\ ~s.headersDone =>
       s.head = "none" /\ s.chunks = {} /\ ~s.ended /\ ~s.seen
  /\ Silenced(s) => s.head = "block" /\ s.ended /\ "app" \notin s.chunks

(* What no call of the application changes.                                *)
Agree(s, t) == /\ t.found = s.found /\ t.app = s.app /\ t.conn = s.conn
               /\ t.tx = s.tx /\ t.hooked = s.hooked /\ t.threw = s.threw

LEMMA FiresHeaders ==
  \A s : Fires(s, "hdr") <=> s.found.hdr = "block" /\ s.found.req # "off"
BY DEF Fires

LEMMA FiresBody ==
  \A s : Fires(s, "body") <=> s.found.body = "block" /\ s.found.req # "off"
BY DEF Fires

LEMMA FindingsTyped ==
  ASSUME NEW s \in Requests
  PROVE  /\ s.found \in AllFindings /\ s.found.read \in BOOLEAN /\ s.found.log \in BOOLEAN
         /\ s.found.hdr \in {"pass", "block", "error"}
         /\ s.found.body \in {"pass", "block", "error"}
BY DEF Requests, AllFindings

(* The engine's part changes what it has seen and found.                   *)
LEMMA Processed ==
  ASSUME NEW s \in Requests, NEW chunk, NEW t,
         t = ProcessResponse(s) \/ t = ProcessResponseBody(s, chunk)
  PROVE  /\ t \in Requests /\ Agree(s, t) /\ t.headersDone = s.headersDone
         /\ t.head = s.head /\ t.chunks = s.chunks /\ t.ended = s.ended
         /\ t.throwing = s.throwing
<1>1. Fires(s, "hdr") \in BOOLEAN /\ Fires(s, "body") \in BOOLEAN
  BY DEF Fires
<1>2. \A b \in BOOLEAN : /\ [s EXCEPT !.seen = TRUE, !.interrupted = b] \in Requests
                         /\ [s EXCEPT !.interrupted = b] \in Requests
  BY DEF Requests
<1>3. s.interrupted \in BOOLEAN
  BY DEF Requests
<1>4. CASE t = ProcessResponse(s)
  <2>1. PICK b \in BOOLEAN : t = [s EXCEPT !.seen = TRUE, !.interrupted = b]
    BY <1>1, <1>3, <1>4 DEF ProcessResponse
  <2>2. t \in Requests
    BY <1>2, <2>1
  <2>3. Agree(s, t)
    BY <2>1 DEF Agree, Requests
  <2>4. /\ t.headersDone = s.headersDone /\ t.throwing = s.throwing
        /\ t.head = s.head /\ t.chunks = s.chunks /\ t.ended = s.ended
    BY <2>1 DEF Requests
  <2> QED BY <2>2, <2>3, <2>4
<1>5. CASE t = ProcessResponseBody(s, chunk)
  <2>1. PICK b \in BOOLEAN : t = [s EXCEPT !.interrupted = b]
    BY <1>1, <1>3, <1>5 DEF ProcessResponseBody
  <2>2. t \in Requests
    BY <1>2, <2>1
  <2>3. Agree(s, t)
    BY <2>1 DEF Agree, Requests
  <2>4. /\ t.headersDone = s.headersDone /\ t.throwing = s.throwing
        /\ t.head = s.head /\ t.chunks = s.chunks /\ t.ended = s.ended
    BY <2>1 DEF Requests
  <2> QED BY <2>2, <2>3, <2>4
<1> QED BY <1>4, <1>5

(* The block page is sent when nothing else was.                           *)
LEMMA Interrupting ==
  ASSUME NEW s \in Requests, ~s.throwing, NEW t, t = Caught(OnInterrupt(s))
  PROVE  /\ t \in Requests /\ ~t.throwing /\ Agree(s, t)
         /\ t.headersDone = s.headersDone /\ t.seen = s.seen
         /\ \/ /\ s.head = "none" /\ s.found.read
               /\ t.head = "block" /\ t.chunks = s.chunks \cup {"block"} /\ t.ended
            \/ /\ s.head # "none" \/ ~s.found.read
               /\ t.head = s.head /\ t.chunks = s.chunks /\ t.ended = s.ended
<1>1. CASE ~s.found.read
  BY <1>1 DEF OnInterrupt, Throw, Caught, Agree, Requests
<1>2. CASE s.found.read /\ s.head # "none"
  BY <1>2 DEF OnInterrupt, Caught, Agree, Requests
<1>3. CASE s.found.read /\ s.head = "none"
  <2>1. t = [BlockPage(s) EXCEPT !.throwing = FALSE]
    BY <1>3 DEF OnInterrupt, Caught
  <2>2. t = [s EXCEPT !.head = "block", !.chunks = s.chunks \cup {"block"},
                      !.ended = TRUE, !.throwing = FALSE]
    BY <2>1 DEF BlockPage
  <2>3. s.chunks \cup {"block"} \in SUBSET Pages
    BY DEF Requests, Pages
  <2>4. t \in Requests
    BY <2>2, <2>3 DEF Requests, Pages
  <2>5. Agree(s, t) /\ t.headersDone = s.headersDone /\ t.seen = s.seen
    BY <2>2 DEF Requests, Agree
  <2>6. t.head = "block" /\ t.chunks = s.chunks \cup {"block"} /\ t.ended /\ ~t.throwing
    BY <2>2 DEF Requests
  <2> QED BY <1>3, <2>4, <2>5, <2>6
<1> QED BY <1>1, <1>2, <1>3

LEMMA InspectsHeaders ==
  ASSUME NEW s \in Requests, ~s.throwing, s.head = "none", NEW t, t = InspectHeaders(s)
  PROVE  /\ t \in Requests /\ ~t.throwing /\ Agree(s, t) /\ t.headersDone = s.headersDone
         /\ \/ t.head = "none" /\ t.chunks = s.chunks /\ t.ended = s.ended
            \/ t.head = "block" /\ t.chunks = s.chunks \cup {"block"} /\ t.ended
         /\ s.tx = "open" /\ s.found.hdr = "block" /\ s.found.read /\ s.found.req = "pass"
              => t.head = "block"
<1>1. CASE ProcessResponseThrows(s)
  BY <1>1 DEF InspectHeaders, Agree, ProcessResponseThrows
<1>2. CASE ~ProcessResponseThrows(s)
  <2> DEFINE u == ProcessResponse(s)
  <2>1. /\ u \in Requests /\ Agree(s, u) /\ u.headersDone = s.headersDone
        /\ u.head = "none" /\ u.chunks = s.chunks /\ u.ended = s.ended /\ ~u.throwing
    BY Processed
  <2>2. s.found.hdr = "block" /\ s.found.req = "pass" => u.interrupted
    BY FiresHeaders DEF ProcessResponse, Requests
  <2>3. t = IF u.interrupted THEN Caught(OnInterrupt(u)) ELSE u
    BY <1>2 DEF InspectHeaders
  <2> HIDE DEF u
  <2>4. CASE ~u.interrupted
    BY <2>1, <2>2, <2>3, <2>4
  <2>5. CASE u.interrupted
    BY <2>1, <2>3, <2>5, Interrupting DEF Agree
  <2> QED BY <2>4, <2>5
<1> QED BY <1>1, <1>2

LEMMA InspectsBody ==
  ASSUME NEW s \in Requests, ~s.throwing, NEW chunk, NEW t, t = InspectBody(s, chunk)
  PROVE  /\ t \in Requests /\ ~t.throwing /\ Agree(s, t) /\ t.headersDone = s.headersDone
         /\ \/ t.head = s.head /\ t.chunks = s.chunks /\ t.ended = s.ended
            \/ /\ s.head = "none"
               /\ t.head = "block" /\ t.chunks = s.chunks \cup {"block"} /\ t.ended
<1>1. CASE ProcessResponseBodyThrows(s, chunk)
  BY <1>1 DEF InspectBody, Agree
<1>2. CASE ~ProcessResponseBodyThrows(s, chunk)
  <2> DEFINE u == ProcessResponseBody(s, chunk)
  <2>1. /\ u \in Requests /\ Agree(s, u) /\ u.headersDone = s.headersDone
        /\ u.head = s.head /\ u.chunks = s.chunks /\ u.ended = s.ended /\ ~u.throwing
    BY Processed
  <2>2. t = IF u.interrupted THEN Caught(OnInterrupt(u)) ELSE u
    BY <1>2 DEF InspectBody
  <2> HIDE DEF u
  <2>3. CASE ~u.interrupted
    BY <2>1, <2>2, <2>3
  <2>4. CASE u.interrupted
    BY <2>1, <2>2, <2>4, Interrupting DEF Agree
  <2> QED BY <2>3, <2>4
<1> QED BY <1>1, <1>2

-----------------------------------------------------------------------------
(* Calls of the response, from a calm record to a calm one.  The head is   *)
(* sent once, by the call or by the block page that makes the call throw.  *)
LEMMA HeadOfAnother ==
  ASSUME NEW s, Calm(s), ~s.throwing, s.head = "none", NEW whose \in Pages,
         ~s.hooked \/ s.headersDone,
         NEW t, t = WriteHead(s, whose)
  PROVE  /\ Calm(t) /\ Agree(s, t) /\ ~t.throwing /\ t.head = whose /\ ~Silenced(t)
         /\ t.chunks = s.chunks /\ t.ended = s.ended
         /\ t.hooked => t.headersDone
<1>1. t = [s EXCEPT !.head = whose]
  BY DEF WriteHead, OrigWriteHead
<1>2. s \in Requests /\ whose \in {"none"} \cup Pages
  BY DEF Calm
<1>3. t \in Requests /\ t.head = whose
  BY <1>1, <1>2 DEF Requests
<1>4. /\ Agree(s, t) /\ t.headersDone = s.headersDone /\ t.seen = s.seen
      /\ t.chunks = s.chunks /\ t.ended = s.ended /\ t.throwing = s.throwing
  BY <1>1, <1>2 DEF Requests, Agree
<1>5. ~Silenced(s)
  BY DEF Calm
<1>6. ~Silenced(t)
  BY <1>4, <1>5 DEF Silenced, Agree
<1> QED BY <1>3, <1>4, <1>6 DEF Calm, Agree

LEMMA InspectedHead ==
  ASSUME NEW s, Calm(s), ~s.throwing, s.head = "none", NEW whose \in Pages,
         s.hooked, ~s.headersDone,
         NEW t, t = WriteHead(s, whose)
  PROVE  /\ Calm(t) /\ Agree(s, t) /\ t.head # "none" /\ t.headersDone
         /\ t.throwing => t.head = "block"
         /\ ~t.throwing => ~Silenced(t)
<1> DEFINE o == OnlyOnce(s)
<1>1. /\ s \in Requests /\ s.found.req = "pass"
      /\ s.chunks = {} /\ ~s.ended
  BY DEF Calm
<1>2. /\ o \in Requests /\ ~o.throwing /\ Agree(s, o) /\ o.headersDone
      /\ o.head = "none" /\ o.chunks = {} /\ ~o.ended
  BY <1>1 DEF OnlyOnce, Requests, Agree
<1> DEFINE u == InspectHeaders(o)
<1>3. t = OrigWriteHead(u, whose)
  BY DEF WriteHead
<1> HIDE DEF o
<1>4. /\ u \in Requests /\ ~u.throwing /\ Agree(o, u) /\ u.headersDone
      /\ \/ u.head = "none" /\ u.chunks = {} /\ ~u.ended
         \/ u.head = "block" /\ u.chunks = {"block"} /\ u.ended
      /\ o.tx = "open" /\ o.found.hdr = "block" /\ o.found.read /\ o.found.req = "pass"
           => u.head = "block"
  BY <1>2, InspectsHeaders
<1> HIDE DEF u
<1>5. Agree(s, u) /\ (Silenced(u) => u.head = "block")
  BY <1>1, <1>2, <1>4 DEF Agree, Silenced
<1>6. CASE u.head = "none"
  <2>1. t = [u EXCEPT !.head = whose]
    BY <1>3, <1>6 DEF OrigWriteHead
  <2>2. t \in Requests /\ t.head = whose
    BY <1>4, <2>1 DEF Requests
  <2>3. Agree(u, t) /\ t.headersDone /\ ~t.throwing
    BY <1>4, <2>1 DEF Requests, Agree
  <2>4. ~Silenced(t)
    BY <1>4, <1>5, <1>6, <2>3 DEF Agree, Silenced
  <2>5. Agree(s, t)
    BY <1>5, <2>3 DEF Agree
  <2>6. Calm(t)
    BY <1>1, <2>2, <2>3, <2>4, <2>5 DEF Agree, Calm, Pages
  <2> QED BY <2>2, <2>3, <2>4, <2>5, <2>6 DEF Pages
<1>7. CASE u.head = "block"
  <2>1. t = [u EXCEPT !.throwing = TRUE]
    BY <1>3, <1>7 DEF OrigWriteHead, Throw
  <2>2. /\ t \in Requests /\ Agree(u, t) /\ t.headersDone /\ t.throwing
        /\ t.head = "block" /\ t.chunks = {"block"} /\ t.ended
    BY <1>4, <1>7, <2>1 DEF Requests, Agree
  <2>3. Agree(s, t)
    BY <1>5, <2>2 DEF Agree
  <2>4. Calm(t)
    BY <1>1, <2>2, <2>3 DEF Agree, Calm
  <2> QED BY <2>2, <2>3, <2>4
<1> QED BY <1>4, <1>6, <1>7

LEMMA SendsHead ==
  ASSUME NEW s, Calm(s), ~s.throwing, NEW whose \in Pages,
         ~s.ended, NEW t, t = WithHead(s, whose)
  PROVE  /\ Calm(t) /\ Agree(s, t) /\ t.head # "none"
         /\ t.hooked => t.headersDone
         /\ t.throwing => t.head = "block"
         /\ ~t.throwing => ~Silenced(t)
         /\ s.head # "none" => t.head = s.head
<1>1. CASE s.head # "none"
  <2>1. t = s /\ ~Silenced(s)
    BY <1>1 DEF WithHead, Calm
  <2> QED BY <1>1, <2>1 DEF Agree, Calm
<1>2. CASE s.head = "none" /\ (~s.hooked \/ s.headersDone)
  <2>1. t = WriteHead(s, whose)
    BY <1>2 DEF WithHead
  <2>2. /\ Calm(t) /\ Agree(s, t) /\ ~t.throwing /\ t.head = whose /\ ~Silenced(t)
        /\ t.hooked => t.headersDone
    BY <1>2, <2>1, HeadOfAnother
  <2>3. whose # "none"
    BY DEF Pages
  <2> QED BY <1>2, <2>2, <2>3
<1>3. CASE s.head = "none" /\ s.hooked /\ ~s.headersDone
  <2>1. t = WriteHead(s, whose)
    BY <1>3 DEF WithHead
  <2> QED BY <1>3, <2>1, InspectedHead
<1> QED BY <1>1, <1>2, <1>3

LEMMA Sends ==
  ASSUME NEW s, Calm(s), ~s.throwing, NEW chunk \in Pages, NEW t, t = Send(s, chunk)
  PROVE  /\ Calm(t) /\ Agree(s, t) /\ t.head # "none"
         /\ t.hooked => t.headersDone
         /\ t.throwing => t.head = "block"
         /\ s.head # "none" => t.head = s.head
<1>1. CASE s.ended
  BY <1>1 DEF Send, Agree, Calm
<1>2. CASE ~s.ended
  <2> DEFINE u == WithHead(s, chunk)
  <2>1. /\ Calm(u) /\ Agree(s, u) /\ u.head # "none"
        /\ u.hooked => u.headersDone
        /\ u.throwing => u.head = "block"
        /\ ~u.throwing => ~Silenced(u)
        /\ s.head # "none" => u.head = s.head
    BY <1>2, SendsHead
  <2>2. t = IF u.throwing THEN u ELSE [u EXCEPT !.chunks = @ \cup {chunk}]
    BY <1>2 DEF Send
  <2> HIDE DEF u
  <2>3. CASE u.throwing
    BY <2>1, <2>2, <2>3
  <2>4. CASE ~u.throwing
    <3>1. t = [u EXCEPT !.chunks = u.chunks \cup {chunk}] /\ u \in Requests
      BY <2>1, <2>2, <2>4 DEF Calm
    <3>2. /\ t \in Requests /\ Agree(u, t) /\ t.headersDone = u.headersDone
          /\ t.head = u.head /\ ~t.throwing
      BY <2>4, <3>1 DEF Requests, Agree
    <3>3. ~Silenced(t)
      BY <2>1, <2>4, <3>2 DEF Agree, Silenced
    <3>4. Agree(s, t)
      BY <2>1, <3>2 DEF Agree
    <3>5. Calm(t)
      BY <2>1, <3>2, <3>3 DEF Agree, Calm
    <3> QED BY <2>1, <3>2, <3>4, <3>5 DEF Agree
  <2> QED BY <2>3, <2>4
<1> QED BY <1>1, <1>2

(* No end() without the head; a throw means that the block page is out.    *)
LEMMA EndsIt ==
  ASSUME NEW s, Calm(s), s.head # "none", s.hooked => s.headersDone, NEW t, t = Ended(s)
  PROVE  /\ Calm(t) /\ Agree(s, t) /\ t.head = s.head /\ t.throwing = s.throwing
<1>1. CASE s.throwing
  BY <1>1 DEF Ended, Agree, Calm
<1>2. CASE ~s.throwing
  <2>1. t = [s EXCEPT !.ended = TRUE] /\ s \in Requests
    BY <1>2 DEF Ended, Calm
  <2>2. /\ t \in Requests /\ Agree(s, t) /\ t.headersDone = s.headersDone
        /\ t.head = s.head /\ t.throwing = s.throwing
        /\ t.chunks = s.chunks /\ t.ended
    BY <2>1 DEF Requests, Agree
  <2>3. Silenced(t) => Silenced(s)
    BY <2>2 DEF Silenced, Agree
  <2> QED BY <2>2, <2>3 DEF Calm, Agree
<1> QED BY <1>1, <1>2

LEMMA EndsEmpty ==
  ASSUME NEW s, Calm(s), ~s.throwing, ~s.ended, NEW t, t = EndEmpty(s)
  PROVE  Calm(t) /\ Agree(s, t) /\ (t.throwing => t.head = "block")
         /\ (s.head # "none" => t.head = s.head)
<1> DEFINE u == WithHead(s, "app")
<1>1. "app" \in Pages
  BY DEF Pages
<1>2. /\ Calm(u) /\ Agree(s, u) /\ u.head # "none"
      /\ u.hooked => u.headersDone
      /\ u.throwing => u.head = "block"
      /\ s.head # "none" => u.head = s.head
  BY <1>1, SendsHead
<1>3. t = Ended(u)
  BY DEF EndEmpty
<1> HIDE DEF u
<1> QED BY <1>2, <1>3, EndsIt DEF Agree

LEMMA EndsInspected ==
  ASSUME NEW s, Calm(s), ~s.throwing, NEW chunk \in Pages, NEW t, t = End(s, chunk)
  PROVE  /\ Calm(t) /\ Agree(s, t)
         /\ t.throwing => t.head = "block" \/ s.tx = "closed"
         /\ s.head = "block" => t.head = "block"
<1> SUFFICES ASSUME NEW u, Calm(u), Agree(s, u), ~u.throwing,
                    s.head = "block" => u.head = "block",
                    t = Ended(Send(u, chunk))
             PROVE  /\ Calm(t) /\ Agree(s, t)
                    /\ t.throwing => t.head = "block"
                    /\ s.head = "block" => t.head = "block"
  <2>1. CASE ~s.hooked
    BY <2>1 DEF End, Agree
  <2>2. CASE s.hooked /\ s.tx = "closed"
    <3>1. t = [s EXCEPT !.throwing = TRUE] /\ s \in Requests
      BY <2>2 DEF End, Throw, Calm
    <3>2. /\ t \in Requests /\ Agree(s, t) /\ t.headersDone = s.headersDone
          /\ t.head = s.head /\ t.chunks = s.chunks /\ t.ended = s.ended /\ t.seen = s.seen
      BY <3>1 DEF Requests, Agree
    <3>3. Calm(t)
      BY <3>2 DEF Calm, Agree, Silenced
    <3> QED BY <2>2, <3>2, <3>3
  <2>3. CASE s.hooked /\ s.tx # "closed" /\ ~IsResponseBodyProcessable(s)
    <3>1. t = Ended(Send(s, chunk))
      BY <2>3 DEF End
    <3> QED BY <3>1 DEF Agree
  <2>4. CASE s.hooked /\ s.tx # "closed" /\ IsResponseBodyProcessable(s)
    <3> DEFINE u == InspectBody(s, chunk)
    <3>1. /\ u \in Requests /\ ~u.throwing /\ Agree(s, u) /\ u.headersDone = s.headersDone
          /\ \/ u.head = s.head /\ u.chunks = s.chunks /\ u.ended = s.ended
             \/ /\ s.head = "none"
                /\ u.head = "block" /\ u.chunks = s.chunks \cup {"block"} /\ u.ended
      BY InspectsBody DEF Calm
    <3>2. t = Ended(Send(u, chunk))
      BY <2>4 DEF End
    <3> HIDE DEF u
    <3>3. s.headersDone /\ s.found.req = "pass"
      BY <2>4 DEF Calm, IsResponseBodyProcessable
    <3>4. s.head = "none" => ~Silenced(s)
      BY DEF Calm
    <3>5. Silenced(u) => Silenced(s) /\ s.head = "block" /\ s.ended /\ "app" \notin s.chunks
      BY <3>1 DEF Silenced, Agree, Calm
    <3>6. Calm(u)
      BY <3>1, <3>3, <3>4, <3>5 DEF Calm, Agree
    <3> QED BY <3>1, <3>2, <3>6
  <2> QED BY <2>1, <2>2, <2>3, <2>4
<1> DEFINE v == Send(u, chunk)
<1>1. /\ Calm(v) /\ Agree(u, v) /\ v.head # "none"
      /\ v.hooked => v.headersDone
      /\ v.throwing => v.head = "block"
      /\ u.head # "none" => v.head = u.head
  BY Sends
<1>2. t = Ended(v)
  OBVIOUS
<1> HIDE DEF v
<1>3. Calm(t) /\ Agree(v, t) /\ t.head = v.head /\ t.throwing = v.throwing
  BY <1>1, <1>2, EndsIt
<1> QED BY <1>1, <1>3 DEF Agree

(* A fresh response of Express, that nothing hooks, is answered at once.   *)
LEMMA AnswersAtOnce ==
  ASSUME NEW s \in Requests, ~s.hooked, ~s.throwing, s.head = "none", ~s.ended,
         NEW page \in Pages, NEW t, t = End(s, page)
  PROVE  t = [s EXCEPT !.head = page, !.chunks = @ \cup {page}, !.ended = TRUE]
<1>1. OrigWriteHead(s, page) = [s EXCEPT !.head = page]
  BY DEF OrigWriteHead
<1>2. WithHead(s, page) = [s EXCEPT !.head = page]
  BY <1>1 DEF WithHead, WriteHead
<1>3. Send(s, page) = [s EXCEPT !.head = page, !.chunks = @ \cup {page}]
  BY <1>2 DEF Send, Requests
<1> QED BY <1>3 DEF End, Ended, Requests

-----------------------------------------------------------------------------
(* The onSend hook of Fastify.                                             *)
LEMMA OnSends ==
  ASSUME NEW s \in Requests, NEW chunk, NEW t, t = OnSend(s, chunk)
  PROVE  /\ t \in Requests /\ Agree(s, t) /\ t.headersDone = s.headersDone
         /\ t.throwing = s.throwing
         /\ s.found.req = "pass" /\ s.tx = "open" /\ s.found.hdr = "block" => t.interrupted
         /\ (/\ s.found.req = "pass" /\ s.tx = "open" /\ s.found.hdr = "pass"
             /\ s.found.body = "block" /\ s.found.mime /\ chunk = "app")
              => t.interrupted
<1>1. CASE ProcessResponseThrows(s)
  BY <1>1 DEF OnSend, ProcessResponseThrows, Agree
<1>2. CASE ~ProcessResponseThrows(s)
  <2> DEFINE u == ProcessResponse(s)
  <2>1. /\ u \in Requests /\ Agree(s, u) /\ u.headersDone = s.headersDone
        /\ u.throwing = s.throwing
    BY Processed
  <2>2. u.seen /\ (s.found.hdr = "block" /\ s.found.req = "pass" => u.interrupted)
    BY FiresHeaders DEF ProcessResponse, Requests
  <2>3. t = IF u.interrupted THEN u ELSE OnSendBody(u, chunk)
    BY <1>2 DEF OnSend
  <2> HIDE DEF u
  <2>4. CASE u.interrupted
    BY <2>1, <2>2, <2>3, <2>4
  <2>5. CASE ~u.interrupted /\ (\/ chunk = "stream" \/ ~IsResponseBodyProcessable(u)
                                \/ ProcessResponseBodyThrows(u, chunk))
    <3>1. t = u
      BY <2>3, <2>5 DEF OnSendBody
    <3>2. ~(/\ s.found.req = "pass" /\ s.tx = "open" /\ s.found.hdr = "pass"
            /\ s.found.body = "block" /\ s.found.mime /\ chunk = "app")
      BY <2>1, <2>2, <2>5 DEF IsResponseBodyProcessable, ProcessResponseBodyThrows, Agree
    <3> QED BY <2>1, <2>2, <2>5, <3>1, <3>2
  <2>6. CASE ~u.interrupted /\ ~(\/ chunk = "stream" \/ ~IsResponseBodyProcessable(u)
                                 \/ ProcessResponseBodyThrows(u, chunk))
    <3>1. t = ProcessResponseBody(u, chunk)
      BY <2>3, <2>6 DEF OnSendBody
    <3>2. /\ t \in Requests /\ Agree(u, t) /\ t.headersDone = u.headersDone
          /\ t.throwing = u.throwing
      BY <2>1, <3>1, Processed
    <3>3. u.found.body = "block" /\ u.found.req = "pass" /\ chunk = "app" => t.interrupted
      BY <2>1, <3>1, FiresBody DEF ProcessResponseBody, Requests
    <3> QED BY <2>1, <2>2, <2>6, <3>2, <3>3 DEF Agree
  <2> QED BY <2>4, <2>5, <2>6
<1> QED BY <1>1, <1>2

LEMMA Replies ==
  ASSUME NEW s \in Requests, NEW chunk \in Pages, NEW t, t = ReplySend(s, chunk)
  PROVE  /\ t \in Requests /\ Agree(s, t) /\ t.headersDone = s.headersDone
         /\ t.throwing = s.throwing
         /\ (/\ s.found.req = "pass" /\ s.tx = "open" /\ s.found.read
             /\ \/ s.found.hdr = "block"
                \/ /\ s.found.hdr = "pass" /\ s.found.body = "block" /\ s.found.mime
                   /\ chunk = "app")
              => t.head = "block" /\ t.chunks = {"block"}
         /\ t.head \in {chunk, "block"} /\ t.chunks = {t.head}
<1>1. \A u \in Requests, page \in Pages :
        LET v == Sent(u, page)
        IN /\ v \in Requests /\ Agree(u, v) /\ v.headersDone = u.headersDone
           /\ v.throwing = u.throwing /\ v.head = page /\ v.chunks = {page}
  <2> SUFFICES ASSUME NEW u \in Requests, NEW page \in Pages, NEW v, v = Sent(u, page)
               PROVE  /\ v \in Requests /\ Agree(u, v) /\ v.headersDone = u.headersDone
                      /\ v.throwing = u.throwing /\ v.head = page /\ v.chunks = {page}
    OBVIOUS
  <2>1. v = [u EXCEPT !.head = page, !.chunks = {page}, !.ended = TRUE]
    BY DEF Sent
  <2>2. v \in Requests
    <3>1. PICK c : c = {page} /\ c \in SUBSET Pages
      OBVIOUS
    <3>2. v = [u EXCEPT !.head = page, !.chunks = c, !.ended = TRUE]
      BY <2>1, <3>1
    <3> QED BY <3>1, <3>2 DEF Requests
  <2>3. Agree(u, v)
    BY <2>1 DEF Requests, Agree
  <2>4. v.headersDone = u.headersDone /\ v.throwing = u.throwing
    BY <2>1 DEF Requests
  <2>5. v.head = page
    BY <2>1 DEF Requests
  <2>6. v.chunks = {page}
    BY <2>1 DEF Requests
  <2> QED BY <2>2, <2>3, <2>4, <2>5, <2>6
<1>2. CASE s.tx = "none"
  BY <1>1, <1>2 DEF ReplySend
<1>3. CASE s.tx # "none"
  <2> DEFINE u == OnSend(s, chunk)
  <2>1. /\ u \in Requests /\ Agree(s, u) /\ u.headersDone = s.headersDone
        /\ u.throwing = s.throwing
        /\ s.found.req = "pass" /\ s.tx = "open" /\ s.found.hdr = "block" => u.interrupted
        /\ (/\ s.found.req = "pass" /\ s.tx = "open" /\ s.found.hdr = "pass"
            /\ s.found.body = "block" /\ s.found.mime /\ chunk = "app")
             => u.interrupted
    BY OnSends
  <2>2. t = Sent(u, Replaced(u, chunk))
    BY <1>3 DEF ReplySend
  <2> HIDE DEF u
  <2>3. "block" \in Pages
    BY DEF Pages
  <2>4. CASE u.interrupted /\ u.found.read
    <3>1. t = Sent(u, "block")
      BY <2>2, <2>4 DEF Replaced
    <3> QED BY <1>1, <2>1, <2>3, <3>1 DEF Agree
  <2>5. CASE ~(u.interrupted /\ u.found.read)
    <3>1. t = Sent(u, chunk)
      BY <2>2, <2>5 DEF Replaced
    <3> QED BY <1>1, <2>1, <2>5, <3>1 DEF Agree
  <2> QED BY <2>4, <2>5
<1> QED BY <1>2, <1>3

-----------------------------------------------------------------------------
(* The inductive invariant: the record is calm; only Express hooks a       *)
(* response, and it hooks each that the request phase lets pass; the       *)
(* transaction is open as long as the connection; and a response of        *)
(* Fastify is untouched until its one reply.                               *)
HookedByExpress ==
  /\ r.hooked => kind = "express"
  /\ kind = "express" /\ r.tx = "open" /\ r.found.req = "pass" => r.hooked
OpenWhileConnected ==
  /\ r.tx = "open" => r.conn = "open"
  /\ r.tx \in {"leaked", "closed"} => r.conn = "closed"
RepliedOnce ==
  kind # "express" =>
    /\ ~r.threw
    /\ (/\ r.found.req = "pass" /\ r.tx = "open" /\ r.found.read /\ r.app = "done"
        /\ \/ r.found.hdr = "block"
           \/ r.found.hdr = "pass" /\ r.found.body = "block" /\ r.found.mime)
         => r.head # "app" /\ "app" \notin r.chunks
    /\ r.app = "running" => r.head = "none" /\ r.chunks = {}

RInv ==
  /\ TypeOK /\ Calm(r)
  /\ HookedByExpress /\ OpenWhileConnected /\ RepliedOnce
  /\ ThrowsOnlyWhenAnswered

-----------------------------------------------------------------------------
(* The matcher.                                                            *)
LEMMA DecisionsTyped ==
  ASSUME NEW s \in Specs, NEW c \in Contexts, NEW i \in Indexes
  PROVE  /\ Matcher(s, c, i) \in Verdicts
         /\ NextIndex(s, c, i) \in Indexes
         /\ ~s.global => NextIndex(s, c, i) = i
<1> DEFINE l == ListsSay(s, c, i)
<1>1. /\ l \in {SkipAll, SkipBody, None} /\ LeavesAt(s, c, i) \in Indexes
      /\ s.match \in Verdicts \cup {"absent", "throws"}
  BY MatcherAssumption
<1> HIDE DEF l
<1>2. OrInspect(l) \in Verdicts /\ OnThrow(l) \in Verdicts
  BY <1>1 DEF OrInspect, OnThrow, Verdicts
<1>3. \A v \in Verdicts : l # None => MostRestrictive(l, v) \in Verdicts
  BY <1>1 DEF MostRestrictive, Verdicts
<1>4. Decide(s.match, l) \in Verdicts
  <2>1. CASE s.match = "absent"
    BY <1>2, <2>1 DEF Decide, Verdicts, Inspect, SkipBody, SkipAll
  <2>2. CASE s.match = "throws"
    BY <1>2, <2>2 DEF Decide, Verdicts, Inspect, SkipBody, SkipAll
  <2>3. CASE s.match \in Verdicts
    <3>1. s.match # "absent" /\ s.match # "throws"
      BY <2>3 DEF Verdicts, Inspect, SkipBody, SkipAll
    <3>2. Decide(s.match, l) = IF l = None THEN s.match ELSE MostRestrictive(l, s.match)
      BY <2>3, <3>1 DEF Decide
    <3> QED BY <1>3, <2>3, <3>2
  <2> QED BY <1>1, <2>1, <2>2, <2>3
<1> QED BY <1>1, <1>4 DEF Matcher, NextIndex, l

LEMMA NewRequestsCalm ==
  ASSUME NEW f \in Findings
  PROVE  NewRequest(f) \in Requests /\ Calm(NewRequest(f))
<1>1. NewRequest(f) \in Requests
  BY FindingsAssumption DEF NewRequest, Requests
<1> QED BY <1>1 DEF NewRequest, Calm, Silenced

LEMMA NoRequestIsCalm ==
  /\ NoRequest \in Requests /\ Calm(NoRequest)
  /\ NoRequest.tx = "none" /\ ~NoRequest.hooked /\ ~NoRequest.threw
  /\ ~NoRequest.throwing /\ NoRequest.app = "done"
<1>1. PICK f \in Findings : NoRequest = [NewRequest(f) EXCEPT !.app = "done", !.conn = "closed"]
  BY FindingsAssumption DEF NoRequest
<1>2. NewRequest(f) \in Requests
  BY NewRequestsCalm
<1>3. NoRequest \in Requests
  BY <1>1, <1>2 DEF Requests
<1>4. /\ NoRequest.tx = "none" /\ ~NoRequest.hooked /\ ~NoRequest.threw
      /\ ~NoRequest.throwing /\ NoRequest.app = "done" /\ ~NoRequest.ended
  BY <1>1 DEF NewRequest
<1> QED BY <1>3, <1>4 DEF Calm, Silenced

LEMMA NoRequestIsSafe ==
  ASSUME r = NoRequest
  PROVE  /\ r \in Requests /\ ~r.throwing /\ Calm(r)
         /\ HookedByExpress /\ OpenWhileConnected /\ RepliedOnce
         /\ ThrowsOnlyWhenAnswered
BY NoRequestIsCalm
   DEF HookedByExpress, OpenWhileConnected, RepliedOnce, ThrowsOnlyWhenAnswered

-----------------------------------------------------------------------------
(* The request phase.                                                      *)
LEMMA FailuresAnswer ==
  ASSUME NEW s \in Requests, ~s.hooked, ~s.throwing, ~s.threw, s.head = "none",
         s.chunks = {}, ~s.ended, s.conn = "open", s.tx \in {"none", "open"},
         kind \in Kinds, s.found.req # "pass",
         NEW page \in Pages, NEW t, t = Answered(s, page) \/ t = s
  PROVE  /\ t \in Requests /\ ~t.throwing /\ ~t.threw /\ ~t.hooked
         /\ t.conn = "open" /\ t.tx = s.tx /\ t.found.req # "pass"
         /\ t.ended => t.head # "none"
         /\ t.app = "running" => t.head = "none" /\ t.chunks = {}
<1>1. CASE t = s
  BY <1>1
<1>2. CASE t = Answered(s, page) /\ kind = "express"
  <2>1. t = [s EXCEPT !.head = page, !.chunks = @ \cup {page}, !.ended = TRUE, !.app = "done"]
    BY <1>2, AnswersAtOnce DEF Answered
  <2>2. page # "none"
    BY DEF Pages
  <2>3. t \in Requests
    <3> DEFINE e == End(s, page)
    <3>1. PICK cs : cs = s.chunks \cup {page}
      OBVIOUS
    <3>2. cs \in SUBSET Pages /\ page \in {"none"} \cup Pages
      BY <3>1 DEF Requests
    <3>3. e = [s EXCEPT !.head = page, !.chunks = cs, !.ended = TRUE]
      BY <3>1, AnswersAtOnce
    <3>4. t = [e EXCEPT !.app = "done"]
      BY <1>2 DEF Answered
    <3> HIDE DEF e
    <3>5. e \in Requests
      BY <3>2, <3>3 DEF Requests
    <3> QED BY <3>4, <3>5 DEF Requests
  <2>4. /\ t.throwing = s.throwing /\ t.threw = s.threw /\ t.hooked = s.hooked
        /\ t.conn = s.conn /\ t.tx = s.tx /\ t.found = s.found
    BY <2>1 DEF Requests
  <2>5. t.head = page /\ t.app = "done"
    BY <2>1 DEF Requests
  <2> QED BY <2>2, <2>3, <2>4, <2>5
<1>3. CASE t = Answered(s, page) /\ kind # "express"
  <2> DEFINE u == ReplySend(s, page)
  <2>1. /\ u \in Requests /\ Agree(s, u) /\ u.throwing = s.throwing
        /\ u.head \in {page, "block"}
    BY Replies
  <2>2. t = [u EXCEPT !.app = "done"]
    BY <1>3 DEF Answered
  <2>3. page # "none"
    BY DEF Pages
  <2> HIDE DEF u
  <2> QED BY <2>1, <2>2, <2>3 DEF Requests, Agree
<1> QED BY <1>1, <1>2, <1>3

LEMMA RequestPhases ==
  ASSUME NEW f \in Findings, kind \in Kinds, policy \in {"block", "allow"},
         NEW t, t = RequestPhase(NewRequest(f))
  PROVE  /\ t \in Requests /\ ~t.throwing /\ ~t.threw
         /\ t.conn = "open" /\ t.tx \in {"none", "open"}
         /\ t.ended => t.head # "none"
         /\ t.hooked => kind = "express" /\ t.found.req = "pass" /\ t = [NewRequest(f) EXCEPT !.tx = "open", !.hooked = TRUE]
         /\ kind = "express" /\ t.tx = "open" /\ t.found.req = "pass" => t.hooked
         /\ t.found.req = "pass" => t.app = "running"
         /\ t.app = "running" => t.head = "none" /\ t.chunks = {}
<1> DEFINE s == NewRequest(f)
           o == [s EXCEPT !.tx = "open"]
           i == [o EXCEPT !.interrupted = TRUE]
<1>1. /\ s \in Requests /\ ~s.hooked /\ ~s.throwing /\ ~s.threw /\ s.head = "none"
      /\ s.chunks = {} /\ ~s.ended /\ s.conn = "open" /\ s.tx = "none"
      /\ s.app = "running" /\ s.found = f
  BY NewRequestsCalm DEF NewRequest
<1>2. /\ o \in Requests /\ ~o.hooked /\ ~o.throwing /\ ~o.threw /\ o.head = "none"
      /\ o.chunks = {} /\ ~o.ended /\ o.conn = "open" /\ o.tx = "open"
      /\ o.app = "running" /\ o.found = f
  BY <1>1 DEF Requests
<1>3. /\ i \in Requests /\ ~i.hooked /\ ~i.throwing /\ ~i.threw /\ i.head = "none"
      /\ i.chunks = {} /\ ~i.ended /\ i.conn = "open" /\ i.tx = "open"
      /\ i.app = "running" /\ i.found = f
  BY <1>2 DEF Requests
<1>4. "503" \in Pages /\ "block" \in Pages
  BY DEF Pages
<1>5. f \in AllFindings /\ f.req \in {"noTx", "error", "off", "pass", "block"}
  BY FindingsAssumption DEF AllFindings
<1> HIDE DEF s, o, i
<1>6. CASE verdict = SkipAll
  BY <1>1, <1>6 DEF RequestPhase, s
<1>7. CASE verdict # SkipAll /\ f.req = "noTx"
  <2>1. t = OnFailure(s)
    BY <1>1, <1>7 DEF RequestPhase, s
  <2>2. t = Answered(s, "503") \/ t = s
    BY <2>1 DEF OnFailure
  <2> QED BY <1>1, <1>4, <1>7, <2>2, FailuresAnswer
<1>8. CASE verdict # SkipAll /\ f.req = "error"
  <2>1. t = OnFailure(o)
    BY <1>1, <1>8 DEF RequestPhase, s, o
  <2>2. t = Answered(o, "503") \/ t = o
    BY <2>1 DEF OnFailure
  <2> QED BY <1>2, <1>4, <1>8, <2>2, FailuresAnswer
<1>9. CASE verdict # SkipAll /\ f.req = "block"
  <2>1. t = Answered(i, "block")
    BY <1>1, <1>9 DEF RequestPhase, s, o, i
  <2> QED BY <1>3, <1>4, <1>9, <2>1, FailuresAnswer
<1>10. CASE verdict # SkipAll /\ f.req = "pass"
  <2>1. t = [o EXCEPT !.hooked = kind = "express"]
    BY <1>1, <1>10 DEF RequestPhase, s, o
  <2>2. CASE kind = "express"
    <3>1. t = [o EXCEPT !.hooked = TRUE]
      BY <2>1, <2>2
    <3>2. t = [NewRequest(f) EXCEPT !.tx = "open", !.hooked = TRUE]
      BY <3>1 DEF o, s, NewRequest
    <3> QED BY <1>2, <1>10, <2>2, <3>1, <3>2 DEF Requests
  <2>3. CASE kind # "express"
    <3>1. t = [o EXCEPT !.hooked = FALSE]
      BY <2>1, <2>3
    <3> QED BY <1>2, <1>10, <2>3, <3>1 DEF Requests
  <2> QED BY <2>2, <2>3
<1>11. CASE verdict # SkipAll /\ f.req = "off"
  <2>1. t = o
    BY <1>1, <1>11 DEF RequestPhase, s, o
  <2> QED BY <1>2, <1>11, <2>1
<1> QED BY <1>5, <1>6, <1>7, <1>8, <1>9, <1>10, <1>11

-----------------------------------------------------------------------------
(* Calls of the application and events of the connection.                  *)
AfterCall(t, app) ==
  [t EXCEPT !.app = app, !.threw = @ \/ t.throwing, !.throwing = FALSE]

LEMMA AfterCallsTyped ==
  ASSUME NEW t \in Requests, NEW app \in {"running", "done"}, NEW b \in BOOLEAN
  PROVE  [t EXCEPT !.app = app, !.threw = b, !.throwing = FALSE] \in Requests
<1>1. PICK u : u = [t EXCEPT !.app = app]
  OBVIOUS
<1>2. u \in Requests
  BY <1>1 DEF Requests
<1>3. PICK v : v = [u EXCEPT !.threw = b]
  OBVIOUS
<1>4. v \in Requests
  BY <1>2, <1>3 DEF Requests
<1>5. [v EXCEPT !.throwing = FALSE] \in Requests
  BY <1>4 DEF Requests
<1> QED BY <1>1, <1>3, <1>5

LEMMA CallsOfExpress ==
  ASSUME RInv, kind = "express", NEW t, Calm(t), Agree(r, t),
         t.throwing => t.head = "block" \/ r.tx = "closed",
         r.head = "block" => t.head = "block",
         NEW app \in {"running", "done"},
         r' = AfterCall(t, app),
         kind' = kind
  PROVE  /\ r' \in Requests /\ ~r'.throwing /\ Calm(r)'
         /\ HookedByExpress' /\ OpenWhileConnected' /\ RepliedOnce'
         /\ ThrowsOnlyWhenAnswered'
<1>1. t \in Requests /\ t.threw = r.threw /\ r \in Requests
  BY DEF RInv, TypeOK, Calm, Agree
<1>2. (t.threw \/ t.throwing) \in BOOLEAN
  BY <1>1 DEF Requests
<1>3. PICK u : u = r'
  OBVIOUS
<1>4. PICK b \in BOOLEAN : /\ u = [t EXCEPT !.app = app, !.threw = b, !.throwing = FALSE]
                           /\ b <=> t.threw \/ t.throwing
  BY <1>2, <1>3 DEF AfterCall
<1>5. /\ u \in Requests /\ ~u.throwing /\ u.threw = b
      /\ u.found = t.found /\ u.conn = t.conn /\ u.tx = t.tx /\ u.hooked = t.hooked
      /\ u.headersDone = t.headersDone /\ u.seen = t.seen
      /\ u.head = t.head /\ u.chunks = t.chunks /\ u.ended = t.ended
  <2>1. u \in Requests
    BY <1>1, <1>4, AfterCallsTyped
  <2>2. ~u.throwing /\ u.threw = b
    BY <1>1, <1>4 DEF Requests
  <2>3. u.found = t.found /\ u.conn = t.conn /\ u.tx = t.tx /\ u.hooked = t.hooked
    BY <1>1, <1>4 DEF Requests
  <2>4. u.headersDone = t.headersDone /\ u.seen = t.seen
    BY <1>1, <1>4 DEF Requests
  <2>5. u.head = t.head /\ u.chunks = t.chunks /\ u.ended = t.ended
    BY <1>1, <1>4 DEF Requests
  <2> QED BY <2>1, <2>2, <2>3, <2>4, <2>5
<1>6. Calm(u)
  BY <1>5 DEF Calm, Silenced
<1>7. /\ u.hooked => kind = "express"
      /\ u.tx = "open" /\ u.found.req = "pass" => u.hooked
      /\ u.tx = "open" => u.conn = "open"
      /\ u.tx \in {"leaked", "closed"} => u.conn = "closed"
  BY <1>5 DEF RInv, HookedByExpress, OpenWhileConnected, Agree
<1>8. u.threw => u.head = "block" \/ u.conn = "closed"
  BY <1>4, <1>5 DEF RInv, ThrowsOnlyWhenAnswered, OpenWhileConnected, Agree
<1>9. Calm(r)'
  BY <1>3, <1>6 DEF Calm, Silenced
<1> QED BY <1>3, <1>5, <1>7, <1>8, <1>9
        DEF HookedByExpress, OpenWhileConnected, RepliedOnce, ThrowsOnlyWhenAnswered

LEMMA CallsKeep ==
  ASSUME RInv, AppWriteHead \/ AppWrite \/ AppEnd
  PROVE  RInv'
<1>1. /\ kind = "express" /\ kind' = kind
      /\ policy' = policy /\ spec' = spec /\ lastIndex' = lastIndex
      /\ requests' = requests /\ ctx' = ctx /\ verdict' = verdict
  BY DEF AppWriteHead, AppWrite, AppEnd, Same, setup
<1>2. Calm(r) /\ ~r.throwing /\ r \in Requests /\ "app" \in Pages
  BY DEF RInv, TypeOK, Pages
<1> DEFINE Returned(v) == /\ Calm(v) /\ Agree(r, v)
                          /\ v.throwing => v.head = "block" \/ r.tx = "closed"
                          /\ r.head = "block" => v.head = "block"
<1>3. \E v : \E app \in {"running", "done"} : Returned(v) /\ r' = AfterCall(v, app)
  <2>1. CASE AppWriteHead
    <3> DEFINE t == WriteHead(r, "app")
    <3>1. Calm(t) /\ Agree(r, t) /\ (t.throwing => t.head = "block")
      BY <1>2, <2>1, HeadOfAnother, InspectedHead DEF AppWriteHead
    <3>2. t.app = r.app /\ r.app = "running" /\ t \in Requests /\ r.head = "none"
      BY <2>1, <3>1 DEF AppWriteHead, Running, Agree, Calm
    <3>3. r' = [t EXCEPT !.threw = @ \/ t.throwing, !.throwing = FALSE]
      BY <2>1 DEF AppWriteHead, Becomes
    <3> HIDE DEF t
    <3>4. r' = AfterCall(t, "running")
      BY <3>2, <3>3 DEF Requests, AfterCall
    <3>5. Returned(t)
      BY <3>1, <3>2
    <3> QED BY <3>4, <3>5
  <2>2. CASE AppWrite
    <3> DEFINE t == Send(r, "app")
    <3>1. /\ Calm(t) /\ Agree(r, t) /\ (t.throwing => t.head = "block")
          /\ r.head # "none" => t.head = r.head
      BY <1>2, <2>2, Sends
    <3>2. t.app = r.app /\ r.app = "running" /\ t \in Requests
      BY <2>2, <3>1 DEF AppWrite, Running, Agree, Calm
    <3>3. r' = [t EXCEPT !.threw = @ \/ t.throwing, !.throwing = FALSE]
      BY <2>2 DEF AppWrite, Becomes
    <3> HIDE DEF t
    <3>4. r' = AfterCall(t, "running")
      BY <3>2, <3>3 DEF Requests, AfterCall
    <3>5. Returned(t)
      BY <3>1
    <3> QED BY <3>4, <3>5
  <2>3. CASE AppEnd
    <3>1. PICK t : /\ t = End(r, "app") \/ (~r.ended /\ t = EndEmpty(r))
                   /\ Done(t)
      BY <2>3 DEF AppEnd
    <3>2. /\ Calm(t) /\ Agree(r, t)
          /\ t.throwing => t.head = "block" \/ r.tx = "closed"
          /\ r.head = "block" => t.head = "block"
      BY <1>2, <3>1, EndsInspected, EndsEmpty
    <3>3. t \in Requests
      BY <3>2 DEF Calm
    <3>4. r' = AfterCall(t, "done")
      BY <3>1, <3>3 DEF Done, Becomes, Requests, AfterCall
    <3>5. Returned(t)
      BY <3>2
    <3> QED BY <3>4, <3>5
  <2> QED BY <2>1, <2>2, <2>3
<1>4. /\ r' \in Requests /\ ~r'.throwing /\ Calm(r)'
      /\ HookedByExpress' /\ OpenWhileConnected' /\ RepliedOnce'
      /\ ThrowsOnlyWhenAnswered'
  BY <1>1, <1>3, CallsOfExpress
<1> QED BY <1>1, <1>4 DEF RInv, TypeOK

LEMMA ReplyKeeps ==
  ASSUME RInv, AppReply
  PROVE  RInv'
<1>1. /\ kind = "fastify" /\ kind' = kind
      /\ policy' = policy /\ spec' = spec /\ lastIndex' = lastIndex
      /\ requests' = requests /\ ctx' = ctx /\ verdict' = verdict
  BY DEF AppReply, Same, setup
<1>2. Calm(r) /\ ~r.throwing /\ r \in Requests /\ ~r.threw /\ ~r.hooked
  BY <1>1 DEF RInv, TypeOK, RepliedOnce, HookedByExpress
<1>3. PICK chunk \in {"app", "stream"} : Done(ReplySend(r, chunk))
  BY DEF AppReply
<1>4. chunk \in Pages
  BY DEF Pages
<1> DEFINE t == ReplySend(r, chunk)
<1>5. /\ t \in Requests /\ Agree(r, t) /\ t.headersDone = r.headersDone
      /\ t.throwing = r.throwing
      /\ (/\ r.found.req = "pass" /\ r.tx = "open" /\ r.found.read
          /\ \/ r.found.hdr = "block"
             \/ /\ r.found.hdr = "pass" /\ r.found.body = "block" /\ r.found.mime
                /\ chunk = "app")
           => t.head = "block" /\ t.chunks = {"block"}
      /\ t.head \in {chunk, "block"} /\ t.chunks = {t.head} /\ chunk # "none"
  BY <1>2, <1>4, Replies DEF Pages
<1>6. r' = [t EXCEPT !.app = "done", !.threw = @ \/ t.throwing, !.throwing = FALSE]
  BY <1>3, <1>5 DEF Done, Becomes, Requests
<1> HIDE DEF t
<1>7. PICK u : u = r'
  OBVIOUS
<1>8. u = [t EXCEPT !.app = "done", !.threw = FALSE, !.throwing = FALSE]
  BY <1>2, <1>5, <1>6, <1>7 DEF Requests, Agree
<1>9. /\ u \in Requests /\ ~u.throwing /\ ~u.threw /\ ~u.hooked /\ u.app = "done"
      /\ u.found = r.found /\ u.conn = r.conn /\ u.tx = r.tx
      /\ u.head = t.head /\ u.chunks = t.chunks
  BY <1>2, <1>5, <1>8 DEF Requests, Agree
<1>10. Calm(u)
  BY <1>5, <1>9 DEF Calm, Silenced
<1>11. /\ u.tx = "open" => u.conn = "open"
       /\ u.tx \in {"leaked", "closed"} => u.conn = "closed"
  BY <1>9 DEF RInv, OpenWhileConnected
<1>12. (/\ u.found.req = "pass" /\ u.tx = "open" /\ u.found.read /\ u.app = "done"
        /\ \/ u.found.hdr = "block"
           \/ u.found.hdr = "pass" /\ u.found.body = "block" /\ u.found.mime)
         => u.head # "app" /\ "app" \notin u.chunks
  BY <1>5, <1>9
<1>13. Calm(r)'
  BY <1>7, <1>10 DEF Calm, Silenced
<1>14. HookedByExpress' /\ OpenWhileConnected' /\ RepliedOnce' /\ ThrowsOnlyWhenAnswered'
  BY <1>1, <1>7, <1>9, <1>11, <1>12
     DEF HookedByExpress, OpenWhileConnected, RepliedOnce, ThrowsOnlyWhenAnswered
<1> QED BY <1>1, <1>7, <1>9, <1>13, <1>14 DEF RInv, TypeOK

LEMMA CloseKeeps ==
  ASSUME RInv, ConnCloses
  PROVE  RInv'
<1>1. /\ kind' = kind
      /\ policy' = policy /\ spec' = spec /\ lastIndex' = lastIndex
      /\ requests' = requests /\ ctx' = ctx /\ verdict' = verdict
      /\ r' = [r EXCEPT !.conn = "closed", !.tx = Logged(r)]
  BY DEF ConnCloses, Same, setup
<1>2. r \in Requests /\ Calm(r)
  BY DEF RInv, TypeOK
<1>3. Logged(r) \in {"none", "leaked", "closed"}
  BY DEF Logged, LeakedOnError, Finally
<1>4. PICK u : u = r'
  OBVIOUS
<1>5. /\ u \in Requests /\ u.conn = "closed" /\ u.tx # "open" /\ u.found = r.found
      /\ u.hooked = r.hooked /\ u.headersDone = r.headersDone /\ u.seen = r.seen
      /\ u.head = r.head /\ u.chunks = r.chunks /\ u.ended = r.ended
      /\ u.threw = r.threw /\ u.throwing = r.throwing /\ u.app = r.app
  BY <1>1, <1>2, <1>3, <1>4 DEF Requests
<1>6. Calm(u)
  BY <1>2, <1>5 DEF Calm, Silenced
<1>7. Calm(r)'
  BY <1>4, <1>6 DEF Calm, Silenced
<1>8. HookedByExpress' /\ OpenWhileConnected' /\ ThrowsOnlyWhenAnswered'
  BY <1>1, <1>4, <1>5 DEF RInv, HookedByExpress, OpenWhileConnected, ThrowsOnlyWhenAnswered
<1>9. RepliedOnce'
  BY <1>1, <1>4, <1>5 DEF RInv, RepliedOnce
<1> QED BY <1>1, <1>4, <1>5, <1>7, <1>8, <1>9 DEF RInv, TypeOK

LEMMA ArriveKeeps ==
  ASSUME RInv, Arrive
  PROVE  RInv'
<1>1. /\ kind' = kind /\ policy' = policy /\ spec' = spec
      /\ requests' = requests + 1 /\ requests < MaxRequests /\ ctx' \in Contexts
      /\ verdict' = Matcher(spec, ctx', lastIndex)
      /\ lastIndex' = NextIndex(spec, ctx', lastIndex)
  BY DEF Arrive, setup
<1>2. /\ r' \in Requests /\ ~r'.throwing /\ Calm(r)'
      /\ HookedByExpress' /\ OpenWhileConnected' /\ RepliedOnce'
      /\ ThrowsOnlyWhenAnswered'
  <2>1. PICK u : u = r'
    OBVIOUS
  <2>2. u = NoRequest
    BY <2>1 DEF Arrive
  <2>3. Calm(r)'
    BY <2>1, <2>2, NoRequestIsCalm DEF Calm, Silenced
  <2>4. HookedByExpress' /\ OpenWhileConnected' /\ RepliedOnce' /\ ThrowsOnlyWhenAnswered'
    BY <2>1, <2>2, NoRequestIsCalm
       DEF HookedByExpress, OpenWhileConnected, RepliedOnce, ThrowsOnlyWhenAnswered
  <2> QED BY <2>1, <2>2, <2>3, <2>4, NoRequestIsCalm
<1>3. /\ verdict' \in Verdicts /\ lastIndex' \in Indexes
      /\ ~spec.global => lastIndex' = lastIndex
  <2>1. PICK c \in Contexts : c = ctx'
    BY <1>1
  <2>2. spec \in Specs /\ lastIndex \in Indexes
    BY DEF RInv, TypeOK
  <2> QED BY <1>1, <2>1, <2>2, DecisionsTyped
<1>4. requests' \in 0 .. MaxRequests
  BY <1>1, BoundsAssumption DEF RInv, TypeOK
<1> QED BY <1>1, <1>2, <1>3, <1>4 DEF RInv, TypeOK

LEMMA HandleKeeps ==
  ASSUME RInv, Handle
  PROVE  RInv'
<1>1. /\ kind' = kind /\ policy' = policy /\ spec' = spec /\ lastIndex' = lastIndex
      /\ requests' = requests /\ ctx' = NoContext /\ verdict' = None
  BY DEF Handle, setup
<1>2. NoContext \in Contexts
  BY MatcherAssumption DEF NoContext
<1>3. PICK f \in Findings : r' = RequestPhase(NewRequest(f))
  BY DEF Handle
<1>4. PICK u : u = RequestPhase(NewRequest(f))
  OBVIOUS
<1>5. /\ u \in Requests /\ ~u.throwing /\ ~u.threw
      /\ u.conn = "open" /\ u.tx \in {"none", "open"}
      /\ u.ended => u.head # "none"
      /\ u.hooked => /\ kind = "express" /\ u.found.req = "pass"
                     /\ u = [NewRequest(f) EXCEPT !.tx = "open", !.hooked = TRUE]
      /\ kind = "express" /\ u.tx = "open" /\ u.found.req = "pass" => u.hooked
      /\ u.found.req = "pass" => u.app = "running"
      /\ u.app = "running" => u.head = "none" /\ u.chunks = {}
  BY <1>4, RequestPhases DEF RInv, TypeOK
<1>6. Calm(u)
  <2>1. CASE u.hooked
    <3>1. ~u.headersDone /\ u.head = "none" /\ u.chunks = {} /\ ~u.ended /\ ~u.seen
      BY <1>5, <2>1 DEF NewRequest
    <3> QED BY <1>5, <2>1, <3>1 DEF Calm, Silenced
  <2>2. CASE ~u.hooked
    BY <1>5, <2>2 DEF Calm, Silenced
  <2> QED BY <2>1, <2>2
<1>7. Calm(r)'
  BY <1>3, <1>4, <1>6 DEF Calm, Silenced
<1>8. HookedByExpress' /\ OpenWhileConnected' /\ RepliedOnce' /\ ThrowsOnlyWhenAnswered'
  BY <1>1, <1>3, <1>4, <1>5
     DEF HookedByExpress, OpenWhileConnected, RepliedOnce, ThrowsOnlyWhenAnswered
<1> QED BY <1>1, <1>2, <1>3, <1>4, <1>5, <1>7, <1>8 DEF RInv, TypeOK

-----------------------------------------------------------------------------
LEMMA StartsSafe == Init => RInv
<1> SUFFICES ASSUME Init PROVE RInv
  OBVIOUS
<1>1. NoContext \in Contexts
  BY MatcherAssumption DEF NoContext
<1>2. /\ r \in Requests /\ ~r.throwing /\ Calm(r)
      /\ HookedByExpress /\ OpenWhileConnected /\ RepliedOnce
      /\ ThrowsOnlyWhenAnswered
  BY NoRequestIsSafe DEF Init
<1> QED BY <1>1, <1>2, MatcherAssumption, BoundsAssumption DEF Init, RInv, TypeOK

LEMMA StepsKeep == RInv /\ [Next]_vars => RInv'
<1> SUFFICES ASSUME RInv, [Next]_vars PROVE RInv'
  OBVIOUS
<1>1. CASE Arrive
  BY <1>1, ArriveKeeps
<1>2. CASE Handle
  BY <1>2, HandleKeeps
<1>3. CASE AppWriteHead \/ AppWrite \/ AppEnd
  BY <1>3, CallsKeep
<1>4. CASE AppReply
  BY <1>4, ReplyKeeps
<1>5. CASE ConnCloses
  BY <1>5, CloseKeeps
<1>6. CASE UNCHANGED vars
  <2>1. /\ kind' = kind /\ policy' = policy /\ spec' = spec /\ lastIndex' = lastIndex
        /\ requests' = requests /\ ctx' = ctx /\ verdict' = verdict /\ r' = r
    BY <1>6 DEF vars, setup
  <2> QED BY <2>1 DEF RInv, TypeOK, Calm, Silenced, HookedByExpress,
                      OpenWhileConnected, RepliedOnce, ThrowsOnlyWhenAnswered
<1> QED BY <1>1, <1>2, <1>3, <1>4, <1>5, <1>6 DEF Next

LEMMA AlwaysCalm == Spec => []RInv
BY StartsSafe, StepsKeep, PTL DEF Spec

(* The types: no record of a response and no verdict is outside what the   *)
(* properties speak of, and a RegExp without the flag g never remembers.   *)
THEOREM TypesHold == Spec => []TypeOK
<1>1. RInv => TypeOK
  BY DEF RInv
<1> QED BY <1>1, AlwaysCalm, PTL

(* A response that the rules block never reaches the client, whatever      *)
(* order the application makes its calls in, under Express by the rules on *)
(* the headers, under Fastify also by those on the body.                   *)
THEOREM BlockedIsAlwaysWithheld == Spec => []BlockedResponseIsWithheld
<1>1. RInv => BlockedResponseIsWithheld
  <2> SUFFICES ASSUME RInv, Inspected,
                      \/ r.found.hdr = "block"
                      \/ /\ kind = "fastify" /\ r.found.hdr = "pass"
                         /\ r.found.body = "block" /\ r.found.mime
               PROVE  r.head # "app" /\ "app" \notin r.chunks
    BY DEF BlockedResponseIsWithheld
  <2>1. CASE kind = "express"
    <3>1. r.hooked /\ r.found.hdr = "block" /\ r.found.read /\ r.tx = "open"
      BY <2>1 DEF RInv, HookedByExpress, Inspected
    <3> QED BY <3>1 DEF RInv, Calm, Silenced
  <2>2. CASE kind # "express"
    <3>1. r.app \in {"running", "done"}
      BY DEF RInv, TypeOK, Requests
    <3> QED BY <2>2, <3>1 DEF RInv, RepliedOnce, Inspected
  <2> QED BY <2>1, <2>2
<1> QED BY <1>1, AlwaysCalm, PTL

(* No call of the application throws because the response is inspected,    *)
(* unless the block page has answered or the client has left; where        *)
(* isResponseBodyProcessable() does not trap on an open transaction.       *)
THEOREM ThrowsAreAlwaysAnswered == Spec => []ThrowsOnlyWhenAnswered
<1>1. RInv => ThrowsOnlyWhenAnswered
  BY DEF RInv
<1> QED BY <1>1, AlwaysCalm, PTL

-----------------------------------------------------------------------------
(* The verdict of a request that waits is that of the matcher, with the    *)
(* RegExp at some position.                                                *)
Decided ==
  Pending => \E i \in Indexes : verdict = Matcher(spec, ctx, i)

LEMMA AlwaysDecided == Spec => []Decided
<1>1. Init => Decided
  BY DEF Init, Decided, Pending
<1>2. RInv /\ Decided /\ [Next]_vars => Decided'
  <2> SUFFICES ASSUME RInv, Decided, [Next]_vars PROVE Decided'
    OBVIOUS
  <2>1. CASE Arrive
    <3>1. spec' = spec /\ verdict' = Matcher(spec, ctx', lastIndex) /\ lastIndex \in Indexes
      BY <2>1 DEF Arrive, setup, RInv, TypeOK
    <3>2. PICK c, v : c = ctx' /\ v = verdict'
      OBVIOUS
    <3>3. \E i \in Indexes : v = Matcher(spec, c, i)
      BY <3>1, <3>2
    <3> QED BY <3>1, <3>2, <3>3 DEF Decided, Pending, Matcher, Decide
  <2>2. CASE Handle
    BY <2>2 DEF Handle, Decided, Pending
  <2>3. CASE AppWriteHead \/ AppWrite \/ AppEnd \/ AppReply \/ ConnCloses \/ UNCHANGED vars
    <3>1. spec' = spec /\ ctx' = ctx /\ verdict' = verdict
      BY <2>3 DEF AppWriteHead, AppWrite, AppEnd, AppReply, ConnCloses, Same, vars, setup
    <3> QED BY <3>1 DEF Decided, Pending, Matcher
  <2> QED BY <2>1, <2>2, <2>3 DEF Next
<1> QED BY <1>1, <1>2, AlwaysCalm, PTL DEF Spec

LEMMA DecidesAsDeclared ==
  ASSUME DeclaredLists, NEW s \in Specs, NEW c \in Contexts, NEW i \in Indexes,
         NEW v, v = Matcher(s, c, i)
  PROVE  /\ v = SkipAll =>
              /\ s.match \in {"absent", SkipAll}
              /\ \/ Listed(s, c) \/ Expressed(s, c)
                 \/ s.match = SkipAll /\ ~TooLong(s, c)
         /\ v = SkipBody =>
              /\ s.match \notin {"throws", Inspect}
              /\ TooLong(s, c) \/ s.match = SkipBody
         /\ Listed(s, c) /\ s.match \in {"absent", SkipAll} => v = SkipAll
<1> DEFINE l == ListsSay(s, c, i)
<1>1. /\ l \in {SkipAll, SkipBody, None}
      /\ s.match \in Verdicts \cup {"absent", "throws"}
      /\ v = Decide(s.match, l)
  BY MatcherAssumption DEF Matcher
<1>2. /\ l = SkipAll => Listed(s, c) \/ Expressed(s, c)
      /\ Listed(s, c) => l = SkipAll
      /\ l = SkipBody => TooLong(s, c)
      /\ TooLong(s, c) => l # None
  BY DEF DeclaredLists, ListsAgree
<1> HIDE DEF l
<1> USE DEF Verdicts, Inspect, SkipBody, SkipAll, None
<1>3. CASE s.match = "absent"
  <2>1. v = OrInspect(l)
    BY <1>1, <1>3 DEF Decide
  <2> QED BY <1>1, <1>2, <1>3, <2>1 DEF OrInspect
<1>4. CASE s.match = "throws"
  <2>1. v = Inspect
    BY <1>1, <1>4 DEF Decide, OnThrow
  <2> QED BY <1>4, <2>1
<1>5. CASE s.match \in Verdicts
  <2>1. v = IF l = None THEN s.match ELSE MostRestrictive(l, s.match)
    BY <1>1, <1>5 DEF Decide
  <2>2. CASE l = None
    BY <1>1, <1>2, <1>5, <2>1, <2>2
  <2>3. CASE l = SkipAll
    <3>1. v = s.match
      BY <1>5, <2>1, <2>3 DEF MostRestrictive, Rank
    <3> QED BY <1>2, <1>5, <2>3, <3>1
  <2>4. CASE l = SkipBody
    <3>1. v = IF s.match = Inspect THEN Inspect ELSE SkipBody
      BY <1>5, <2>1, <2>4 DEF MostRestrictive, Rank
    <3> QED BY <1>2, <1>5, <2>4, <3>1
  <2> QED BY <1>1, <2>2, <2>3, <2>4
<1> QED BY <1>1, <1>3, <1>4, <1>5

(* A request bypasses the WAF, or has its body uninspected, only when the  *)
(* lists and the function together say so; a function that throws skips    *)
(* nothing.  The lists are assumed to say what is declared of them.        *)
THEOREM VerdictsAreAlwaysDeclared ==
  ASSUME DeclaredLists
  PROVE  Spec => []VerdictIsAsDeclared
<1>1. RInv /\ Decided => VerdictIsAsDeclared
  <2> SUFFICES ASSUME RInv, Decided, Pending PROVE VerdictIsAsDeclared
    BY DEF VerdictIsAsDeclared
  <2>1. spec \in Specs /\ ctx \in Contexts
    BY DEF RInv, TypeOK
  <2>2. PICK i \in Indexes : verdict = Matcher(spec, ctx, i)
    BY DEF Decided
  <2>3. /\ verdict = SkipAll =>
             /\ spec.match \in {"absent", SkipAll}
             /\ \/ Listed(spec, ctx) \/ Expressed(spec, ctx)
                \/ spec.match = SkipAll /\ ~TooLong(spec, ctx)
        /\ verdict = SkipBody =>
             /\ spec.match \notin {"throws", Inspect}
             /\ TooLong(spec, ctx) \/ spec.match = SkipBody
        /\ Listed(spec, ctx) /\ spec.match \in {"absent", SkipAll} => verdict = SkipAll
    BY <2>1, <2>2, DecidesAsDeclared
  <2> QED BY <2>3 DEF VerdictIsAsDeclared
<1> QED BY <1>1, AlwaysCalm, AlwaysDecided, PTL

-----------------------------------------------------------------------------
(* The nested calls of a block page: by induction on the room that is left *)
(* on the stack.                                                           *)
Callable == [Requests -> Requests]

(* Where onBlock is called and finds nothing sent.                         *)
Unsent(s) == /\ s \in Requests /\ s.hooked /\ s.headersDone /\ s.tx # "closed"
             /\ s.interrupted /\ s.found.read
             /\ s.head = "none" /\ ~s.ended /\ ~s.throwing

(* Calls from records to records.                                          *)
LEMMA ReturnsTyped ==
  ASSUME NEW s \in Requests, NEW whose \in Pages
  PROVE  /\ Throw(s) \in Requests /\ Caught(s) \in Requests /\ OnlyOnce(s) \in Requests
         /\ OrigWriteHead(s, whose) \in Requests /\ Ended(s) \in Requests
         /\ [s EXCEPT !.chunks = @ \cup {whose}] \in Requests
<1>1. Throw(s) \in Requests /\ Caught(s) \in Requests /\ OnlyOnce(s) \in Requests
  BY DEF Throw, Caught, OnlyOnce, Requests
<1>2. [s EXCEPT !.head = whose] \in Requests
  BY DEF Requests
<1>3. OrigWriteHead(s, whose) \in Requests
  BY <1>1, <1>2 DEF OrigWriteHead
<1>4. [s EXCEPT !.ended = TRUE] \in Requests
  BY DEF Requests
<1>5. Ended(s) \in Requests
  BY <1>4 DEF Ended
<1>6. [s EXCEPT !.chunks = @ \cup {whose}] \in Requests
  BY DEF Requests
<1> QED BY <1>1, <1>3, <1>5, <1>6

LEMMA InterruptsTyped ==
  ASSUME NEW page \in Callable, NEW s \in Requests
  PROVE  OnInterruptBy(page, s) \in Requests /\ Caught(OnInterruptBy(page, s)) \in Requests
<1>1. "app" \in Pages
  BY DEF Pages
<1>2. page[s] \in Requests
  BY DEF Callable
<1>3. OnInterruptBy(page, s) \in {Throw(s), s, page[s]}
  <2>1. CASE ~s.found.read
    BY <2>1 DEF OnInterruptBy
  <2>2. CASE s.found.read /\ s.head # "none"
    BY <2>2 DEF OnInterruptBy
  <2>3. CASE s.found.read /\ s.head = "none"
    BY <2>3 DEF OnInterruptBy
  <2> QED BY <2>1, <2>2, <2>3
<1>4. OnInterruptBy(page, s) \in Requests
  BY <1>1, <1>2, <1>3, ReturnsTyped
<1> QED BY <1>1, <1>4, ReturnsTyped

LEMMA CallsTyped ==
  ASSUME NEW page \in Callable, NEW s \in Requests, NEW chunk \in Pages
  PROVE  /\ InspectHeadersBy(page, s) \in Requests /\ InspectBodyBy(page, s, chunk) \in Requests
         /\ WriteHeadBy(page, s, chunk) \in Requests /\ SendBy(page, s, chunk) \in Requests
         /\ EndBy(page, s, chunk) \in Requests
<1>1. ASSUME NEW t \in Requests
      PROVE  InspectHeadersBy(page, t) \in Requests
  BY <1>1, Processed, InterruptsTyped DEF InspectHeadersBy
<1>2. InspectBodyBy(page, s, chunk) \in Requests
  BY Processed, InterruptsTyped DEF InspectBodyBy
<1>3. ASSUME NEW t \in Requests
      PROVE  WriteHeadBy(page, t, chunk) \in Requests
  BY <1>1, ReturnsTyped DEF WriteHeadBy
<1>4. ASSUME NEW t \in Requests
      PROVE  SendBy(page, t, chunk) \in Requests
  BY <1>3, ReturnsTyped DEF SendBy
<1>5. EndBy(page, s, chunk) \in Requests
  BY <1>2, <1>4, ReturnsTyped DEF EndBy
<1> QED BY <1>1, <1>2, <1>3, <1>4, <1>5

LEMMA PagesRepeat ==
  /\ PageAt[0] = [s \in Requests |-> Throw(s)]
  /\ \A d \in Nat : PageAt[d + 1] = [s \in Requests |-> EndBy(PageAt[d], s, "block")]
  /\ \A d \in Nat : PageAt[d] \in Callable
<1> DEFINE none == [s \in Requests |-> Throw(s)]
           more(p) == [s \in Requests |-> EndBy(p, s, "block")]
           g == [p \in Callable |-> more(p)]
           Page(e) == e = [d \in Nat |-> IF d = 0 THEN none ELSE more(e[d - 1])]
<1>1. "block" \in Pages
  BY DEF Pages
<1>2. none \in Callable /\ g \in [Callable -> Callable]
  BY <1>1, ReturnsTyped, CallsTyped DEF Callable
<1>3. \A p \in Callable : g[p] = more(p)
  OBVIOUS
<1>4. PageAt = CHOOSE e : Page(e)
  BY DEF PageAt
<1> HIDE DEF none, more, g
<1>5. PICK f : f \in [Nat -> Callable] /\ Repeats(f, none, g)
  BY <1>2, RepetitionExists
<1>6. f = [d \in Nat |-> IF d = 0 THEN none ELSE g[f[d - 1]]]
  BY <1>5 DEF Repeats
<1>7. \A d \in Nat : f[d] = IF d = 0 THEN none ELSE more(f[d - 1])
  BY <1>3, <1>5, <1>6
<1>8. Page(f)
  <2>1. DOMAIN f = Nat /\ f = [d \in Nat |-> f[d]]
    BY <1>5
  <2> QED BY <1>7, <2>1
<1>9. Page(PageAt)
  BY <1>4, <1>8
<1>10. PageAt[0] = none /\ \A d \in Nat : PageAt[d + 1] = more(PageAt[d])
  <2>1. \A d \in Nat : PageAt[d] = IF d = 0 THEN none ELSE more(PageAt[d - 1])
    BY <1>9
  <2>2. \A d \in Nat : d + 1 \in Nat /\ d + 1 # 0 /\ (d + 1) - 1 = d
    OBVIOUS
  <2> QED BY <2>1, <2>2
<1>11. \A d \in Nat : PageAt[d] \in Callable
  <2>1. \A d \in Nat : PageAt[d] \in Callable => PageAt[d + 1] \in Callable
    BY <1>2, <1>3, <1>10
  <2> QED BY <1>2, <1>10, <2>1, EveryValue
<1> QED BY <1>10, <1>11 DEF none, more

(* What a call does that finds nothing sent: one page, whatever the calls  *)
(* under it did, so long as they sent it or had no stack.                  *)
LEMMA SendsOnePage ==
  ASSUME NEW page, NEW s, Unsent(s),
         page[s] = BlockPage(s) \/ page[s] = Throw(s)
  PROVE  EndBy(page, s, "block") = BlockPage(s)
<1>1. /\ s \in Requests /\ s.hooked /\ s.headersDone /\ s.tx # "closed"
      /\ s.interrupted /\ s.found.read
      /\ s.head = "none" /\ ~s.ended /\ ~s.throwing
  BY DEF Unsent
<1>2. Ended(SendBy(page, s, "block")) = BlockPage(s)
  <2>1. WriteHeadBy(page, s, "block") = [s EXCEPT !.head = "block"]
    BY <1>1 DEF WriteHeadBy, OrigWriteHead
  <2>2. SendBy(page, s, "block") = [s EXCEPT !.head = "block", !.chunks = @ \cup {"block"}]
    BY <1>1, <2>1 DEF SendBy, Requests
  <2> QED BY <1>1, <2>2 DEF Ended, BlockPage, Requests
<1>3. Ended(SendBy(page, BlockPage(s), "block")) = BlockPage(s)
  <2>1. BlockPage(s) = [s EXCEPT !.head = "block", !.chunks = @ \cup {"block"}, !.ended = TRUE]
    BY DEF BlockPage
  <2>2. SendBy(page, BlockPage(s), "block") = BlockPage(s)
    BY <1>1, <2>1 DEF SendBy, Requests
  <2> QED BY <1>1, <2>1, <2>2 DEF Ended, Requests
<1>4. InspectBodyBy(page, s, "block") \in {s, BlockPage(s)}
  <2>1. ~ProcessResponseBodyThrows(s, "block")
    BY <1>1 DEF ProcessResponseBodyThrows
  <2>2. ProcessResponseBody(s, "block") = s
    BY <1>1 DEF ProcessResponseBody, Requests
  <2>3. InspectBodyBy(page, s, "block") = Caught(OnInterruptBy(page, s))
    BY <1>1, <2>1, <2>2 DEF InspectBodyBy
  <2>4. OnInterruptBy(page, s) = page[s]
    BY <1>1 DEF OnInterruptBy
  <2>5. Caught(BlockPage(s)) = BlockPage(s)
    BY <1>1 DEF Caught, BlockPage, Requests
  <2>6. Caught(Throw(s)) = s
    BY <1>1 DEF Caught, Throw, Requests
  <2> QED BY <2>3, <2>4, <2>5, <2>6
<1> QED BY <1>1, <1>2, <1>3, <1>4 DEF EndBy

LEMMA PagesSettle ==
  ASSUME NEW d \in Nat \ {0}, NEW s, Unsent(s)
  PROVE  PageAt[d][s] = BlockPage(s)
<1> DEFINE S == {p \in Callable : \A t \in Requests :
                   Unsent(t) => p[t] = BlockPage(t) \/ p[t] = Throw(t)}
<1>1. s \in Requests
  BY DEF Unsent
<1>2. PageAt[0] \in S
  BY PagesRepeat
<1>3. ASSUME NEW n \in Nat, PageAt[n] \in S, NEW t \in Requests, Unsent(t)
      PROVE  PageAt[n + 1][t] = BlockPage(t)
  <2>1. EndBy(PageAt[n], t, "block") = BlockPage(t)
    BY <1>3, SendsOnePage
  <2> QED BY <2>1, PagesRepeat
<1>4. \A n \in Nat : PageAt[n] \in S => PageAt[n + 1] \in S
  BY <1>3, PagesRepeat
<1> HIDE DEF S
<1>5. \A n \in Nat : PageAt[n] \in S
  BY <1>2, <1>4, EveryValue
<1>6. d - 1 \in Nat /\ (d - 1) + 1 = d
  OBVIOUS
<1> QED BY <1>1, <1>3, <1>5, <1>6

-----------------------------------------------------------------------------
(* The calls of the application.                                           *)
LEMMA SameInterrupt ==
  ASSUME NEW d \in Nat \ {0}, NEW t \in Requests, ~t.throwing, t.interrupted, t.tx # "closed",
         t.hooked, t.headersDone, t.head = "none" => ~t.ended
  PROVE  OnInterruptBy(PageAt[d], t) = OnInterrupt(t)
<1>1. t.found.read /\ t.head = "none" => PageAt[d][t] = BlockPage(t)
  BY PagesSettle DEF Unsent
<1> QED BY <1>1 DEF OnInterruptBy, OnInterrupt

LEMMA SameHead ==
  ASSUME NEW d \in Nat \ {0}, NEW s \in Requests, ~s.throwing, s.head = "none" => ~s.ended,
         NEW whose
  PROVE  WriteHeadBy(PageAt[d], s, whose) = WriteHead(s, whose)
<1> SUFFICES ASSUME s.hooked, ~s.headersDone
             PROVE  InspectHeadersBy(PageAt[d], OnlyOnce(s)) = InspectHeaders(OnlyOnce(s))
  BY DEF WriteHeadBy, WriteHead
<1> DEFINE o == OnlyOnce(s)
           u == ProcessResponse(o)
<1>1. /\ o \in Requests /\ ~o.throwing /\ o.hooked /\ o.headersDone
      /\ o.head = "none" => ~o.ended
  BY DEF OnlyOnce, Requests
<1> HIDE DEF o
<1>2. SUFFICES ASSUME ~ProcessResponseThrows(o), u.interrupted
               PROVE  OnInterruptBy(PageAt[d], u) = OnInterrupt(u)
  BY DEF InspectHeadersBy, InspectHeaders, o
<1>3. /\ u \in Requests /\ Agree(o, u) /\ u.headersDone = o.headersDone
      /\ u.head = o.head /\ u.ended = o.ended /\ u.throwing = o.throwing
  BY <1>1, Processed
<1>4. o.tx # "closed"
  BY <1>2 DEF ProcessResponseThrows
<1> HIDE DEF u
<1> QED BY <1>1, <1>2, <1>3, <1>4, SameInterrupt DEF Agree

LEMMA SameSend ==
  ASSUME NEW d \in Nat \ {0}, NEW s \in Requests, ~s.throwing, NEW chunk
  PROVE  SendBy(PageAt[d], s, chunk) = Send(s, chunk)
BY SameHead DEF SendBy, Send, WithHead

LEMMA SameEnd ==
  ASSUME NEW d \in Nat \ {0}, NEW s, Calm(s), ~s.throwing, s.head = "none" => ~s.ended,
         NEW chunk
  PROVE  EndBy(PageAt[d], s, chunk) = End(s, chunk)
<1>1. s \in Requests
  BY DEF Calm
<1>2. ASSUME s.hooked, s.tx # "closed", IsResponseBodyProcessable(s)
      PROVE  /\ InspectBodyBy(PageAt[d], s, chunk) = InspectBody(s, chunk)
             /\ InspectBody(s, chunk) \in Requests /\ ~InspectBody(s, chunk).throwing
  <2> DEFINE u == ProcessResponseBody(s, chunk)
  <2>1. s.headersDone
    BY <1>2 DEF Calm, IsResponseBodyProcessable
  <2>2. /\ u \in Requests /\ Agree(s, u) /\ u.headersDone = s.headersDone
        /\ u.head = s.head /\ u.ended = s.ended /\ u.throwing = s.throwing
    BY <1>1, Processed
  <2>3. u.interrupted => OnInterruptBy(PageAt[d], u) = OnInterrupt(u)
    <3> HIDE DEF u
    <3> QED BY <1>2, <2>1, <2>2, SameInterrupt DEF Agree
  <2>4. InspectBodyBy(PageAt[d], s, chunk) = InspectBody(s, chunk)
    BY <2>3 DEF InspectBodyBy, InspectBody
  <2> QED BY <1>1, <2>4, InspectsBody
<1> QED BY <1>1, <1>2, SameSend DEF EndBy, End

(* However large the stack, the nested calls of a block page come to an    *)
(* end with one page sent: what the patched writeHead, write and end of    *)
(* hookResponse() do is what SyncAdapters computes without the recursion.  *)
THEOREM NestedCallsAlwaysSettle == Spec => []NestedCallsSettle
<1>1. RInv => NestedCallsSettle
  <2> SUFFICES ASSUME RInv, Running, kind = "express" PROVE NestedCallsSettle
    BY DEF NestedCallsSettle
  <2>1. StackDepth \in Nat \ {0} /\ StackDepth - 1 \in Nat \ {0}
    BY DepthAssumption
  <2>2. Calm(r) /\ r \in Requests /\ ~r.throwing /\ (r.head = "none" => ~r.ended)
    BY DEF RInv, TypeOK, Calm
  <2>3. End(r, "app") = EndBy(PageAt[StackDepth - 1], r, "app")
    BY <2>1, <2>2, SameEnd
  <2>4. Send(r, "app") = SendBy(PageAt[StackDepth], r, "app")
    BY <2>1, <2>2, SameSend
  <2>5. WriteHead(r, "app") = WriteHeadBy(PageAt[StackDepth], r, "app")
    BY <2>1, <2>2, SameHead
  <2> QED BY <2>3, <2>4, <2>5 DEF NestedCallsSettle
<1> QED BY <1>1, AlwaysCalm, PTL
=============================================================================
