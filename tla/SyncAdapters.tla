---------------------------- MODULE SyncAdapters ----------------------------
(***************************************************************************)
(* A request under Express or Fastify whose WAF is the synchronous one,    *)
(* with inspectResponse: the ignore matcher, the request phase, and the    *)
(* inspection of the response, by the patched writeHead and end of Express *)
(* (hookResponse) and by the onSend hook of Fastify.                       *)
(*                                                                         *)
(* Nothing is awaited for longer than a microtask, so that one action is   *)
(* one macrotask: an arrival (in two steps that follow each other, the     *)
(* ignore matcher and the request phase), one call of the application on   *)
(* its response with every nested call, or an event of the connection.     *)
(* What the nested calls do is computed on a record that stands for the    *)
(* response and its transaction.  A block page is sent by the patched end, *)
(* which inspects it in turn, and so on until the stack is full;           *)
(* OnInterrupt has the outcome, NestedCalls the calls one by one.          *)
(*                                                                         *)
(* Node's ServerResponse is external: writeHead throws when the head was   *)
(* sent, write and end send it first, through the writeHead in force, and  *)
(* end does nothing after end.  onBlock is defaultBlock.                   *)
(***************************************************************************)
EXTENDS IgnoreVerdicts

CONSTANTS
  Kinds,       (* the adapters: express, fastify                           *)
  Specs,       (* the settings of ignore                                   *)
  Contexts,    (* what buildIgnoreCtx() may return                         *)
  Indexes,     (* positions in the paths of the contexts                   *)
  ListsSay(_, _, _),  (* Declarative and Leaves of Ignore, for a spec, a   *)
  LeavesAt(_, _, _),  (* context and the lastIndex of the RegExp           *)
  Listed(_, _),       (* what the comments of ignore.ts say of a spec and  *)
  Expressed(_, _),    (* context: it is listed as text or by a RegExp, its *)
  TooLong(_, _),      (* length is above the cutoff                        *)
  Findings,    (* what the engine may find: see AllFindings                *)
  MaxRequests  (* bound on the requests, which share the matcher           *)

(* req: the request phase, off when the rule engine is; hdr and body: the  *)
(* rules on the response; mime: the type of its body is one of             *)
(* SecResponseBodyMimeType; read, log: interruption() and matchedRules(),  *)
(* and processLogging(), succeed.                                          *)
AllFindings ==
  [req : {"noTx", "error", "off", "pass", "block"},
   hdr : {"pass", "block", "error"}, body : {"pass", "block", "error"},
   mime : BOOLEAN, read : BOOLEAN, log : BOOLEAN]

ASSUME KindsAssumption == Kinds \subseteq {"express", "fastify"}
ASSUME FindingsAssumption == Findings \subseteq AllFindings /\ Findings # {}
ASSUME BoundsAssumption == MaxRequests \in Nat
ASSUME MatcherAssumption ==
  /\ Contexts # {} /\ 0 \in Indexes
  /\ \A s \in Specs : s.match \in Verdicts \cup {"absent", "throws"}
  /\ \A s \in Specs, c \in Contexts, i \in Indexes :
       /\ ListsSay(s, c, i) \in {SkipAll, SkipBody, None}
       /\ LeavesAt(s, c, i) \in Indexes

VARIABLES
  kind, policy, spec,  (* the application: adapter, onWAFError, ignore     *)
  lastIndex,           (* of the RegExp among the routes                   *)
  requests,            (* how many have arrived                            *)
  ctx,                 (* what the matcher got, until the request phase    *)
  verdict,             (* what it said, and None after that                *)
  r                    (* the latest request: see Requests                 *)

setup == <<kind, policy, spec>>
vars  == <<setup, lastIndex, requests, ctx, verdict, r>>

(* found: the engine's findings; app: may the application still answer?    *)
(* conn: has 'close' been emitted?  tx: the transaction; hooked:           *)
(* hookResponse() ran; headersDone: of it; seen: processResponse()         *)
(* succeeded; interrupted: the engine keeps its interruption; head,        *)
(* chunks: what was sent, by whom; threw: a call of the application did;   *)
(* throwing: the call that is returning does.                              *)
Pages == {"app", "stream", "block", "503"}
Requests ==
  [found : AllFindings,
   app : {"running", "done"}, conn : {"open", "closed"},
   tx : {"none", "open", "leaked", "closed"},
   hooked : BOOLEAN, headersDone : BOOLEAN, seen : BOOLEAN,
   interrupted : BOOLEAN,
   head : {"none"} \cup Pages, chunks : SUBSET Pages,
   ended : BOOLEAN, threw : BOOLEAN, throwing : BOOLEAN]

NewRequest(f) ==
  [found |-> f, app |-> "running", conn |-> "open", tx |-> "none",
   hooked |-> FALSE, headersDone |-> FALSE, seen |-> FALSE,
   interrupted |-> FALSE, head |-> "none", chunks |-> {}, ended |-> FALSE,
   threw |-> FALSE, throwing |-> FALSE]
NoRequest ==
  [NewRequest(CHOOSE f \in Findings : TRUE) EXCEPT !.app = "done", !.conn = "closed"]
NoContext == CHOOSE c \in Contexts : TRUE
Over    == r.app = "done" /\ r.conn = "closed"
Pending == verdict # None

Init ==
  /\ kind \in Kinds /\ policy \in {"block", "allow"} /\ spec \in Specs
  /\ lastIndex = 0 /\ requests = 0
  /\ ctx = NoContext /\ verdict = None /\ r = NoRequest

-----------------------------------------------------------------------------
(* Calls of the transaction, and the two ways a call returns.              *)
Throw(s)  == [s EXCEPT !.throwing = TRUE]
Uncaught(s) == s
Caught(s) == [s EXCEPT !.throwing = FALSE]

(* Rules fire in a transaction whose engine is on.                         *)
Fires(s, phase) == s.found[phase] = "block" /\ s.found.req # "off"

ProcessResponseThrows(s) == s.tx = "closed" \/ s.found.hdr = "error"
ProcessResponse(s) ==
  [s EXCEPT !.seen = TRUE, !.interrupted = @ \/ Fires(s, "hdr")]

(* "Call AFTER processResponse (needs response headers to be set)."  A     *)
(* trap of the engine in this predicate is left out.                       *)
IsResponseBodyProcessable(s) == s.seen /\ s.found.mime

(* The rules look at the body of the application; an interruption of an    *)
(* earlier phase is returned again.                                        *)
ProcessResponseBodyThrows(s, chunk) ==
  s.tx = "closed" \/ (~s.interrupted /\ chunk = "app" /\ s.found.body = "error")
ProcessResponseBody(s, chunk) ==
  [s EXCEPT !.interrupted = @ \/ (chunk = "app" /\ Fires(s, "body"))]

-----------------------------------------------------------------------------
(* Express: hookResponse().                                                *)
OrigWriteHead(s, whose) ==
  IF s.head # "none" THEN Throw(s) ELSE [s EXCEPT !.head = whose]

(* emitBlockSync() and defaultBlock().  The nested ends inspect the block  *)
(* page, find the interruption and send the page again; the innermost one  *)
(* throws for want of stack, which is caught around it, so that the next   *)
(* one sends the page and the others find the response ended.              *)
NotEnded(s) == [s EXCEPT !.head = "block", !.chunks = @ \cup {"block"}]
BlockPage(s) == [s EXCEPT !.head = "block", !.chunks = @ \cup {"block"}, !.ended = TRUE]
OnInterrupt(s) ==
  CASE ~s.found.read -> Throw(s)
    [] s.found.read /\ s.head # "none" -> s
    [] OTHER -> BlockPage(s)

(* The patched writeHead; the status is whose answer it is.                *)
InspectHeaders(s) ==
  IF ProcessResponseThrows(s) THEN s
  ELSE LET t == ProcessResponse(s)
       IN IF t.interrupted THEN Caught(OnInterrupt(t)) ELSE t

OnlyOnce(s) == [s EXCEPT !.headersDone = TRUE]

WriteHead(s, whose) ==
  OrigWriteHead(IF s.hooked /\ ~s.headersDone
                THEN InspectHeaders(OnlyOnce(s)) ELSE s, whose)

(* write() and end() of Node send the head first; what that throws escapes *)
(* with nothing written.                                                   *)
WithHead(s, whose) == IF s.head = "none" THEN WriteHead(s, whose) ELSE s
Send(s, chunk) ==
  IF s.ended THEN s
  ELSE LET t == WithHead(s, chunk)
       IN IF t.throwing THEN t ELSE [t EXCEPT !.chunks = @ \cup {chunk}]
Ended(t) == IF t.throwing THEN t ELSE [t EXCEPT !.ended = TRUE]

(* end() without a chunk: nothing to inspect.                              *)
EndEmpty(s) == Ended(WithHead(s, "app"))

InspectBody(s, chunk) ==
  IF ProcessResponseBodyThrows(s, chunk) THEN s
  ELSE LET t == ProcessResponseBody(s, chunk)
       IN IF t.interrupted THEN Caught(OnInterrupt(t)) ELSE t

(* The patched end, with a chunk.  isResponseBodyProcessable() is outside  *)
(* the try, and throws for a closed transaction.                           *)
End(s, chunk) ==
  CASE ~s.hooked -> Ended(Send(s, chunk))
    [] s.hooked /\ s.tx = "closed" -> Throw(s)
    [] OTHER -> Ended(Send(IF IsResponseBodyProcessable(s)
                           THEN InspectBody(s, chunk) ELSE s, chunk))

-----------------------------------------------------------------------------
(* Fastify: the onSend hook gives the payload that is sent.  A stream is   *)
(* no bytes to it; an error lets the payload through.                      *)
OnSendBody(s, chunk) ==
  IF \/ chunk = "stream" \/ ~IsResponseBodyProcessable(s)
     \/ ProcessResponseBodyThrows(s, chunk)
  THEN s ELSE ProcessResponseBody(s, chunk)

OnSend(s, chunk) ==
  IF ProcessResponseThrows(s) THEN s
  ELSE LET t == ProcessResponse(s)
       IN IF t.interrupted THEN t ELSE OnSendBody(t, chunk)

Sent(s, page) == [s EXCEPT !.head = page, !.chunks = {page}, !.ended = TRUE]
AsIs(t, chunk) == chunk
Replaced(t, chunk) == IF t.interrupted /\ t.found.read THEN "block" ELSE chunk

ReplySend(s, chunk) ==
  IF s.tx = "none" THEN Sent(s, chunk)
  ELSE LET t == OnSend(s, chunk) IN Sent(t, Replaced(t, chunk))

-----------------------------------------------------------------------------
(* The middleware of Express, and the preHandler hook of Fastify.          *)
Matcher(s, c, i) == Decide(s.match, ListsSay(s, c, i))

(* Only a RegExp with the flag g keeps its lastIndex.                      *)
NextOfAll(s, c, i) == LeavesAt(s, c, i)
NextIndex(s, c, i) == IF s.global THEN LeavesAt(s, c, i) ELSE i

Arrive ==
  /\ Over /\ ~Pending /\ requests < MaxRequests
  /\ requests' = requests + 1
  /\ ctx' \in Contexts
  /\ verdict' = Matcher(spec, ctx', lastIndex)
  /\ lastIndex' = NextIndex(spec, ctx', lastIndex)
  /\ r' = NoRequest
  /\ UNCHANGED setup

(* The adapter answers itself.                                             *)
Answered(s, page) ==
  [(IF kind = "express" THEN End(s, page) ELSE ReplySend(s, page))
     EXCEPT !.app = "done"]
OnFailure(s) == IF policy = "block" THEN Answered(s, "503") ELSE s

RequestPhase(s) ==
  LET t == [s EXCEPT !.tx = "open"]
      req == s.found.req
  IN IF verdict = SkipAll THEN s
     ELSE CASE req = "noTx" -> OnFailure(s)
            [] req = "error" -> OnFailure(t)
            [] req = "block" -> Answered([t EXCEPT !.interrupted = TRUE], "block")
            [] req = "pass" -> [t EXCEPT !.hooked = kind = "express"]
            [] req = "off" -> t

Handle ==
  /\ Pending
  /\ \E f \in Findings : r' = RequestPhase(NewRequest(f))
  /\ ctx' = NoContext /\ verdict' = None
  /\ UNCHANGED <<setup, lastIndex, requests>>

-----------------------------------------------------------------------------
(* The application answers by one of its calls.                            *)
Running == ~Pending /\ r.app = "running"
Becomes(s) == r' = [s EXCEPT !.threw = @ \/ s.throwing, !.throwing = FALSE]
Done(s) == Becomes([s EXCEPT !.app = "done"])
Same == UNCHANGED <<setup, lastIndex, requests, ctx, verdict>>

AppWriteHead == /\ Running /\ kind = "express" /\ r.head = "none"
                /\ Becomes(WriteHead(r, "app")) /\ Same
AppWrite     == /\ Running /\ kind = "express"
                /\ Becomes(Send(r, "app")) /\ Same
AppEnd       == /\ Running /\ kind = "express"
                /\ \/ Done(End(r, "app"))
                   \/ ~r.ended /\ Done(EndEmpty(r))
                /\ Same
AppReply     == /\ Running /\ kind = "fastify"
                /\ \E chunk \in {"app", "stream"} : Done(ReplySend(r, chunk))
                /\ Same

(* The response has ended, or the client of Express leaves: the 'close'    *)
(* listener, where processLogging() may throw past finally(), and          *)
(* onResponse, where it may not.                                           *)
LeakedOnError(s) == IF s.found.log THEN "closed" ELSE "leaked"
Finally(s) == "closed"
Logged(s) ==
  CASE s.tx = "none" -> "none"
    [] s.tx # "none" /\ kind = "express" -> LeakedOnError(s)
    [] OTHER -> Finally(s)

ConnCloses ==
  /\ ~Pending /\ r.conn = "open"
  /\ r.ended \/ kind = "express"
  /\ r' = [r EXCEPT !.conn = "closed", !.tx = Logged(r)]
  /\ Same

Next == Arrive \/ Handle \/ AppEnd \/ AppReply \/ AppWriteHead \/ AppWrite
          \/ ConnCloses

(* The adapter runs, the application answers, and a response that has      *)
(* ended is closed.  No client needs to leave or to come.                  *)
Fairness == /\ WF_vars(Handle) /\ WF_vars(AppEnd) /\ WF_vars(AppReply)
            /\ WF_vars(r.ended /\ ConnCloses)

Spec == Init /\ [][Next]_vars
FairSpec == Spec /\ Fairness

-----------------------------------------------------------------------------
TypeOK ==
  /\ kind \in Kinds /\ policy \in {"block", "allow"} /\ spec \in Specs
  /\ lastIndex \in Indexes /\ (~spec.global => lastIndex = 0)
  /\ requests \in 0 .. MaxRequests
  /\ ctx \in Contexts /\ verdict \in Verdicts \cup {None}
  /\ r \in Requests /\ ~r.throwing

(* The most restrictive of what the lists and the function say wins, and a *)
(* function that throws never skips anything: a request bypasses the WAF   *)
(* only when it is Listed or the function alone decides, and is inspected  *)
(* without its body only when its length or the function says so.  An      *)
(* expression with the flag g remembers where it ended from one request to *)
(* the next; that may only make it miss.                                   *)
VerdictIsAsDeclared ==
  Pending =>
    /\ verdict = SkipAll =>
         /\ spec.match \in {"absent", SkipAll}
         /\ \/ Listed(spec, ctx) \/ Expressed(spec, ctx)
            \/ spec.match = SkipAll /\ ~TooLong(spec, ctx)
    /\ verdict = SkipBody =>
         /\ spec.match \notin {"throws", Inspect}
         /\ TooLong(spec, ctx) \/ spec.match = SkipBody
    /\ Listed(spec, ctx) /\ spec.match \in {"absent", SkipAll} => verdict = SkipAll

(* The lists by themselves: what they say of a request is what is declared *)
(* (Listed, Expressed, TooLong), wherever the expression starts.           *)
ListsAgree(s, c, i) ==
  /\ ListsSay(s, c, i) = SkipAll => Listed(s, c) \/ Expressed(s, c)
  /\ Listed(s, c) => ListsSay(s, c, i) = SkipAll
  /\ ListsSay(s, c, i) = SkipBody => TooLong(s, c)
  /\ TooLong(s, c) => ListsSay(s, c, i) # None
DeclaredLists ==
  \A s \in Specs, c \in Contexts, i \in Indexes : ListsAgree(s, c, i)

(* A response the rules block is not sent: nothing that the application    *)
(* writes, before or after, in whichever call the inspection was nested,   *)
(* reaches the client.  In Express this holds of the rules on the headers, *)
(* in Fastify also of those on a body that is no stream.                   *)
Inspected == r.found.req = "pass" /\ r.tx = "open" /\ r.found.read
BlockedResponseIsWithheld ==
  Inspected /\ (\/ r.found.hdr = "block"
                \/ /\ kind = "fastify" /\ r.found.hdr = "pass"
                   /\ r.found.body = "block" /\ r.found.mime)
    => r.head # "app" /\ "app" \notin r.chunks

(* "tolerates response-header inspection errors": no call of the           *)
(* application on its response throws because of the inspection, except    *)
(* one that the block has answered and one after the client has left;      *)
(* provided that isResponseBodyProcessable(), which Express calls outside  *)
(* the try, does not trap while the transaction is open.                   *)
ThrowsOnlyWhenAnswered ==
  r.threw => r.head = "block" \/ r.conn = "closed"

(* Every transaction ends in close(), but for one of Express whose         *)
(* processLogging() throws in the 'close' listener.                        *)
TransactionEnds ==
  (r.tx = "open")
    ~> (r.tx = "closed" \/ (kind = "express" /\ ~r.found.log))

(* "Inspect the response phase (headers + body)": Express sends no body    *)
(* that the rules block.                                                   *)
BlockedBodyIsWithheld ==
  Inspected /\ r.found.hdr = "pass" /\ r.found.body = "block" /\ r.found.mime
    => "app" \notin r.chunks
=============================================================================
