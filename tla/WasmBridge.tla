----------------------------- MODULE WasmBridge ------------------------------
(***************************************************************************)
(* One WASM instance and the JavaScript objects on top of it: WAF and      *)
(* Transaction (waf.ts, transaction.ts), the Abi with its view of the      *)
(* linear memory (abi.ts), and the exports with their registries, their    *)
(* allocator and their scratch area (main.go, host_wasm.go, bundle.go).    *)
(*                                                                         *)
(* Everything runs on one thread, so one method at a time: call holds the  *)
(* method being executed.  It allocates its input buffers, calls one       *)
(* export, checks the result and frees the buffers.  Memory may grow in    *)
(* every export, an allocation or an export may trap (the module is built  *)
(* with -panic=trap), and the engine may report an error or interrupt.     *)
(***************************************************************************)
EXTENDS BundleCodec, FiniteSets

CONSTANTS
  Waf, Tx,     (* the WAF and Transaction objects                          *)
  None,        (* no object, no address                                    *)
  Requests,    (* what is given to processRequestBundle()                  *)
  Headers,     (* header lists given to processResponse()                  *)
  Payloads,    (* configurations, addresses, protocols, chunks, bodies     *)
  Ptr,         (* addresses of host_malloc                                 *)
  MaxAlloc,    (* its ceiling, 64 MiB in the code                          *)
  IdHalf,      (* half the number of ids, 2^31 in the code                 *)
  MaxTraps     (* bound on the handles whose close() or reset() traps      *)

ASSUME InputsAssumption == /\ Requests \subseteq Bundles
                           /\ Headers \subseteq HeaderLists
ASSUME BridgeAssumption == /\ None \notin Waf \cup Tx \cup Ptr
                           /\ MaxAlloc \in Nat /\ IdHalf \in Nat \ {0}
                           /\ MaxTraps \in Nat

VARIABLES
  (* main.go and host_wasm.go *)
  wafs, txs,            (* the registries: id -> object                    *)
  txOwner,              (* transaction id -> WAF id                        *)
  wafNextID, txNextID,
  lastErr,              (* lastErrMsg                                      *)
  scratch,              (* what scratchBacking holds                       *)
  onHeap,               (* append has moved scratchBuf off scratchBacking  *)
  alive,                (* alivePool: address -> contents                  *)
  (* abi.ts *)
  viewLive,             (* bytesView shows the current memory.buffer       *)
  (* waf.ts and transaction.ts *)
  waf,                  (* each WAF: its id and state                      *)
  tx,                   (* each Transaction: its id, state and owner       *)
  call,                 (* the method being executed                       *)
  (* history: the open handles that were told of an interruption, the ones *)
  (* that lost their slot to a reset() after destroy(), and all that met a *)
  (* trap in close() or reset()                                            *)
  told, lost, trapped

goVars == <<wafs, txs, txOwner, wafNextID, txNextID, lastErr, scratch, onHeap>>
memVars == <<alive, viewLive>>
jsVars == <<waf, tx>>
ghosts == <<told, lost, trapped>>
vars == <<goVars, memVars, jsVars, call, ghosts>>


Idle == [step |-> "idle"]

----------------------------------------------------------------------------
(* Values.                                                                 *)

(* int32 arithmetic.                                                       *)
Wrap(n) == ((n + IdHalf) % (2 * IdHalf)) - IdHalf

Ids == (-IdHalf) .. (IdHalf - 1)

(* The transaction object of the engine.  of and waf record for whom and   *)
(* by which WAF it was made.                                               *)
Fresh(t, w) == [of |-> t, waf |-> w, hit |-> FALSE, closed |-> FALSE]

Put(f, k, v) == [x \in DOMAIN f \cup {k} |-> IF x = k THEN v ELSE f[x]]
Drop(f, k) == [x \in DOMAIN f \ {k} |-> f[x]]

(* An output: the JSON of an interruption or of the matched rules, or an   *)
(* error message.                                                          *)
Text(what, of) == [what |-> what, of |-> of, whole |-> TRUE]

(* writeScratch: a slice that aliases scratchBacking is in place already;  *)
(* any other one is copied there, cut to its size.                         *)
WriteScratchInPlace(b, aliases, long) ==
  IF aliases THEN b ELSE scratch
WriteScratch(b, aliases, long) ==
  IF aliases THEN b ELSE [b EXCEPT !.whole = ~long]

(* Abi.bytes() makes a new view when memory.buffer has been replaced, as   *)
(* it is when the memory grows.                                            *)
RefreshedNever(live) == live
Refreshed(live) == TRUE

MayGrow(live) == {live, FALSE}

----------------------------------------------------------------------------
(* The methods.                                                            *)

(* The append, finish and predicate methods exist for the request body and *)
(* for the response body, with exports of the same form; one of each       *)
(* stands for both.                                                        *)
Inspections == {"processConnection", "processRequestBundle", "processResponse",
                "processResponseBody", "appendBody", "finishBody"}
Predicates == {"isRuleEngineOff", "isBodyAccessible"}
Getters == {"interruption", "matchedRules"}

(* No object is none of what a method returns.                             *)
ASSUME AnswersAssumption == \A op \in Getters, t \in Tx : None # Text(op, t)

Init ==
  /\ wafs = {} /\ txs = << >> /\ txOwner = << >>
  /\ wafNextID = 0 /\ txNextID = 0
  /\ lastErr = "" /\ scratch = Text("nothing", "") /\ onHeap = FALSE
  /\ alive = << >> /\ viewLive = TRUE
  /\ waf = [w \in Waf |-> [id |-> 0, state |-> "none"]]
  /\ tx = [t \in Tx |-> [id |-> 0, state |-> "none", waf |-> None]]
  /\ call = Idle
  /\ told = {} /\ lost = {} /\ trapped = {}

(* A method is called with the inputs sent, encoded before any is copied   *)
(* into the memory.                                                        *)
Buf(what, data) == [what |-> what, data |-> data]

Bytes(b) == CASE b.what = "bundle" -> EncodeBundle(b.data)
              [] b.what = "headers" -> EncodeHeaders(b.data)
              [] OTHER -> Utf8(b.data)

Begin(op, on, sent) ==
  /\ call = Idle
  /\ call' = [step |-> "call", op |-> op, on |-> on, sent |-> sent,
              bytes |-> [i \in DOMAIN sent |-> Bytes(sent[i])], ptrs |-> << >>,
              got |-> << >>, rc |-> 0, raised |-> "", err |-> "", val |-> None]

Open(t) == tx[t].state = "open"

(* fromAbi(): the configuration ends in the engine line, hence not empty.  *)
FromAbi(w) ==
  /\ waf[w].state = "none"
  /\ \E p \in Payloads \ {<< >>} : Begin("fromAbi", w, <<Buf("cfg", p)>>)
  /\ UNCHANGED <<goVars, memVars, jsVars, ghosts>>

(* newTransaction() on a WAF that is not destroyed, for the object t.      *)
NewTransaction(w, t) ==
  /\ waf[w].state = "open" /\ tx[t].state = "none"
  /\ Begin("newTransaction", t, << >>)
  /\ tx' = [tx EXCEPT ![t].waf = w]
  /\ UNCHANGED <<goVars, memVars, waf, ghosts>>

(* destroy() and close() record the end before they call the export.       *)
Destroy(w) ==
  /\ waf[w].state = "open"
  /\ Begin("destroy", w, << >>)
  /\ waf' = [waf EXCEPT ![w].state = "destroyed"]
  /\ UNCHANGED <<goVars, memVars, tx, ghosts>>

Close(t) ==
  /\ Open(t)
  /\ Begin("close", t, << >>)
  /\ tx' = [tx EXCEPT ![t].state = "closed"]
  /\ told' = told \ {t} /\ lost' = lost \ {t}
  /\ UNCHANGED <<goVars, memVars, waf, trapped>>

ProcessRequestBundle(t) ==
  /\ Open(t)
  /\ \E r \in Requests :
       Begin("processRequestBundle", t, <<Buf("bundle", r)>>)
  /\ UNCHANGED <<goVars, memVars, jsVars, ghosts>>

(* processResponse() copies the header packet and the protocol; an empty   *)
(* chunk is not passed on, an empty response body is, without a buffer.    *)
Inspect(t) ==
  /\ Open(t)
  /\ \/ \E p \in Payloads, h \in Headers :
          Begin("processResponse", t, <<Buf("headers", h), Buf("proto", p)>>)
     \/ \E p \in Payloads :
          \/ Begin("processConnection", t, <<Buf("addr", p)>>)
          \/ Begin("processResponseBody", t, IF p = << >> THEN << >>
                                             ELSE <<Buf("body", p)>>)
     \/ \E p \in Payloads \ {<< >>} : Begin("appendBody", t, <<Buf("chunk", p)>>)
     \/ Begin("finishBody", t, << >>)
  /\ UNCHANGED <<goVars, memVars, jsVars, ghosts>>

Ask(t) ==
  /\ Open(t)
  /\ \E op \in Predicates \cup Getters \cup {"processLogging", "reset"} :
       Begin(op, t, << >>)
  /\ UNCHANGED <<goVars, memVars, jsVars, ghosts>>

----------------------------------------------------------------------------
(* #writeMalloc() and the allocation of fromAbi().                         *)

Pending == call.step = "call" /\ Len(call.ptrs) < Len(call.sent)
Input == call.bytes[Len(call.ptrs) + 1]

(* Nothing is allocated for an empty input.                                *)
SkipEmpty ==
  /\ Pending /\ Input = << >>
  /\ call' = [call EXCEPT !.ptrs = Append(@, None)]
  /\ UNCHANGED <<goVars, memVars, jsVars, ghosts>>

(* host_malloc pins a zeroed slice, and writeAt() copies the bytes through *)
(* the view, which a growth of the memory detaches.                        *)
Allocate ==
  /\ Pending /\ Len(Input) \in 1..MaxAlloc
  /\ \E live \in MayGrow(viewLive) : viewLive' = Refreshed(live)
  /\ \E p \in Ptr \ DOMAIN alive :
       /\ alive' = Put(alive, p,
                       Buf(call.sent[Len(call.ptrs) + 1].what,
                           IF viewLive' THEN Input ELSE [i \in DOMAIN Input |-> 0]))
       /\ call' = [call EXCEPT !.ptrs = Append(@, p)]
  /\ UNCHANGED <<goVars, jsVars, ghosts>>

(* An object whose constructor throws never comes to exist.                *)
Unborn == IF call.op = "fromAbi"
          THEN waf' = [waf EXCEPT ![call.on].state = "failed"] /\ UNCHANGED tx
          ELSE IF call.op = "newTransaction"
          THEN tx' = [tx EXCEPT ![call.on].state = "failed"] /\ UNCHANGED waf
          ELSE UNCHANGED jsVars

(* host_malloc returns 0 for a size above its ceiling, and traps when the  *)
(* memory is exhausted.  Both throw before the try.                        *)
AllocateFails ==
  /\ Pending /\ Input # << >>
  /\ call' = Idle
  /\ Unborn
  /\ UNCHANGED <<goVars, memVars, ghosts>>

----------------------------------------------------------------------------
(* The exports.                                                            *)

Enters(ops) == /\ call.step = "call" /\ ~Pending /\ call.op \in ops
               /\ viewLive' \in MayGrow(viewLive)
               /\ UNCHANGED alive

(* readBytes: what the export finds at its arguments.                      *)
Got == [i \in DOMAIN call.ptrs |->
          IF call.ptrs[i] = None THEN << >> ELSE alive[call.ptrs[i]].data]

(* A negative result is looked into by Abi.check(), where it is called.    *)
Checked == {"fromAbi", "newTransaction", "reset", "processLogging"} \cup Inspections

Returns(rc) ==
  call' = [call EXCEPT !.got = Got, !.rc = rc,
             !.step = IF (call.op \in Checked /\ rc < 0) \/ (call.op \in Getters /\ rc = 1)
                      THEN "read" ELSE "finally"]

SetErrOnce(msg) == /\ lastErr' = IF lastErr = "" THEN msg ELSE lastErr
                   /\ call' = [call EXCEPT !.got = Got, !.rc = -1, !.step = "read",
                                           !.raised = msg]
SetErr(msg) == /\ lastErr' = msg
               /\ call' = [call EXCEPT !.got = Got, !.rc = -1, !.step = "read",
                                       !.raised = msg]

Traps == call' = [call EXCEPT !.step = "finally", !.got = Got, !.err = "trap"]

MyId == tx[call.on].id
MyTx == txs[MyId]
Known == MyId \in DOMAIN txs

(* A slot is released in both registries.                                  *)
OwnersKept(id) == txOwner
Owners(id) == Drop(txOwner, id)
Release(id) == txs' = Drop(txs, id) /\ txOwner' = Owners(id)

WafCreate ==
  /\ Enters({"fromAbi"})
  /\ LET id == Wrap(wafNextID + 1)
     IN \/ SetErr("bad configuration") /\ UNCHANGED <<wafs, wafNextID>>
        \/ /\ wafNextID' = id /\ wafs' = wafs \cup {id} /\ Returns(id)
           /\ UNCHANGED lastErr
        \/ Traps /\ UNCHANGED <<wafs, wafNextID, lastErr>>
  /\ UNCHANGED <<txs, txOwner, txNextID, scratch, onHeap, jsVars, ghosts>>

WafDestroy ==
  /\ Enters({"destroy"})
  /\ wafs' = wafs \ {waf[call.on].id}
  /\ Returns(0)
  /\ UNCHANGED <<txs, txOwner, wafNextID, txNextID, lastErr, scratch, onHeap,
                 jsVars, ghosts>>

(* The id is taken before NewTransaction() can trap.                       *)
TxCreate ==
  /\ Enters({"newTransaction"})
  /\ LET w == waf[tx[call.on].waf].id
         id == Wrap(txNextID + 1)
     IN IF w \notin wafs
        THEN SetErr("unknown waf id") /\ UNCHANGED <<txs, txOwner, txNextID>>
        ELSE /\ txNextID' = id
             /\ \/ /\ txs' = Put(txs, id, Fresh(call.on, w))
                   /\ txOwner' = Put(txOwner, id, w)
                   /\ Returns(id)
                \/ Traps /\ UNCHANGED <<txs, txOwner>>
             /\ UNCHANGED lastErr
  /\ UNCHANGED <<wafs, wafNextID, scratch, onHeap, jsVars, ghosts>>

(* A trap in ProcessLogging() or in Close() keeps the slot.                *)
TxDestroy ==
  /\ Enters({"close"})
  /\ \/ /\ Release(MyId)
        /\ Returns(0)
        /\ UNCHANGED trapped
     \/ /\ Known
        /\ Traps
        /\ Cardinality(trapped) < MaxTraps
        /\ trapped' = trapped \cup {call.on}
        /\ UNCHANGED <<txs, txOwner>>
  /\ UNCHANGED <<wafs, wafNextID, txNextID, lastErr, scratch, onHeap, jsVars,
                 told, lost>>

(* The slot gets a fresh transaction of the WAF that owns it; when that is *)
(* gone the slot is removed.  ProcessLogging() may trap, and so may        *)
(* NewTransaction(), when Close() is done.                                 *)
ReplacementMissing == [MyTx EXCEPT !.closed = TRUE]
Replacement == Fresh(call.on, txOwner[MyId])
HalfResetEmpty == {txs, Drop(txs, MyId)}
HalfReset == {txs, [txs EXCEPT ![MyId].closed = TRUE]}
TxReset ==
  /\ Enters({"reset"})
  /\ \/ /\ ~Known
        /\ SetErr("unknown tx id")
        /\ UNCHANGED <<txs, txOwner, told, lost, trapped>>
     \/ /\ Known /\ txOwner[MyId] \notin wafs
        /\ SetErr("owning waf has been destroyed")
        /\ Release(MyId)
        /\ told' = told \ {call.on} /\ lost' = lost \cup {call.on}
        /\ UNCHANGED trapped
     \/ /\ Known /\ txOwner[MyId] \in wafs
        /\ txs' = Put(txs, MyId, Replacement)
        /\ Returns(MyId)
        /\ told' = told \ {call.on}
        /\ UNCHANGED <<txOwner, lastErr, lost, trapped>>
     \/ /\ Known
        /\ txs' \in HalfReset
        /\ Traps
        /\ Cardinality(trapped) < MaxTraps
        /\ trapped' = trapped \cup {call.on}
        /\ UNCHANGED <<txOwner, lastErr, told, lost>>
  /\ UNCHANGED <<wafs, wafNextID, txNextID, scratch, onHeap, jsVars>>

----------------------------------------------------------------------------
(* The engine, which the exports drive: a phase may interrupt or fail, and *)
(* an interruption stays.                                                  *)

Advanced(o) == {o, [o EXCEPT !.hit = TRUE]}

(* What an export refuses before the engine sees it.                       *)
Refusal ==
  CASE ~Known -> "unknown tx id"
    [] Known /\ call.op = "processRequestBundle" /\ ~DecodeBundle(Got[1]).ok
         -> "malformed bundle"
    [] Known /\ call.op = "processRequestBundle" /\ DecodeBundle(Got[1]).ok
         /\ ~DecodeHeaders(DecodeBundle(Got[1]).vals.hdr).ok -> "bad headers"
    [] Known /\ call.op = "processResponse" /\ ~DecodeHeaders(Got[1]).ok -> "bad headers"
    [] OTHER -> ""

(* The write of a chunk drops the interruption it may cause, which is      *)
(* seen by the finish call.                                                *)
Verdict(o) == IF o.hit /\ call.op \notin {"processConnection", "appendBody"}
              THEN 1 ELSE 0

TxProcess ==
  /\ Enters(Inspections)
  /\ \/ /\ Refusal # ""
        /\ SetErr(Refusal) /\ UNCHANGED txs
     \/ /\ Refusal = ""
        /\ \E o \in Advanced(MyTx) :
             /\ call.op = "processConnection" => o = MyTx
             /\ txs' = [txs EXCEPT ![MyId] = o]
             /\ \/ Returns(Verdict(o)) /\ UNCHANGED lastErr
                \/ Traps /\ UNCHANGED lastErr
                \/ /\ call.op \notin {"processConnection", "processResponse"}
                   /\ SetErr("engine error")
  /\ UNCHANGED <<wafs, txOwner, wafNextID, txNextID, scratch, onHeap, jsVars,
                 ghosts>>

TxProcessLogging ==
  /\ Enters({"processLogging"})
  /\ \/ ~Known /\ SetErr("unknown tx id")
     \/ /\ Known
        /\ Returns(0) \/ Traps
        /\ UNCHANGED lastErr
  /\ UNCHANGED <<wafs, txs, txOwner, wafNextID, txNextID, scratch, onHeap, jsVars,
                 ghosts>>

(* An unknown transaction counts as off, and its bodies as inaccessible.   *)
TxPredicate ==
  /\ Enters(Predicates)
  /\ \E yes \in BOOLEAN :
       /\ ~Known => yes = (call.op = "isRuleEngineOff")
       /\ Returns(IF yes THEN 1 ELSE 0)
  /\ UNCHANGED <<goVars, jsVars, ghosts>>

(* tx_has_interrupt, tx_get_interrupt, tx_get_matched_rules: the JSON is   *)
(* appended to scratchBuf, which append moves to the heap for good when    *)
(* the text outgrows scratchBacking, as that of many rules does.           *)
TxGet ==
  /\ Enters(Getters)
  /\ \/ /\ Known /\ (call.op = "interruption" => MyTx.hit)
        /\ \E long \in BOOLEAN :
             /\ long => call.op = "matchedRules"
             /\ onHeap' = (onHeap \/ long)
             /\ scratch' = WriteScratch(Text(call.op, MyTx.of), ~onHeap', long)
        /\ Returns(1)
     \/ /\ Known => call.op = "matchedRules" \/ ~MyTx.hit
        /\ Returns(0)
        /\ UNCHANGED <<scratch, onHeap>>
  /\ UNCHANGED <<wafs, txs, txOwner, wafNextID, txNextID, lastErr, jsVars, ghosts>>

----------------------------------------------------------------------------
(* Back in JavaScript.                                                     *)

(* Abi.check(): a negative result is thrown with the text of last_error.   *)
CheckThrows ==
  /\ call.step = "read" /\ call.op \in Checked
  /\ scratch' = IF lastErr = "" THEN scratch
                ELSE WriteScratch(Text("error", lastErr), FALSE, FALSE)
  /\ viewLive' = Refreshed(viewLive)
  /\ call' = [call EXCEPT !.step = "finally",
                 !.err = IF lastErr = "" \/ ~viewLive' THEN "unknown error"
                         ELSE scratch'.of]
  /\ UNCHANGED <<wafs, txs, txOwner, wafNextID, txNextID, lastErr, onHeap, alive,
                 jsVars, ghosts>>

(* interruption() and matchedRules(): JSON.parse of the scratch area.      *)
ReadResult ==
  /\ call.step = "read" /\ call.op \in Getters
  /\ viewLive' = Refreshed(viewLive)
  /\ call' = IF scratch.whole /\ viewLive'
             THEN [call EXCEPT !.step = "finally", !.val = scratch]
             ELSE [call EXCEPT !.step = "finally", !.err = "SyntaxError"]
  /\ UNCHANGED <<goVars, alive, jsVars, ghosts>>

(* host_free of every buffer, whatever the outcome.                        *)
Without(ptrs) == [p \in DOMAIN alive \ {ptrs[i] : i \in DOMAIN ptrs} |-> alive[p]]
FreedUnlessThrown(ptrs) == IF call.err = "" THEN Without(ptrs) ELSE alive
Freed(ptrs) == Without(ptrs)

Settle ==
  /\ call.step = "finally"
  /\ alive' = Freed(call.ptrs)
  /\ IF call.err # "" THEN Unborn
     ELSE IF call.op = "fromAbi"
     THEN /\ waf' = [waf EXCEPT ![call.on] = [id |-> call.rc, state |-> "open"]]
          /\ UNCHANGED tx
     ELSE IF call.op = "newTransaction"
     THEN /\ tx' = [tx EXCEPT ![call.on].id = call.rc, ![call.on].state = "open"]
          /\ UNCHANGED waf
     ELSE UNCHANGED jsVars
  /\ told' = IF call.op \in Inspections /\ call.err = "" /\ call.rc = 1
             THEN told \cup {call.on} ELSE told
  /\ call' = Idle
  /\ UNCHANGED <<goVars, viewLive, lost, trapped>>

----------------------------------------------------------------------------
Method == \/ \E w \in Waf : FromAbi(w) \/ Destroy(w)
          \/ \E w \in Waf, t \in Tx : NewTransaction(w, t)
          \/ \E t \in Tx : Close(t) \/ ProcessRequestBundle(t) \/ Inspect(t) \/ Ask(t)

Export == \/ WafCreate \/ WafDestroy \/ TxCreate \/ TxDestroy \/ TxReset
          \/ TxProcess \/ TxProcessLogging \/ TxPredicate \/ TxGet

Next == \/ Method
        \/ SkipEmpty \/ Allocate \/ AllocateFails
        \/ Export
        \/ CheckThrows \/ ReadResult \/ Settle

Spec == Init /\ [][Next]_vars

----------------------------------------------------------------------------
(* Properties.                                                             *)

Resting == call = Idle
At(step, ops) == call.step = step /\ call.op \in ops

(* Every variable has values of its kind; between methods, the registry of *)
(* owners has the ids of the registry of transactions.                     *)
TypeOK ==
  /\ wafs \subseteq Ids /\ wafNextID \in Ids /\ txNextID \in Ids
  /\ DOMAIN txs \subseteq Ids /\ DOMAIN txOwner = DOMAIN txs
  /\ \A i \in DOMAIN txs :
       /\ txs[i] \in [of : Tx, waf : Ids, hit : BOOLEAN, closed : BOOLEAN]
       /\ txOwner[i] \in Ids
  /\ onHeap \in BOOLEAN
  /\ DOMAIN alive \subseteq Ptr
  /\ viewLive \in BOOLEAN
  /\ waf \in [Waf -> [id : Ids, state : {"none", "open", "destroyed", "failed"}]]
  /\ tx \in [Tx -> [id : Ids, state : {"none", "open", "closed", "failed"},
                   waf : Waf \cup {None}]]
  /\ call.step \in {"idle", "call", "read", "finally"}
  /\ told \subseteq Tx /\ lost \subseteq Tx /\ trapped \subseteq Tx

(* host_wasm.go: every host_malloc is paired with a host_free.  However a  *)
(* method ends, the only buffers it leaves pinned are header packets of    *)
(* processResponse(), whose second allocation is before its try as well.   *)
BuffersAreFreed ==
  Resting => \A p \in DOMAIN alive : alive[p].what = "headers"

(* Between methods an open Transaction has the slot of its id to itself,   *)
(* with a live engine transaction of the WAF that made it, and no other    *)
(* slot is taken.  Excepted are the handles that lost theirs to reset()    *)
(* after destroy(), and those whose close() or reset() met a trap.         *)
SlotsMatchHandles ==
  Resting =>
    /\ \A t \in Tx : Open(t) /\ t \notin lost =>
         /\ tx[t].id \in DOMAIN txs
         /\ LET o == txs[tx[t].id]
            IN /\ o.of = t /\ o.waf = waf[tx[t].waf].id
               /\ o.closed => t \in trapped
    /\ \A i \in DOMAIN txs :
         LET t == txs[i].of
         IN /\ tx[t].id = i
            /\ t \in trapped \/ Open(t)

(* An instance makes fewer objects in its life than there are positive     *)
(* ids.  Nothing enforces it; a negative id, which ABI.md does not expect  *)
(* of tx_create, is taken for a failure by Abi.check.                      *)
EnoughIds == /\ IsFiniteSet(Waf) /\ Cardinality(Waf) < IdHalf
             /\ IsFiniteSet(Tx) /\ Cardinality(Tx) < IdHalf

(* The codec by itself, for the inputs of this instance.                   *)
CodecRoundTrips ==
  /\ \A r \in Requests : RequestRoundTrips(r)
  /\ \A h \in Headers : HeadersRoundTrip(h)

(* What an export finds at its arguments is what JavaScript was given, and *)
(* the bundle decodes to the fields of the request, the short ones cut     *)
(* between characters, though the memory may grow under the view at every  *)
(* step and the fields share one scratch buffer.                           *)
EngineGetsWhatWasSent ==
  At("finally", Inspections \cup {"fromAbi"}) =>
    \A i \in DOMAIN call.sent :
      LET b == call.sent[i]
      IN CASE b.what = "bundle" ->
                /\ Fields(call.got[i]) = Clipped(b.data)
                /\ DecodeBundle(call.got[i]).ok
           [] b.what = "headers" ->
                /\ DecodeHeaders(call.got[i]).ok
                /\ DecodeHeaders(call.got[i]).hs =
                     [k \in DOMAIN b.data |-> <<Utf8(b.data[k][1]), Utf8(b.data[k][2])>>]
           [] OTHER -> call.got[i] = Utf8(b.data)

(* A method throws the error of its own export, although last_error() is   *)
(* never cleared, and none when the export raised none.  What              *)
(* interruption() and matchedRules() return comes from the engine          *)
(* transaction of their own handle and is what was asked for, although all *)
(* results pass through one scratch area; and a Transaction that was told  *)
(* of an interruption finds it.                                            *)
AnswersAreOwn ==
  /\ At("finally", Checked) => call.err \in {call.raised, "trap"}
  /\ At("finally", Getters) =>
       /\ call.val # None => call.val = Text(call.op, call.on)
       /\ call.op = "interruption" /\ call.on \in told => call.val # None

(* isRuleEngineOff() lets an adapter skip a request.  It answers yes for   *)
(* want of a transaction only on a handle whose reset() had thrown because *)
(* the WAF was destroyed.                                                  *)
OffIsGenuine ==
  At("finally", {"isRuleEngineOff"}) /\ call.rc = 1 /\ call.on \notin lost
    => Known /\ MyTx.of = call.on
=============================================================================
