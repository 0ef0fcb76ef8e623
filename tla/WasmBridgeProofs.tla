-------------------------- MODULE WasmBridgeProofs ---------------------------
(***************************************************************************)
(* Proofs about one WASM instance and the objects on top of it, for any    *)
(* number of objects, any inputs, any width of the fields and ids and any  *)
(* allocator.                                                              *)
(*                                                                         *)
(* A step belongs to the method that is under way, so each invariant says  *)
(* what that method has to itself meanwhile.  TInv: an object of the kind  *)
(* and in the state its operation needs.  BInv: every pinned buffer that   *)
(* is not a header packet left by an earlier method.  DInv: its inputs,    *)
(* encoded in call, copied in the buffers and then read by the export.     *)
(* NInv: the counters stay below the number of the objects, hence do not   *)
(* wrap.  SInv: each handle its slot, each slot its handle.  AInv: the     *)
(* message in lastErr and the text in scratch that it is about to read.    *)
(*                                                                         *)
(* SInv and AInv need EnoughIds: an instance makes fewer objects in its    *)
(* life than there are positive ids.  Nothing in the code enforces that.   *)
(*                                                                         *)
(* DInv leaves the codec to be proved apart from the steps: what Lies at   *)
(* an offset of a packet is what the cursor of Go reads there, and the     *)
(* cut of truncateUtf8 is found where the characters end (LaidOut).        *)
(***************************************************************************)
EXTENDS WasmBridge, Recursion, FiniteSetTheorems, SequenceTheorems, TLAPS

CallFields == {"step", "op", "on", "sent", "bytes", "ptrs", "got", "rc", "raised",
               "err", "val"}
-----------------------------------------------------------------------------
(* Types.  A method that is under way has an object of the kind and in the *)
(* state its operation needs, which no other method can change meanwhile.  *)
HandleOps == Inspections \cup Predicates \cup Getters \cup {"processLogging", "reset"}

CallTyped ==
  /\ DOMAIN call = CallFields
  /\ call.step \in {"call", "read", "finally"}
  /\ call.step # "finally" => call.err = ""
  /\ call.op \in {"fromAbi", "destroy", "newTransaction", "close"} \cup HandleOps
  /\ call.op = "fromAbi" =>
       call.on \in Waf /\ waf[call.on].state = "none" /\ call.rc \in Ids
  /\ call.op = "destroy" => call.on \in Waf
  /\ call.op = "newTransaction" =>
       /\ call.on \in Tx /\ tx[call.on].state = "none" /\ call.rc \in Ids
       /\ tx[call.on].waf \in Waf
  /\ call.op = "close" => call.on \in Tx /\ tx[call.on].state = "closed"
  /\ call.op \in HandleOps => call.on \in Tx /\ Open(call.on)

TInv == TypeOK /\ (call = Idle \/ CallTyped)

LEMMA WrapIsAnId == \A n \in Int : Wrap(n) \in Ids
BY BridgeAssumption DEF Wrap, Ids

LEMMA SmallDoNotWrap == \A n \in 0..(IdHalf - 1) : Wrap(n) = n
BY BridgeAssumption DEF Wrap

LEMMA SmallAreIds == 0 \in Ids /\ -1 \in Ids /\ Ids \subseteq Int
BY BridgeAssumption DEF Ids

LEMMA RunningIsTyped == TInv /\ call.step # "idle" => CallTyped
BY DEF TInv, Idle

LEMMA FieldsAreNotIdle == \A c : DOMAIN c = CallFields => c # Idle
<1>1. DOMAIN Idle = {"step"} /\ "op" \in CallFields
  BY DEF Idle, CallFields
<1> QED BY <1>1

LEMMA TypedIsNotIdle == CallTyped => call # Idle
BY FieldsAreNotIdle DEF CallTyped

(* What the parts of a method do to call.                                  *)
LEMMA BeginCalls ==
  ASSUME NEW op, NEW on, NEW sent, Begin(op, on, sent)
  PROVE  /\ call = Idle /\ DOMAIN call' = CallFields
         /\ call'.step = "call" /\ call'.op = op /\ call'.on = on /\ call'.sent = sent
         /\ call'.bytes = [i \in DOMAIN sent |-> Bytes(sent[i])]
         /\ call'.ptrs = << >> /\ call'.rc = 0 /\ call'.raised = "" /\ call'.err = ""
         /\ call'.val = None
BY DEF Begin, CallFields

SameCall ==
  /\ DOMAIN call' = CallFields
  /\ call'.op = call.op /\ call'.on = call.on /\ call'.sent = call.sent
  /\ call'.bytes = call.bytes

Continues == SameCall /\ call'.ptrs = call.ptrs

LEMMA AppendCalls ==
  ASSUME CallTyped, NEW p, call' = [call EXCEPT !.ptrs = Append(@, p)]
  PROVE  /\ SameCall /\ call'.ptrs = Append(call.ptrs, p) /\ call'.got = call.got
         /\ call'.step = call.step /\ call'.rc = call.rc /\ call'.raised = call.raised
         /\ call'.err = call.err /\ call'.val = call.val
BY DEF CallTyped, SameCall, CallFields

LEMMA ReturnsCalls ==
  ASSUME CallTyped, NEW rc, Returns(rc)
  PROVE  /\ Continues /\ call'.got = Got /\ call'.rc = rc
         /\ call'.raised = call.raised /\ call'.err = call.err /\ call'.val = call.val
         /\ call'.step = IF (call.op \in Checked /\ rc < 0) \/ (call.op \in Getters /\ rc = 1)
                         THEN "read" ELSE "finally"
BY DEF CallTyped, Returns, Continues, SameCall, CallFields

LEMMA SetErrCalls ==
  ASSUME CallTyped, NEW msg, SetErr(msg)
  PROVE  /\ Continues /\ call'.got = Got /\ call'.rc = -1 /\ call'.step = "read"
         /\ call'.raised = msg /\ call'.err = call.err /\ call'.val = call.val
         /\ lastErr' = msg
BY DEF CallTyped, SetErr, Continues, SameCall, CallFields

LEMMA TrapsCalls ==
  ASSUME CallTyped, Traps
  PROVE  /\ Continues /\ call'.got = Got /\ call'.rc = call.rc /\ call'.step = "finally"
         /\ call'.raised = call.raised /\ call'.err = "trap" /\ call'.val = call.val
BY DEF CallTyped, Traps, Continues, SameCall, CallFields

(* An export leaves call as one of these three does.                       *)
LEMMA ExportCalls ==
  ASSUME CallTyped, Export
  PROVE  /\ call.step = "call" /\ ~Pending /\ alive' = alive /\ UNCHANGED jsVars
         /\ viewLive' \in MayGrow(viewLive)
         /\ \/ \E rc : Returns(rc)
            \/ \E msg : SetErr(msg)
            \/ Traps
<1>1. call.step = "call" /\ ~Pending /\ alive' = alive /\ UNCHANGED jsVars
         /\ viewLive' \in MayGrow(viewLive)
  BY DEF Export, Enters, WafCreate, WafDestroy, TxCreate, TxDestroy, TxReset,
         TxProcess, TxProcessLogging, TxPredicate, TxGet
<1> DEFINE A == (\E rc : Returns(rc)) \/ (\E msg : SetErr(msg)) \/ Traps
<1>2. ASSUME WafCreate PROVE A
  BY <1>2 DEF WafCreate
<1>3. ASSUME WafDestroy PROVE A
  BY <1>3 DEF WafDestroy
<1>4. ASSUME TxCreate PROVE A
  BY <1>4 DEF TxCreate
<1>5. ASSUME TxDestroy PROVE A
  BY <1>5 DEF TxDestroy
<1>6. ASSUME TxReset PROVE A
  BY <1>6 DEF TxReset
<1>7. ASSUME TxProcess PROVE A
  BY <1>7 DEF TxProcess
<1>8. ASSUME TxProcessLogging PROVE A
  BY <1>8 DEF TxProcessLogging
<1>9. ASSUME TxPredicate PROVE A
  BY <1>9 DEF TxPredicate
<1>10. ASSUME TxGet PROVE A
  BY <1>10 DEF TxGet
<1> QED BY <1>1, <1>2, <1>3, <1>4, <1>5, <1>6, <1>7, <1>8, <1>9, <1>10 DEF Export

LEMMA BeginTyped ==
  ASSUME TInv, NEW op, NEW on, NEW sent, Begin(op, on, sent),
         UNCHANGED <<goVars, memVars>>,
         waf' \in [Waf -> [id : Ids, state : {"none", "open", "destroyed", "failed"}]],
         tx' \in [Tx -> [id : Ids, state : {"none", "open", "closed", "failed"},
                         waf : Waf \cup {None}]],
         told' \subseteq Tx, lost' \subseteq Tx, trapped' \subseteq Tx,
         \/ op = "fromAbi" /\ on \in Waf /\ waf'[on].state = "none"
         \/ op = "destroy" /\ on \in Waf
         \/ op = "newTransaction" /\ on \in Tx /\ tx'[on].state = "none" /\ tx'[on].waf \in Waf
         \/ op = "close" /\ on \in Tx /\ tx'[on].state = "closed"
         \/ op \in HandleOps /\ on \in Tx /\ tx'[on].state = "open"
  PROVE  TInv'
<1>1. TypeOK'
  BY BeginCalls DEF TInv, TypeOK, goVars, memVars
<1>2. /\ DOMAIN call' = CallFields /\ call'.step = "call" /\ call'.op = op
      /\ call'.on = on /\ call'.rc \in Ids /\ call'.err = ""
  BY BeginCalls, SmallAreIds
<1>3. CallTyped'
  BY <1>2 DEF CallTyped, HandleOps, Inspections, Predicates, Getters, Open
<1> QED BY <1>1, <1>3 DEF TInv

LEMMA MethodTyped == TInv /\ Method => TInv'
<1> SUFFICES ASSUME TInv, Method PROVE TInv'
  OBVIOUS
<1> USE DEF ghosts
<1>0. /\ waf \in [Waf -> [id : Ids, state : {"none", "open", "destroyed", "failed"}]]
      /\ tx \in [Tx -> [id : Ids, state : {"none", "open", "closed", "failed"},
                        waf : Waf \cup {None}]]
      /\ told \subseteq Tx /\ lost \subseteq Tx /\ trapped \subseteq Tx
  BY DEF TInv, TypeOK
<1>1. ASSUME NEW w \in Waf, FromAbi(w) PROVE TInv'
  <2>1. PICK sent : Begin("fromAbi", w, sent)
    BY <1>1 DEF FromAbi
  <2> QED BY <1>0, <1>1, <2>1, BeginTyped DEF FromAbi, jsVars
<1>2. ASSUME NEW w \in Waf, Destroy(w) PROVE TInv'
  BY <1>0, <1>2, BeginTyped DEF Destroy
<1>3. ASSUME NEW w \in Waf, NEW t \in Tx, NewTransaction(w, t) PROVE TInv'
  BY <1>0, <1>3, BeginTyped DEF NewTransaction
<1>4. ASSUME NEW t \in Tx, Close(t) PROVE TInv'
  BY <1>0, <1>4, BeginTyped DEF Close
<1>5. ASSUME NEW t \in Tx, ProcessRequestBundle(t) \/ Inspect(t) \/ Ask(t) PROVE TInv'
  <2>1. Open(t) /\ UNCHANGED <<goVars, memVars, jsVars, ghosts>>
    BY <1>5 DEF ProcessRequestBundle, Inspect, Ask
  <2>2. PICK op, sent : op \in HandleOps /\ Begin(op, t, sent)
    <3>1. CASE ProcessRequestBundle(t)
      BY <3>1 DEF ProcessRequestBundle, HandleOps, Inspections
    <3>2. CASE Inspect(t)
      BY <3>2 DEF Inspect, HandleOps, Inspections
    <3>3. CASE Ask(t)
      BY <3>3 DEF Ask, HandleOps
    <3> QED BY <1>5, <3>1, <3>2, <3>3
  <2> QED BY <1>0, <2>1, <2>2, BeginTyped DEF jsVars, Open
<1> QED BY <1>1, <1>2, <1>3, <1>4, <1>5 DEF Method

LEMMA UnbornTyped ==
  ASSUME CallTyped, Unborn,
         waf \in [Waf -> [id : Ids, state : {"none", "open", "destroyed", "failed"}]],
         tx \in [Tx -> [id : Ids, state : {"none", "open", "closed", "failed"},
                        waf : Waf \cup {None}]]
  PROVE  /\ waf' \in [Waf -> [id : Ids, state : {"none", "open", "destroyed", "failed"}]]
         /\ tx' \in [Tx -> [id : Ids, state : {"none", "open", "closed", "failed"},
                         waf : Waf \cup {None}]]
<1>1. CASE call.op = "fromAbi"
  <2>1. call.on \in Waf /\ waf' = [waf EXCEPT ![call.on].state = "failed"] /\ tx' = tx
    BY <1>1 DEF Unborn, CallTyped
  <2> QED BY <2>1
<1>2. CASE call.op = "newTransaction"
  <2>1. call.on \in Tx /\ tx' = [tx EXCEPT ![call.on].state = "failed"] /\ waf' = waf
    BY <1>2 DEF Unborn, CallTyped
  <2> QED BY <2>1
<1> QED BY <1>1, <1>2 DEF Unborn, jsVars

LEMMA AllocationTyped == TInv /\ (SkipEmpty \/ Allocate \/ AllocateFails) => TInv'
<1> SUFFICES ASSUME TInv, SkipEmpty \/ Allocate \/ AllocateFails PROVE TInv'
  OBVIOUS
<1>0. CallTyped
  BY RunningIsTyped DEF SkipEmpty, Allocate, AllocateFails, Pending
<1>1. CASE SkipEmpty
  <2>1. SameCall /\ call'.step = call.step /\ call'.rc = call.rc /\ call'.err = call.err
    BY <1>0, <1>1, AppendCalls DEF SkipEmpty
  <2> QED BY <1>0, <1>1, <2>1 DEF SkipEmpty, TInv, TypeOK, CallTyped, Open, SameCall, Continues,
             goVars, memVars, jsVars, ghosts
<1>2. CASE Allocate
  <2>1. SameCall /\ call'.step = call.step /\ call'.rc = call.rc /\ call'.err = call.err
    BY <1>0, <1>2, AppendCalls DEF Allocate
  <2>2. viewLive' \in BOOLEAN /\ DOMAIN alive' \subseteq Ptr
    BY <1>2 DEF Allocate, Refreshed, Put, TInv, TypeOK
  <2> QED BY <1>0, <1>2, <2>1, <2>2 DEF Allocate, TInv, TypeOK, CallTyped, Open, SameCall,
             Continues, goVars, jsVars, ghosts
<1>3. CASE AllocateFails
  <2>1. /\ waf' \in [Waf -> [id : Ids, state : {"none", "open", "destroyed", "failed"}]]
        /\ tx' \in [Tx -> [id : Ids, state : {"none", "open", "closed", "failed"},
                        waf : Waf \cup {None}]]
    BY <1>0, <1>3, UnbornTyped DEF TInv, TypeOK, AllocateFails
  <2> QED BY <1>3, <2>1 DEF AllocateFails, TInv, TypeOK, goVars, memVars, ghosts, Idle
<1> QED BY <1>1, <1>2, <1>3

(* What the end of a method records in its object, and in no other.        *)
SettlesWafs ==
  \A w \in Waf :
    IF call.op = "fromAbi" /\ call.on = w
    THEN IF call.err = "" THEN waf'[w].id = call.rc /\ waf'[w].state = "open"
         ELSE waf'[w].id = waf[w].id /\ waf'[w].state = "failed"
    ELSE waf'[w] = waf[w]
SettlesTxs ==
  \A t \in Tx :
    IF call.op = "newTransaction" /\ call.on = t
    THEN /\ tx'[t].waf = tx[t].waf
         /\ IF call.err = "" THEN tx'[t].id = call.rc /\ tx'[t].state = "open"
            ELSE tx'[t].id = tx[t].id /\ tx'[t].state = "failed"
    ELSE tx'[t] = tx[t]

LEMMA SettleSettles ==
  ASSUME TInv, CallTyped, Settle
  PROVE  SettlesWafs /\ SettlesTxs
<1>a. /\ waf \in [Waf -> [id : Ids, state : {"none", "open", "destroyed", "failed"}]]
      /\ tx \in [Tx -> [id : Ids, state : {"none", "open", "closed", "failed"},
                        waf : Waf \cup {None}]]
  BY DEF TInv, TypeOK
<1>1. CASE call.op = "fromAbi"
  <2>1. call.on \in Waf /\ tx' = tx
    BY <1>1 DEF CallTyped, Settle, Unborn
  <2>2. waf' = IF call.err = "" THEN [waf EXCEPT ![call.on] = [id |-> call.rc, state |-> "open"]]
               ELSE [waf EXCEPT ![call.on].state = "failed"]
    BY <1>1 DEF Settle, Unborn
  <2> QED BY <1>a, <1>1, <2>1, <2>2 DEF SettlesWafs, SettlesTxs
<1>2. CASE call.op = "newTransaction"
  <2>1. call.on \in Tx /\ waf' = waf
    BY <1>2 DEF CallTyped, Settle, Unborn
  <2>2. tx' = IF call.err = ""
              THEN [tx EXCEPT ![call.on].id = call.rc, ![call.on].state = "open"]
              ELSE [tx EXCEPT ![call.on].state = "failed"]
    BY <1>2 DEF Settle, Unborn
  <2>3. CASE call.err = ""
    BY <1>a, <1>2, <2>1, <2>2, <2>3 DEF SettlesWafs, SettlesTxs
  <2>4. CASE call.err # ""
    BY <1>a, <1>2, <2>1, <2>2, <2>4 DEF SettlesWafs, SettlesTxs
  <2> QED BY <2>3, <2>4
<1>3. CASE call.op \notin {"fromAbi", "newTransaction"}
  BY <1>3 DEF Settle, Unborn, jsVars, SettlesWafs, SettlesTxs
<1> QED BY <1>1, <1>2, <1>3

LEMMA SettleTyped == TInv /\ Settle => TInv'
<1> SUFFICES ASSUME TInv, Settle PROVE TInv'
  OBVIOUS
<1>0. CallTyped
  BY RunningIsTyped DEF Settle
<1> DEFINE Wafs == [Waf -> [id : Ids, state : {"none", "open", "destroyed", "failed"}]]
           Txs == [Tx -> [id : Ids, state : {"none", "open", "closed", "failed"},
                          waf : Waf \cup {None}]]
<1>a. waf \in Wafs /\ tx \in Txs
  BY DEF TInv, TypeOK
<1>1. waf' \in Wafs /\ tx' \in Txs
  <2>1. CASE call.err # ""
    <3>1. Unborn
      BY <2>1 DEF Settle
    <3> QED BY <1>0, <1>a, <3>1, UnbornTyped
  <2>2. CASE call.err = "" /\ call.op = "fromAbi"
    <3>1. call.on \in Waf /\ call.rc \in Ids
      BY <1>0, <2>2 DEF CallTyped
    <3>2. waf' = [waf EXCEPT ![call.on] = [id |-> call.rc, state |-> "open"]] /\ tx' = tx
      BY <2>2 DEF Settle
    <3> QED BY <1>a, <3>1, <3>2
  <2>3. CASE call.err = "" /\ call.op = "newTransaction"
    <3>1. call.on \in Tx /\ call.rc \in Ids
      BY <1>0, <2>3 DEF CallTyped
    <3>2. /\ tx' = [tx EXCEPT ![call.on].id = call.rc, ![call.on].state = "open"]
          /\ waf' = waf
      BY <2>3 DEF Settle
    <3> QED BY <1>a, <3>1, <3>2
  <2> QED BY <1>a, <2>1, <2>2, <2>3 DEF Settle, jsVars
<1>2. told' \subseteq Tx
  BY <1>0 DEF TInv, TypeOK, Settle, CallTyped, HandleOps
<1>3. DOMAIN alive' \subseteq Ptr
  BY DEF TInv, TypeOK, Settle, Freed, Without
<1> QED BY <1>1, <1>2, <1>3 DEF TInv, TypeOK, Settle, goVars, Idle

LEMMA AnswerTyped == TInv /\ (CheckThrows \/ ReadResult) => TInv'
<1> SUFFICES ASSUME TInv, CheckThrows \/ ReadResult PROVE TInv'
  OBVIOUS
<1>0. CallTyped
  BY RunningIsTyped DEF CheckThrows, ReadResult
<1>1. Continues /\ call'.step = "finally" /\ call'.rc = call.rc
  BY <1>0 DEF CheckThrows, ReadResult, CallTyped, Continues, SameCall, CallFields
<1>2. /\ viewLive' \in BOOLEAN
      /\ UNCHANGED <<wafs, txs, txOwner, wafNextID, txNextID, onHeap, alive, jsVars, ghosts>>
  BY DEF CheckThrows, ReadResult, Refreshed, goVars
<1> QED BY <1>0, <1>1, <1>2 DEF TInv, TypeOK, CallTyped, Open, SameCall, Continues, jsVars, ghosts

(* The registries of Go.                                                   *)
RegistriesTyped ==
  /\ wafs \subseteq Ids /\ wafNextID \in Ids /\ txNextID \in Ids
  /\ DOMAIN txs \subseteq Ids /\ DOMAIN txOwner = DOMAIN txs
  /\ \A i \in DOMAIN txs :
       /\ txs[i] \in [of : Tx, waf : Ids, hit : BOOLEAN, closed : BOOLEAN]
       /\ txOwner[i] \in Ids
  /\ onHeap \in BOOLEAN
  /\ told \subseteq Tx /\ lost \subseteq Tx /\ trapped \subseteq Tx

LEMMA TypesOfRegistries == TInv => RegistriesTyped
BY DEF TInv, TypeOK, RegistriesTyped

LEMMA ExportTyped ==
  ASSUME TInv, CallTyped, Export, RegistriesTyped',
         call.op \in {"fromAbi", "newTransaction"} => call'.rc \in Ids
  PROVE  TInv'
<1>1. /\ Continues /\ call'.step \in {"read", "finally"}
      /\ call'.step = "read" => call'.err = call.err
  BY ExportCalls, ReturnsCalls, SetErrCalls, TrapsCalls
<1>2. alive' = alive /\ UNCHANGED jsVars /\ viewLive' \in BOOLEAN
  BY ExportCalls DEF MayGrow, TInv, TypeOK
<1>3. CallTyped'
  BY <1>1, <1>2, ExportCalls DEF CallTyped, Continues, SameCall, Open, jsVars
<1>4. TypeOK'
  BY <1>1, <1>2 DEF TInv, TypeOK, RegistriesTyped, jsVars
<1> QED BY <1>3, <1>4 DEF TInv

LEMMA ReleaseTyped ==
  ASSUME RegistriesTyped, NEW id, Release(id)
  PROVE  /\ DOMAIN txs' \subseteq Ids /\ DOMAIN txOwner' = DOMAIN txs'
         /\ \A i \in DOMAIN txs' :
              /\ txs'[i] \in [of : Tx, waf : Ids, hit : BOOLEAN, closed : BOOLEAN]
              /\ txOwner'[i] \in Ids
<1>1. /\ txs' = [x \in DOMAIN txs \ {id} |-> txs[x]]
      /\ txOwner' = [x \in DOMAIN txOwner \ {id} |-> txOwner[x]]
  BY DEF Release, Owners, Drop
<1> QED BY <1>1 DEF RegistriesTyped

LEMMA SlotTyped ==
  ASSUME RegistriesTyped, NEW id \in Ids, NEW o, NEW w \in Ids,
         o \in [of : Tx, waf : Ids, hit : BOOLEAN, closed : BOOLEAN],
         txs' = Put(txs, id, o),
         txOwner' = Put(txOwner, id, w) \/ (txOwner' = txOwner /\ id \in DOMAIN txs)
  PROVE  /\ DOMAIN txs' \subseteq Ids /\ DOMAIN txOwner' = DOMAIN txs'
         /\ \A i \in DOMAIN txs' :
              /\ txs'[i] \in [of : Tx, waf : Ids, hit : BOOLEAN, closed : BOOLEAN]
              /\ txOwner'[i] \in Ids
BY DEF RegistriesTyped, Put

LEMMA FreshTyped == \A t \in Tx, w \in Ids :
  Fresh(t, w) \in [of : Tx, waf : Ids, hit : BOOLEAN, closed : BOOLEAN]
BY DEF Fresh

LEMMA ExportsTyped == TInv /\ Export => TInv'
<1> SUFFICES ASSUME TInv, Export PROVE TInv'
  OBVIOUS
<1>0. CallTyped /\ RegistriesTyped
  BY RunningIsTyped, TypesOfRegistries DEF Export, Enters, WafCreate, WafDestroy, TxCreate,
     TxDestroy, TxReset, TxProcess, TxProcessLogging, TxPredicate, TxGet
<1>1. CASE WafCreate
  <2>1. Wrap(wafNextID + 1) \in Ids
    BY <1>0, WrapIsAnId, SmallAreIds DEF RegistriesTyped
  <2>2. RegistriesTyped'
    BY <1>0, <1>1, <2>1 DEF WafCreate, RegistriesTyped, ghosts
  <2>3. call'.rc \in Ids
    <3>1. call.rc \in Ids
      BY <1>0, <1>1 DEF CallTyped, WafCreate, Enters
    <3> QED BY <1>0, <1>1, <2>1, <3>1, SmallAreIds, ReturnsCalls, SetErrCalls, TrapsCalls
            DEF WafCreate
  <2> QED BY <1>0, <2>2, <2>3, ExportTyped
<1>2. CASE WafDestroy
  <2>1. RegistriesTyped'
    BY <1>0, <1>2 DEF WafDestroy, RegistriesTyped, ghosts
  <2> QED BY <1>0, <1>2, <2>1, ExportTyped DEF WafDestroy, Enters
<1>3. CASE TxCreate
  <2> DEFINE w == waf[tx[call.on].waf].id
             id == Wrap(txNextID + 1)
  <2>1. id \in Ids
    BY <1>0, WrapIsAnId, SmallAreIds DEF RegistriesTyped
  <2>2. call.on \in Tx /\ call.rc \in Ids
    BY <1>0, <1>3 DEF CallTyped, TxCreate, Enters
  <2>3. CASE w \notin wafs
    <3>1. SetErr("unknown waf id") /\ UNCHANGED <<txs, txOwner, txNextID, wafs, wafNextID, onHeap, ghosts>>
      BY <1>3, <2>3 DEF TxCreate
    <3>2. RegistriesTyped' /\ call'.rc \in Ids
      BY <1>0, <3>1, SmallAreIds, SetErrCalls DEF RegistriesTyped, ghosts
    <3> QED BY <1>0, <3>2, ExportTyped
  <2>4. CASE w \in wafs
    <3>0. w \in Ids
      BY <1>0, <2>4 DEF RegistriesTyped
    <3> HIDE DEF w, id
    <3>1. /\ txNextID' = id
          /\ \/ txs' = Put(txs, id, Fresh(call.on, w)) /\ txOwner' = Put(txOwner, id, w) /\ Returns(id)
             \/ Traps /\ UNCHANGED <<txs, txOwner>>
          /\ UNCHANGED <<wafs, wafNextID, onHeap, ghosts>>
      BY <1>3, <2>4 DEF TxCreate, w, id
    <3>2. call'.rc \in Ids
      BY <1>0, <2>1, <2>2, <3>1, ReturnsCalls, TrapsCalls
    <3>3. RegistriesTyped'
      <4>1. CASE txs' = Put(txs, id, Fresh(call.on, w)) /\ txOwner' = Put(txOwner, id, w)
        BY <1>0, <2>1, <2>2, <3>0, <3>1, <4>1, SlotTyped, FreshTyped DEF RegistriesTyped, ghosts
      <4>2. CASE UNCHANGED <<txs, txOwner>>
        BY <1>0, <2>1, <3>1, <4>2 DEF RegistriesTyped, ghosts
      <4> QED BY <3>1, <4>1, <4>2
    <3> QED BY <1>0, <3>2, <3>3, ExportTyped
  <2> QED BY <2>3, <2>4
<1>4. CASE TxDestroy
  <2>0. call.op = "close" /\ call.on \in Tx
    BY <1>0, <1>4 DEF CallTyped, TxDestroy, Enters
  <2>1. RegistriesTyped'
    BY <1>0, <1>4, <2>0, ReleaseTyped DEF TxDestroy, RegistriesTyped
  <2> QED BY <1>0, <2>0, <2>1, ExportTyped
<1>5. CASE TxReset
  <2>0. call.op = "reset" /\ call.on \in Tx
    BY <1>0, <1>5 DEF CallTyped, TxReset, Enters, HandleOps
  <2>1. UNCHANGED <<wafs, wafNextID, txNextID, onHeap>>
    BY <1>5 DEF TxReset
  <2>2. CASE UNCHANGED <<txs, txOwner, told, lost, trapped>>
    BY <1>0, <2>0, <2>1, <2>2, ExportTyped DEF RegistriesTyped
  <2>3. CASE /\ Release(MyId) /\ told' = told \ {call.on} /\ lost' = lost \cup {call.on}
             /\ UNCHANGED trapped
    <3>1. RegistriesTyped'
      BY <1>0, <2>0, <2>1, <2>3, ReleaseTyped DEF RegistriesTyped
    <3> QED BY <1>0, <2>0, <3>1, ExportTyped
  <2>4. CASE /\ Known /\ txs' = Put(txs, MyId, Replacement)
             /\ told' = told \ {call.on} /\ UNCHANGED <<txOwner, lost, trapped>>
    <3>1. MyId \in DOMAIN txs /\ MyId \in Ids /\ txOwner[MyId] \in Ids
      BY <1>0, <2>4 DEF Known, RegistriesTyped
    <3>2. RegistriesTyped'
      BY <1>0, <2>0, <2>1, <2>4, <3>1, SlotTyped, FreshTyped DEF RegistriesTyped, Replacement
    <3> QED BY <1>0, <2>0, <3>2, ExportTyped
  <2>5. CASE /\ Known /\ txs' \in HalfReset /\ trapped' = trapped \cup {call.on}
             /\ UNCHANGED <<txOwner, told, lost>>
    <3>1. RegistriesTyped'
      <4>1. CASE txs' = txs
        BY <1>0, <2>0, <2>1, <2>5, <4>1 DEF RegistriesTyped
      <4>2. CASE txs' = [txs EXCEPT ![MyId].closed = TRUE]
        <5>1. /\ DOMAIN txs' = DOMAIN txs
              /\ \A i \in DOMAIN txs :
                   txs'[i] \in [of : Tx, waf : Ids, hit : BOOLEAN, closed : BOOLEAN]
          BY <1>0, <4>2 DEF RegistriesTyped
        <5> QED BY <1>0, <2>0, <2>1, <2>5, <5>1 DEF RegistriesTyped
      <4> QED BY <2>5, <4>1, <4>2 DEF HalfReset
    <3> QED BY <1>0, <2>0, <3>1, ExportTyped
  <2> QED BY <1>5, <2>2, <2>3, <2>4, <2>5 DEF TxReset
<1>6. CASE TxProcess
  <2>0. call.op \in Inspections
    BY <1>6 DEF TxProcess, Enters
  <2>1. UNCHANGED <<wafs, txOwner, wafNextID, txNextID, onHeap, ghosts>>
    BY <1>6 DEF TxProcess
  <2>2. CASE UNCHANGED txs
    BY <1>0, <2>0, <2>1, <2>2, ExportTyped DEF RegistriesTyped, ghosts, Inspections
  <2>3. CASE Refusal = "" /\ \E o \in Advanced(MyTx) : txs' = [txs EXCEPT ![MyId] = o]
    <3>1. PICK o \in Advanced(MyTx) : txs' = [txs EXCEPT ![MyId] = o]
      BY <2>3
    <3>2. MyId \in DOMAIN txs
      BY <2>3 DEF Refusal, Known
    <3>3. o \in [of : Tx, waf : Ids, hit : BOOLEAN, closed : BOOLEAN]
      BY <1>0, <3>1, <3>2 DEF Advanced, MyTx, RegistriesTyped
    <3>4. RegistriesTyped'
      BY <1>0, <2>1, <3>1, <3>2, <3>3 DEF RegistriesTyped, ghosts
    <3> QED BY <1>0, <2>0, <3>4, ExportTyped DEF Inspections
  <2> QED BY <1>6, <2>2, <2>3 DEF TxProcess
<1>7. CASE TxProcessLogging \/ TxPredicate
  <2>1. UNCHANGED <<wafs, txs, txOwner, wafNextID, txNextID, onHeap, ghosts>>
    BY <1>7 DEF TxProcessLogging, TxPredicate, goVars
  <2>2. RegistriesTyped' /\ call.op \in Predicates \cup {"processLogging"}
    BY <1>0, <1>7, <2>1 DEF RegistriesTyped, ghosts, TxProcessLogging, TxPredicate, Enters
  <2> QED BY <1>0, <2>2, ExportTyped DEF Predicates
<1>8. CASE TxGet
  <2>1. UNCHANGED <<wafs, txs, txOwner, wafNextID, txNextID, ghosts>> /\ onHeap' \in BOOLEAN
    BY <1>0, <1>8 DEF TxGet, RegistriesTyped
  <2>2. RegistriesTyped' /\ call.op \in Getters
    BY <1>0, <1>8, <2>1 DEF RegistriesTyped, ghosts, TxGet, Enters
  <2> QED BY <1>0, <2>2, ExportTyped DEF Getters
<1> QED BY <1>1, <1>2, <1>3, <1>4, <1>5, <1>6, <1>7, <1>8 DEF Export

LEMMA StepTyped == TInv /\ [Next]_vars => TInv'
<1>1. TInv /\ UNCHANGED vars => TInv'
  BY DEF vars, goVars, memVars, jsVars, ghosts, TInv, TypeOK, CallTyped, Open
<1> QED BY <1>1, MethodTyped, AllocationTyped, ExportsTyped, AnswerTyped, SettleTyped DEF Next

LEMMA InitTyped == Init => TInv
<1> SUFFICES ASSUME Init PROVE TypeOK /\ call = Idle
  BY DEF TInv
<1>1. DOMAIN txs = {} /\ DOMAIN txOwner = {} /\ DOMAIN alive = {}
  <2>1. txs = << >> /\ txOwner = << >> /\ alive = << >>
    BY DEF Init
  <2> QED BY <2>1
<1>a. call = Idle /\ call.step = "idle"
  BY DEF Init, Idle
<1>2. /\ waf \in [Waf -> [id : Ids, state : {"none", "open", "destroyed", "failed"}]]
      /\ tx \in [Tx -> [id : Ids, state : {"none", "open", "closed", "failed"},
                      waf : Waf \cup {None}]]
  BY SmallAreIds DEF Init
<1>3. RegistriesTyped
  BY <1>1, SmallAreIds DEF Init, RegistriesTyped
<1> QED BY <1>1, <1>a, <1>2, <1>3 DEF Init, TypeOK, RegistriesTyped

(* Types: the registries, the objects and the method under way keep values *)
(* of their kinds, and the two registries of Go keep the same ids.         *)
THEOREM TypesHold == Spec => []TypeOK
<1>1. Init => TInv
  BY InitTyped
<1>2. TInv => TypeOK
  BY DEF TInv
<1> QED BY <1>1, <1>2, StepTyped, PTL DEF Spec

-----------------------------------------------------------------------------
(* The buffers.                                                            *)
IsHeaders(p) == alive[p].what = "headers"

(* The inputs of a method, and the buffers it has for the first of them.   *)
InputsFit(sent) == /\ DOMAIN sent = 1..Len(sent)
                   /\ Len(sent) \in 0..2
                   /\ Len(sent) = 2 => sent[1].what = "headers"

BuffersFit ==
  /\ DOMAIN call = CallFields
  /\ InputsFit(call.sent)
  /\ call.ptrs \in Seq(Ptr \cup {None})
  /\ Len(call.ptrs) <= Len(call.sent)
  /\ \A i \in 1..Len(call.ptrs) :
       call.ptrs[i] # None => /\ call.ptrs[i] \in DOMAIN alive
                              /\ alive[call.ptrs[i]].what = call.sent[i].what
  /\ \A p \in DOMAIN alive :
       IsHeaders(p) \/ \E i \in 1..Len(call.ptrs) : p = call.ptrs[i]

BInv == /\ None \notin DOMAIN alive
        /\ \/ call = Idle /\ \A p \in DOMAIN alive : IsHeaders(p)
           \/ BuffersFit

-----------------------------------------------------------------------------
LEMMA BusyIsNotIdle == BuffersFit => call # Idle
BY DEF BuffersFit, Idle, CallFields

LEMMA RunningFits == BInv /\ call.step # "idle" => BuffersFit
BY DEF BInv, Idle

(* A method begins with no buffer of its own.                              *)
LEMMA BeginFits ==
  ASSUME NEW op, NEW on, NEW sent,
         BInv, Begin(op, on, sent), InputsFit(sent), alive' = alive
  PROVE  BInv'
<1>1. call = Idle /\ \A p \in DOMAIN alive : IsHeaders(p)
  BY BusyIsNotIdle DEF BInv, Begin
<1>2. /\ DOMAIN call' = CallFields /\ call'.sent = sent /\ call'.ptrs = << >>
  BY DEF Begin, CallFields
<1>3. BuffersFit'
  BY <1>1, <1>2 DEF BuffersFit, InputsFit, IsHeaders
<1> QED BY <1>3 DEF BInv

(* An export, or the reading of its result, keeps pointers and buffers.    *)
Keeps == /\ call # Idle
         /\ DOMAIN call' = DOMAIN call
         /\ call'.sent = call.sent /\ call'.ptrs = call.ptrs
         /\ alive' = alive

LEMMA KeepsFits == BInv /\ Keeps => BInv'
BY DEF BInv, Keeps, BuffersFit, InputsFit, IsHeaders

LEMMA ExportKeeps == BInv /\ Export => Keeps
<1> SUFFICES ASSUME BInv, Export PROVE Keeps
  OBVIOUS
<1>1. call.step = "call" /\ alive' = alive
  BY DEF Export, Enters, WafCreate, WafDestroy, TxCreate, TxDestroy, TxReset,
         TxProcess, TxProcessLogging, TxPredicate, TxGet
<1>2. BuffersFit
  BY <1>1 DEF BInv, Idle
<1>3. ASSUME NEW rc, Returns(rc) PROVE Keeps
  BY <1>1, <1>2, <1>3, BusyIsNotIdle DEF Returns, Keeps, BuffersFit, CallFields
<1>4. ASSUME NEW msg, SetErr(msg) PROVE Keeps
  BY <1>1, <1>2, <1>4, BusyIsNotIdle DEF SetErr, Keeps, BuffersFit, CallFields
<1>5. ASSUME Traps PROVE Keeps
  BY <1>1, <1>2, <1>5, BusyIsNotIdle DEF Traps, Keeps, BuffersFit, CallFields
<1>6. CASE WafCreate
  BY <1>3, <1>4, <1>5, <1>6 DEF WafCreate
<1>7. CASE WafDestroy
  BY <1>3, <1>7 DEF WafDestroy
<1>8. CASE TxCreate
  BY <1>3, <1>4, <1>5, <1>8 DEF TxCreate
<1>9. CASE TxDestroy
  BY <1>3, <1>5, <1>9 DEF TxDestroy
<1>10. CASE TxReset
  BY <1>3, <1>4, <1>5, <1>10 DEF TxReset
<1>11. CASE TxProcess
  BY <1>3, <1>4, <1>5, <1>11 DEF TxProcess
<1>12. CASE TxProcessLogging
  BY <1>3, <1>4, <1>5, <1>12 DEF TxProcessLogging
<1>13. CASE TxPredicate
  BY <1>3, <1>13 DEF TxPredicate
<1>14. CASE TxGet
  BY <1>3, <1>14 DEF TxGet
<1> QED BY <1>6, <1>7, <1>8, <1>9, <1>10, <1>11, <1>12, <1>13, <1>14 DEF Export

(* A buffer is entered under a free address, for the next input.           *)
LEMMA AllocateFits == BInv /\ Allocate => BInv'
<1> SUFFICES ASSUME BInv, Allocate PROVE BInv'
  OBVIOUS
<1>1. BuffersFit
  BY RunningFits DEF Allocate, Pending
<1> DEFINE n == Len(call.ptrs) + 1
<1>2. PICK p \in Ptr \ DOMAIN alive :
        /\ \E data : alive' = Put(alive, p, Buf(call.sent[n].what, data))
        /\ call' = [call EXCEPT !.ptrs = Append(@, p)]
  BY DEF Allocate
<1>3. /\ DOMAIN call' = CallFields /\ call'.sent = call.sent
      /\ call'.ptrs = Append(call.ptrs, p)
  BY <1>1, <1>2 DEF BuffersFit, CallFields
<1>4. /\ call.ptrs \in Seq(Ptr \cup {None}) /\ p \in Ptr \cup {None}
      /\ Len(call.ptrs) < Len(call.sent) /\ Len(call.sent) \in 0..2
  BY <1>1 DEF BuffersFit, InputsFit, Allocate, Pending
<1>5. /\ call'.ptrs \in Seq(Ptr \cup {None}) /\ Len(call'.ptrs) = n
      /\ n <= Len(call.sent) /\ n \in Nat
      /\ call'.ptrs[n] = p
      /\ \A i \in 1..Len(call.ptrs) : call'.ptrs[i] = call.ptrs[i]
      /\ \A i \in 1..n : i = n \/ i \in 1..Len(call.ptrs)
  BY <1>3, <1>4
<1>6. /\ DOMAIN alive' = DOMAIN alive \cup {p}
      /\ alive'[p].what = call.sent[n].what
      /\ \A q \in DOMAIN alive : alive'[q] = alive[q]
  BY <1>2 DEF Put, Buf
<1>7. \A i \in 1..n : call'.ptrs[i] # None =>
        /\ call'.ptrs[i] \in DOMAIN alive'
        /\ alive'[call'.ptrs[i]].what = call.sent[i].what
  <2> SUFFICES ASSUME NEW i \in 1..n, call'.ptrs[i] # None
               PROVE  /\ call'.ptrs[i] \in DOMAIN alive'
                      /\ alive'[call'.ptrs[i]].what = call.sent[i].what
    OBVIOUS
  <2>1. CASE i = n
    BY <2>1, <1>5, <1>6
  <2>2. CASE i \in 1..Len(call.ptrs)
    BY <2>2, <1>1, <1>5, <1>6 DEF BuffersFit
  <2> QED BY <2>1, <2>2, <1>5
<1>8. \A q \in DOMAIN alive' :
        (IsHeaders(q))' \/ \E i \in 1..n : q = call'.ptrs[i]
  <2> SUFFICES ASSUME NEW q \in DOMAIN alive'
               PROVE  (IsHeaders(q))' \/ \E i \in 1..n : q = call'.ptrs[i]
    OBVIOUS
  <2>1. CASE q = p
    BY <2>1, <1>4, <1>5
  <2>2. CASE q \in DOMAIN alive
    BY <2>2, <1>1, <1>4, <1>5, <1>6 DEF BuffersFit, IsHeaders
  <2> QED BY <2>1, <2>2, <1>6
<1>9. BuffersFit'
  BY <1>1, <1>3, <1>5, <1>7, <1>8 DEF BuffersFit
<1>10. None \notin DOMAIN alive'
  BY <1>2, <1>6, BridgeAssumption DEF BInv
<1> QED BY <1>9, <1>10 DEF BInv

(* An empty input takes no buffer.                                         *)
LEMMA SkipEmptyFits == BInv /\ SkipEmpty => BInv'
<1> SUFFICES ASSUME BInv, SkipEmpty PROVE BInv'
  OBVIOUS
<1>1. BuffersFit
  BY RunningFits DEF SkipEmpty, Pending
<1> DEFINE n == Len(call.ptrs) + 1
<1>2. /\ DOMAIN call' = CallFields /\ call'.sent = call.sent
      /\ call'.ptrs = Append(call.ptrs, None) /\ alive' = alive
  BY <1>1 DEF BuffersFit, CallFields, SkipEmpty, memVars
<1>3. /\ call.ptrs \in Seq(Ptr \cup {None}) /\ None \in Ptr \cup {None}
      /\ Len(call.ptrs) < Len(call.sent) /\ Len(call.sent) \in 0..2
  BY <1>1 DEF BuffersFit, InputsFit, SkipEmpty, Pending
<1>4. /\ call'.ptrs \in Seq(Ptr \cup {None}) /\ Len(call'.ptrs) = n
      /\ n <= Len(call.sent)
      /\ call'.ptrs[n] = None
      /\ \A i \in 1..Len(call.ptrs) : call'.ptrs[i] = call.ptrs[i]
      /\ \A i \in 1..n : i = n \/ i \in 1..Len(call.ptrs)
      /\ \A i \in 1..Len(call.ptrs) : i \in 1..n
  BY <1>2, <1>3
<1> QED BY <1>1, <1>2, <1>4 DEF BInv, BuffersFit, InputsFit, IsHeaders

(* When an allocation fails, at most the first of two was made.            *)
LEMMA AllocateFailsFits == BInv /\ AllocateFails => BInv'
<1> SUFFICES ASSUME BInv, AllocateFails PROVE \A p \in DOMAIN alive : IsHeaders(p)
  BY DEF BInv, AllocateFails, IsHeaders, memVars
<1>1. BuffersFit /\ Len(call.ptrs) < Len(call.sent)
  BY RunningFits DEF AllocateFails, Pending
<1>2. TAKE p \in DOMAIN alive
<1>3. ASSUME NEW i \in 1..Len(call.ptrs), p = call.ptrs[i] PROVE IsHeaders(p)
  <2>1. i = 1 /\ Len(call.sent) = 2
    <3>1. Len(call.ptrs) \in Nat /\ Len(call.sent) \in 0..2
      BY <1>1 DEF BuffersFit, InputsFit
    <3>2. \A a \in Nat, b \in 0..2, j \in Nat : 1 <= j /\ j <= a /\ a < b => j = 1 /\ b = 2
      OBVIOUS
    <3>3. i \in Nat /\ 1 <= i /\ i <= Len(call.ptrs)
      BY <3>1
    <3> QED BY ONLY <3>1, <3>2, <3>3, <1>1
  <2>2. p # None => alive[p].what = call.sent[1].what
    BY <2>1, <1>1, <1>3 DEF BuffersFit
  <2>3. p # None
    BY DEF BInv
  <2> QED BY <2>1, <2>2, <2>3, <1>1 DEF BuffersFit, InputsFit, IsHeaders
<1> QED BY <1>1, <1>3 DEF BuffersFit

(* The end of a method frees every buffer it names.                        *)
LEMMA SettleFits == BInv /\ Settle => BInv'
<1> SUFFICES ASSUME BInv, Settle PROVE BInv'
  OBVIOUS
<1>1. BuffersFit
  BY RunningFits DEF Settle
<1>2. call' = Idle /\ alive' = [p \in DOMAIN alive \ {call.ptrs[i] : i \in DOMAIN call.ptrs} |-> alive[p]]
  BY DEF Settle, Freed, Without
<1>3. DOMAIN call.ptrs = 1..Len(call.ptrs)
  BY <1>1 DEF BuffersFit
<1> QED BY <1>1, <1>2, <1>3 DEF BInv, BuffersFit, IsHeaders

-----------------------------------------------------------------------------
LEMMA StepKeepsBInv == BInv /\ [Next]_vars => BInv'
<1> SUFFICES ASSUME BInv, [Next]_vars PROVE BInv'
  OBVIOUS
<1>1. ASSUME NEW w \in Waf, FromAbi(w) PROVE BInv'
  BY <1>1, BeginFits DEF FromAbi, InputsFit, memVars
<1>2. ASSUME NEW w \in Waf, Destroy(w) PROVE BInv'
  BY <1>2, BeginFits DEF Destroy, InputsFit, memVars
<1>3. ASSUME NEW w \in Waf, NEW t \in Tx, NewTransaction(w, t) PROVE BInv'
  BY <1>3, BeginFits DEF NewTransaction, InputsFit, memVars
<1>4. ASSUME NEW t \in Tx, Close(t) PROVE BInv'
  BY <1>4, BeginFits DEF Close, InputsFit, memVars
<1>5. ASSUME NEW t \in Tx, ProcessRequestBundle(t) PROVE BInv'
  BY <1>5, BeginFits DEF ProcessRequestBundle, InputsFit, memVars
<1>6. ASSUME NEW t \in Tx, Inspect(t) PROVE BInv'
  <2>1. alive' = alive
    BY <1>6 DEF Inspect, memVars
  <2>2. InputsFit(<< >>) /\ (\A x : InputsFit(<<x>>))
    BY DEF InputsFit
  <2>3. \A x, h : InputsFit(<<Buf("headers", h), x>>)
    BY DEF InputsFit, Buf
  <2>4. CASE \E p \in Payloads, h \in Headers :
               Begin("processResponse", t, <<Buf("headers", h), Buf("proto", p)>>)
    BY <2>1, <2>3, <2>4, BeginFits
  <2>5. CASE \E p \in Payloads : Begin("processConnection", t, <<Buf("addr", p)>>)
    BY <2>1, <2>2, <2>5, BeginFits
  <2>6. CASE \E p \in Payloads :
               Begin("processResponseBody", t, IF p = << >> THEN << >> ELSE <<Buf("body", p)>>)
    BY <2>1, <2>2, <2>6, BeginFits
  <2>7. CASE \E p \in Payloads \ {<< >>} : Begin("appendBody", t, <<Buf("chunk", p)>>)
    BY <2>1, <2>2, <2>7, BeginFits
  <2>8. CASE Begin("finishBody", t, << >>)
    BY <2>1, <2>2, <2>8, BeginFits
  <2> QED BY <1>6, <2>4, <2>5, <2>6, <2>7, <2>8 DEF Inspect
<1>7. ASSUME NEW t \in Tx, Ask(t) PROVE BInv'
  BY <1>7, BeginFits DEF Ask, InputsFit, memVars
<1>8. CASE CheckThrows
  <2>1. BuffersFit
    BY <1>8, RunningFits DEF CheckThrows
  <2>2. Keeps
    BY <1>8, <2>1, BusyIsNotIdle DEF CheckThrows, Keeps, BuffersFit, CallFields
  <2> QED BY <2>2, KeepsFits
<1>9. CASE ReadResult
  <2>1. BuffersFit
    BY <1>9, RunningFits DEF ReadResult
  <2>2. Keeps
    BY <1>9, <2>1, BusyIsNotIdle DEF ReadResult, Keeps, BuffersFit, CallFields
  <2> QED BY <2>2, KeepsFits
<1>10. CASE UNCHANGED vars
  BY <1>10 DEF vars, memVars, BInv, BuffersFit, InputsFit, IsHeaders
<1> QED
  BY <1>1, <1>2, <1>3, <1>4, <1>5, <1>6, <1>7, <1>8, <1>9, <1>10, SkipEmptyFits,
     AllocateFits, AllocateFailsFits, ExportKeeps, KeepsFits, SettleFits
     DEF Next, Method

LEMMA InitFits == Init => BInv
<1> SUFFICES ASSUME alive = << >>, call = Idle PROVE BInv
  BY DEF Init
<1>1. DOMAIN alive = {}
  OBVIOUS
<1> QED BY <1>1 DEF BInv

(* Buffers: whatever is allocated, grows, fails or traps, a method frees   *)
(* the buffers it was lent, but for header packets of processResponse().   *)
THEOREM BuffersAreAlwaysFreed == Spec => []BuffersAreFreed
<1>1. Init => BInv
  BY InitFits
<1>2. BInv => BuffersAreFreed
  BY BusyIsNotIdle DEF BInv, BuffersAreFreed, Resting, IsHeaders
<1> QED BY <1>1, <1>2, StepKeepsBInv, PTL DEF Spec

-----------------------------------------------------------------------------
(* The bytes of the inputs.  Each is in its buffer, under an address of    *)
(* its own, and the view through which it was copied was alive: then an    *)
(* export, which starts when all are there, finds each at its argument.    *)
SentFits == \A i \in DOMAIN call.sent :
  /\ call.sent[i].what = "bundle" => call.sent[i].data \in Requests
  /\ call.sent[i].what = "headers" => call.sent[i].data \in Headers

Encoded == /\ DOMAIN call.bytes = DOMAIN call.sent
           /\ \A i \in DOMAIN call.sent : call.bytes[i] = Bytes(call.sent[i])
Copied == \A i \in 1..Len(call.ptrs) :
  IF call.ptrs[i] = None THEN call.bytes[i] = << >>
  ELSE alive[call.ptrs[i]].data = call.bytes[i]
Arrived == \A i \in DOMAIN call.sent : call.got[i] = call.bytes[i]

DInv == \/ call = Idle
        \/ /\ SentFits /\ Encoded
           /\ call.step = "call" => Copied
           /\ call.step # "call" => Arrived

LEMMA BeginSends ==
  ASSUME NEW op, NEW on, NEW sent, Begin(op, on, sent),
         \A i \in DOMAIN sent : /\ sent[i].what = "bundle" => sent[i].data \in Requests
                                /\ sent[i].what = "headers" => sent[i].data \in Headers
  PROVE  DInv'
<1>a. call'.sent = sent /\ call'.bytes = [i \in DOMAIN sent |-> Bytes(sent[i])]
  BY BeginCalls
<1>1. SentFits' /\ Encoded'
  BY <1>a DEF SentFits, Encoded
<1>2. call'.step = "call" /\ Len(call'.ptrs) = 0
  BY BeginCalls
<1>3. Copied'
  BY <1>2 DEF Copied
<1> QED BY <1>1, <1>2, <1>3 DEF DInv

LEMMA MethodSends == Method => DInv'
<1> SUFFICES ASSUME Method PROVE DInv'
  OBVIOUS
<1> USE DEF Buf
<1>0. ASSUME NEW op, NEW on, Begin(op, on, << >>) PROVE DInv'
  BY <1>0, BeginSends
<1>1. ASSUME NEW op, NEW on, NEW what, NEW p, what \notin {"bundle", "headers"},
             Begin(op, on, <<Buf(what, p)>>)
      PROVE  DInv'
  BY <1>1, BeginSends
<1>2. ASSUME NEW w \in Waf, FromAbi(w) PROVE DInv'
  BY <1>1, <1>2 DEF FromAbi
<1>3. ASSUME NEW w \in Waf, Destroy(w) PROVE DInv'
  BY <1>0, <1>3 DEF Destroy
<1>4. ASSUME NEW w \in Waf, NEW t \in Tx, NewTransaction(w, t) PROVE DInv'
  BY <1>0, <1>4 DEF NewTransaction
<1>5. ASSUME NEW t \in Tx, Close(t) PROVE DInv'
  BY <1>0, <1>5 DEF Close
<1>6. ASSUME NEW t \in Tx, ProcessRequestBundle(t) PROVE DInv'
  BY <1>6, BeginSends DEF ProcessRequestBundle
<1>7. ASSUME NEW t \in Tx, Inspect(t) PROVE DInv'
  <2>1. CASE \E p \in Payloads, h \in Headers :
               Begin("processResponse", t, <<Buf("headers", h), Buf("proto", p)>>)
    BY <2>1, BeginSends
  <2>2. CASE \E p \in Payloads : Begin("processConnection", t, <<Buf("addr", p)>>)
    BY <2>2, <1>1
  <2>3. CASE \E p \in Payloads :
               Begin("processResponseBody", t, IF p = << >> THEN << >> ELSE <<Buf("body", p)>>)
    BY <2>3, <1>0, <1>1
  <2>4. CASE \E p \in Payloads \ {<< >>} : Begin("appendBody", t, <<Buf("chunk", p)>>)
    BY <2>4, <1>1
  <2>5. CASE Begin("finishBody", t, << >>)
    BY <2>5, <1>0
  <2> QED BY <1>7, <2>1, <2>2, <2>3, <2>4, <2>5 DEF Inspect
<1>8. ASSUME NEW t \in Tx, Ask(t) PROVE DInv'
  BY <1>0, <1>8 DEF Ask
<1> QED BY <1>2, <1>3, <1>4, <1>5, <1>6, <1>7, <1>8 DEF Method

LEMMA AllocationSends ==
  TInv /\ BInv /\ DInv /\ (SkipEmpty \/ Allocate \/ AllocateFails) => DInv'
<1> SUFFICES ASSUME TInv, BInv, DInv, SkipEmpty \/ Allocate \/ AllocateFails PROVE DInv'
  OBVIOUS
<1>0. CallTyped /\ BuffersFit /\ call # Idle /\ Pending
  BY RunningIsTyped, RunningFits, TypedIsNotIdle DEF SkipEmpty, Allocate, AllocateFails, Pending
<1> DEFINE n == Len(call.ptrs) + 1
<1>1. /\ SentFits /\ Encoded /\ Copied /\ call.step = "call"
      /\ call.ptrs \in Seq(Ptr \cup {None}) /\ Len(call.ptrs) \in Nat
  BY <1>0 DEF DInv, Pending, BuffersFit
<1>2. ASSUME NEW p \in Ptr \cup {None}, call' = [call EXCEPT !.ptrs = Append(@, p)],
             IF p = None THEN alive' = alive /\ call.bytes[n] = << >>
             ELSE /\ p \notin DOMAIN alive /\ alive'[p].data = call.bytes[n]
                  /\ \A q \in DOMAIN alive : alive'[q] = alive[q]
      PROVE  DInv'
  <2>1. /\ SameCall /\ call'.step = "call" /\ call'.ptrs = Append(call.ptrs, p)
    BY <1>0, <1>1, <1>2, AppendCalls
  <2>2. /\ Len(call'.ptrs) = n /\ call'.ptrs[n] = p
        /\ \A i \in 1..Len(call.ptrs) : call'.ptrs[i] = call.ptrs[i]
        /\ \A i \in 1..n : i = n \/ i \in 1..Len(call.ptrs)
    BY <1>1, <2>1
  <2>3. SentFits' /\ Encoded'
    BY <1>1, <2>1 DEF SentFits, Encoded, SameCall
  <2>4. \A i \in 1..n : IF call'.ptrs[i] = None THEN call'.bytes[i] = << >>
                        ELSE alive'[call'.ptrs[i]].data = call'.bytes[i]
    <3> SUFFICES ASSUME NEW i \in 1..n
                 PROVE  IF call'.ptrs[i] = None THEN call'.bytes[i] = << >>
                        ELSE alive'[call'.ptrs[i]].data = call'.bytes[i]
      OBVIOUS
    <3>1. CASE i = n
      BY <1>2, <2>1, <2>2, <3>1 DEF SameCall
    <3>2. CASE i \in 1..Len(call.ptrs)
      <4>1. call'.ptrs[i] = call.ptrs[i] /\ call'.bytes = call.bytes
        BY <2>1, <2>2, <3>2 DEF SameCall
      <4>2. call.ptrs[i] # None => alive'[call.ptrs[i]] = alive[call.ptrs[i]]
        BY <1>0, <1>2, <3>2 DEF BuffersFit
      <4> QED BY <1>1, <3>2, <4>1, <4>2 DEF Copied
    <3> QED BY <2>2, <3>1, <3>2
  <2>5. Copied'
    BY <2>2, <2>4 DEF Copied
  <2> QED BY <2>1, <2>3, <2>5 DEF DInv
<1>3. CASE SkipEmpty
  <2>1. /\ call' = [call EXCEPT !.ptrs = Append(@, None)] /\ alive' = alive
        /\ call.bytes[n] = << >>
    BY <1>3 DEF SkipEmpty, memVars, Input
  <2> QED BY <1>2, <2>1
<1>4. CASE Allocate
  <2>1. PICK p \in Ptr \ DOMAIN alive :
          /\ alive' = Put(alive, p, Buf(call.sent[n].what, Input))
          /\ call' = [call EXCEPT !.ptrs = Append(@, p)]
    BY <1>4 DEF Allocate, Refreshed
  <2>2. /\ alive'[p].data = Input /\ \A q \in DOMAIN alive : alive'[q] = alive[q]
    BY <2>1 DEF Put, Buf
  <2>3. p # None
    BY BridgeAssumption
  <2> QED BY <1>2, <2>1, <2>2, <2>3 DEF Input
<1>5. CASE AllocateFails
  BY <1>5 DEF AllocateFails, DInv
<1> QED BY <1>3, <1>4, <1>5

LEMMA ExportSends == TInv /\ BInv /\ DInv /\ Export => DInv'
<1> SUFFICES ASSUME TInv, BInv, DInv, Export PROVE DInv'
  OBVIOUS
<1>0. call.step = "call"
  BY DEF Export, Enters, WafCreate, WafDestroy, TxCreate,
     TxDestroy, TxReset, TxProcess, TxProcessLogging, TxPredicate, TxGet
<1>1. CallTyped /\ BuffersFit /\ call # Idle
  BY <1>0, RunningIsTyped, RunningFits, TypedIsNotIdle
<1>2. Continues /\ call'.got = Got /\ call'.step # "call" /\ ~Pending
  BY <1>1, ExportCalls, ReturnsCalls, SetErrCalls, TrapsCalls
<1>3. DOMAIN call.ptrs = DOMAIN call.sent /\ DOMAIN call.ptrs = 1..Len(call.ptrs)
  BY <1>0, <1>1, <1>2 DEF Pending, BuffersFit, InputsFit
<1>4. SentFits' /\ Encoded'
  BY <1>1, <1>2 DEF DInv, SentFits, Encoded, Continues, SameCall
<1>5. \A i \in DOMAIN call.sent : Got[i] = call.bytes[i]
  BY <1>0, <1>1, <1>3 DEF Got, DInv, Copied
<1>6. Arrived'
  BY <1>2, <1>5 DEF Arrived, Continues, SameCall
<1> QED BY <1>2, <1>4, <1>6 DEF DInv

LEMMA AnswerSends == TInv /\ DInv /\ (CheckThrows \/ ReadResult \/ Settle) => DInv'
<1> SUFFICES ASSUME TInv, DInv, CheckThrows \/ ReadResult \/ Settle PROVE DInv'
  OBVIOUS
<1>1. CASE Settle
  BY <1>1 DEF Settle, DInv
<1>2. CASE CheckThrows \/ ReadResult
  <2>1. CallTyped /\ call # Idle /\ call.step # "call"
    BY <1>2, RunningIsTyped, TypedIsNotIdle DEF CheckThrows, ReadResult
  <2>2. Continues /\ call'.got = call.got /\ call'.step = "finally"
    BY <1>2, <2>1 DEF CheckThrows, ReadResult, CallTyped, Continues, SameCall, CallFields
  <2> QED BY <2>1, <2>2 DEF DInv, SentFits, Encoded, Arrived, Continues, SameCall
<1> QED BY <1>1, <1>2

LEMMA StepSends == TInv /\ BInv /\ DInv /\ [Next]_vars => DInv'
<1>1. DInv /\ UNCHANGED vars => DInv'
  BY DEF vars, memVars, DInv, SentFits, Encoded, Copied, Arrived
<1> QED BY <1>1, MethodSends, AllocationSends, ExportSends, AnswerSends DEF Next

-----------------------------------------------------------------------------
(* The codec, for requests and header lists of any length.                 *)

(***************************************************************************)
(* A string in UTF-8: where its characters end.                            *)
(***************************************************************************)
Char(w) == [k \in 1..w |-> IF k = 1 THEN w ELSE Cont]
CharsOf(s) == [i \in 1..Len(s) |-> Char(s[i])]

LEMMA CharsTyped ==
  ASSUME NEW s \in Strings
  PROVE  /\ Len(s) \in Nat /\ \A k \in 1..Len(s) : s[k] \in 1..4
         /\ CharsOf(s) \in Seq(Seq(Nat)) /\ Len(CharsOf(s)) = Len(s)
         /\ \A k \in 1..Len(s) : /\ CharsOf(s)[k] = Char(s[k])
                                 /\ Char(s[k]) \in Seq(Nat) /\ Len(Char(s[k])) = s[k]
         /\ Utf8(s) = FlattenSeq(CharsOf(s))
<1>1. /\ Len(s) \in Nat /\ DOMAIN s = 1..Len(s)
      /\ \A k \in 1..Len(s) : s[k] \in 1..4
  BY LenProperties, ElementOfSeq DEF Strings
<1>2. ASSUME NEW w \in 1..4 PROVE Char(w) \in Seq(Nat) /\ Len(Char(w)) = w
  <2>1. Char(w) \in [1..w -> Nat] /\ w \in Nat
    BY DEF Char, Cont
  <2> QED BY <2>1, SequenceOf
<1>3. CharsOf(s) \in [1..Len(s) -> Seq(Nat)]
  BY <1>1, <1>2 DEF CharsOf
<1>4. CharsOf(s) \in Seq(Seq(Nat)) /\ Len(CharsOf(s)) = Len(s)
  BY <1>1, <1>3, SequenceOf
<1>5. \A k \in 1..Len(s) : CharsOf(s)[k] = Char(s[k])
  BY DEF CharsOf
<1>6. Utf8(s) = FlattenSeq(CharsOf(s))
  BY <1>1 DEF Utf8, CharsOf, Char
<1> QED BY <1>1, <1>2, <1>4, <1>5, <1>6

(* e[k] is where character k ends, in bytes.                               *)
EndsOf(e, s) == /\ e \in [0..Len(s) -> Nat] /\ e[0] = 0
                /\ \A k \in 1..Len(s) : e[k] = e[k - 1] + s[k]

LEMMA EndsGrow ==
  ASSUME NEW s \in Strings, NEW e, EndsOf(e, s)
  PROVE  /\ \A n \in 0..Len(s) : e[n] <= 4 * n /\ e[n] <= e[Len(s)]
         /\ \A m, n \in 0..Len(s) : m < n => e[m] < e[n]
<1> DEFINE l == Len(s)
<1>1. l \in Nat /\ \A k \in 1..l : s[k] \in 1..4
  BY CharsTyped
<1>2. /\ e[0] = 0 /\ \A n \in 0..l : e[n] \in Nat
      /\ \A k \in 1..l : e[k] = e[k - 1] + s[k]
  BY DEF EndsOf
<1> HIDE DEF l
<1>3. ASSUME NEW k \in Nat, k + 1 \in 0..l
      PROVE  k \in 0..l /\ e[k] < e[k + 1] /\ e[k + 1] <= e[k] + 4
  <2>1. k \in 0..l /\ k + 1 \in 1..l /\ (k + 1) - 1 = k
    BY <1>1, <1>3
  <2>2. e[k + 1] = e[k] + s[k + 1] /\ s[k + 1] \in 1..4 /\ e[k] \in Nat
    BY <1>1, <1>2, <2>1
  <2> QED BY <2>1, <2>2
<1> DEFINE T == {n \in Nat : n \in 0..l =>
                    e[n] <= 4 * n /\ \A m \in 0..l : m < n => e[m] < e[n]}
<1>4. 0 \in T
  BY <1>2
<1>5. ASSUME NEW n \in Nat, n \in T PROVE n + 1 \in T
  <2>1. ASSUME n + 1 \in 0..l
        PROVE  e[n + 1] <= 4 * (n + 1) /\ \A m \in 0..l : m < n + 1 => e[m] < e[n + 1]
    <3>1. n \in 0..l /\ e[n] < e[n + 1] /\ e[n + 1] <= e[n] + 4 /\ e[n] \in Nat /\ e[n + 1] \in Nat
      BY <1>2, <1>3, <2>1
    <3>2. e[n] <= 4 * n /\ \A m \in 0..l : m < n => e[m] < e[n]
      BY <1>5, <3>1
    <3>3. \A m \in 0..l : m < n + 1 => m = n \/ m < n
      OBVIOUS
    <3> QED BY <1>2, <3>1, <3>2, <3>3
  <2> QED BY <2>1
<1>6. \A n \in Nat : n \in T <=> (n \in 0..l =>
                    e[n] <= 4 * n /\ \A m \in 0..l : m < n => e[m] < e[n])
  OBVIOUS
<1> HIDE DEF T
<1>7. Nat \subseteq T
  BY <1>4, <1>5, Induction
<1>8. \A n \in 0..l : e[n] <= 4 * n /\ \A m \in 0..l : m < n => e[m] < e[n]
  BY <1>6, <1>7
<1>9. \A n \in 0..l : e[n] <= e[l]
  BY <1>1, <1>2, <1>8
<1> QED BY <1>8, <1>9 DEF l

(* The bytes of a string, and of its prefixes.                             *)
LaidOut(e, s) ==
  /\ EndsOf(e, s)
  /\ Utf8(s) \in Seq(Nat) /\ Len(Utf8(s)) = e[Len(s)]
  /\ \A k \in 1..Len(s) : \A j \in 1..s[k] :
       Utf8(s)[e[k - 1] + j] = IF j = 1 THEN s[k] ELSE Cont
  /\ \A n \in 0..Len(s) : /\ Utf8(SubSeq(s, 1, n)) = SubSeq(Utf8(s), 1, e[n])
                          /\ Len(Utf8(SubSeq(s, 1, n))) = e[n]

LEMMA Utf8LaidOut ==
  ASSUME NEW s \in Strings
  PROVE  \E e : LaidOut(e, s)
<1> DEFINE l == Len(s)
           cs == CharsOf(s)
           b == Utf8(s)
<1>1. /\ l \in Nat /\ cs \in Seq(Seq(Nat)) /\ Len(cs) = l /\ b = FlattenSeq(cs)
      /\ \A k \in 1..l : /\ s[k] \in 1..4 /\ cs[k] = Char(s[k])
                         /\ Char(s[k]) \in Seq(Nat) /\ Len(Char(s[k])) = s[k]
  BY CharsTyped
<1> HIDE DEF cs
<1>2. PICK F : Flattening(F, cs, Nat)
  BY <1>1, FlatteningExists
<1>3. /\ F \in [0..l -> Seq(Nat)] /\ F[0] = << >>
      /\ \A k \in 1..l : F[k] = F[k - 1] \o Char(s[k])
  BY <1>1, <1>2 DEF Flattening
<1>4. b = F[l] /\ b \in Seq(Nat)
  <2>1. b = F[l]
    BY <1>1, <1>2, FlattensTo
  <2> QED BY <1>1, <1>3, <2>1
<1> DEFINE e == [k \in 0..l |-> Len(F[k])]
<1>5. \A k \in 0..l : F[k] \in Seq(Nat) /\ Len(F[k]) \in Nat /\ e[k] = Len(F[k])
  BY <1>3, LenProperties
<1>6. EndsOf(e, s)
  <2>1. e \in [0..l -> Nat] /\ e[0] = 0
    <3>1. 0 \in 0..l /\ Len(<< >>) = 0
      BY <1>1, EmptySeq
    <3> QED BY <1>3, <1>5, <3>1
  <2>2. ASSUME NEW k \in 1..l PROVE e[k] = e[k - 1] + s[k]
    <3>1. k \in 0..l /\ k - 1 \in 0..l
      BY <1>1
    <3>2. Len(F[k - 1] \o Char(s[k])) = Len(F[k - 1]) + Len(Char(s[k]))
      BY <1>1, <1>5, <3>1, ConcatProperties
    <3> QED BY <1>1, <1>3, <1>5, <3>1, <3>2
  <2> HIDE DEF e
  <2> QED BY <2>1, <2>2 DEF EndsOf
<1> HIDE DEF e
<1>7. \A k \in 0..l : Lies(b, 0, F[k])
  <2>1. Lies(b, 0, F[Len(cs)]) /\ Len(b) \in Nat
    BY <1>1, <1>4, LiesInItself, LenProperties
  <2> QED BY <1>1, <1>2, <2>1, LiesFlat
<1>8. ASSUME NEW k \in 1..l, NEW j \in 1..s[k]
      PROVE  b[e[k - 1] + j] = IF j = 1 THEN s[k] ELSE Cont
  <2>1. Lies(b, 0, F[Len(cs)]) /\ Len(b) \in Nat
    BY <1>1, <1>4, LiesInItself, LenProperties
  <2>2. Lies(b, 0 + Len(F[k - 1]), cs[k])
    BY <1>1, <1>2, <2>1, LiesFlat
  <2>3. k - 1 \in 0..l
    BY <1>1
  <2>4. 0 + Len(F[k - 1]) = e[k - 1]
    BY <1>5, <2>3
  <2>5. Lies(b, e[k - 1], Char(s[k])) /\ Len(Char(s[k])) = s[k]
    BY <1>1, <2>2, <2>4
  <2> QED BY <2>5 DEF Lies, Char
<1>9. ASSUME NEW n \in 0..l
      PROVE  Utf8(SubSeq(s, 1, n)) = SubSeq(b, 1, e[n]) /\ Len(Utf8(SubSeq(s, 1, n))) = e[n]
  <2> DEFINE p == SubSeq(s, 1, n)
             G == [k \in 0..n |-> F[k]]
             t == CharsOf(p)
  <2>1. /\ p \in Strings /\ Len(p) = n
        /\ \A k \in 1..n : p[k] = s[k]
    <3>1. s \in Seq(1..4) /\ n \in 0..Len(s)
      BY DEF Strings
    <3> QED BY <3>1, Beginning DEF Strings
  <2> HIDE DEF p
  <2>2. /\ t \in Seq(Seq(Nat)) /\ Len(t) = n /\ Utf8(p) = FlattenSeq(t)
        /\ \A k \in 1..n : t[k] = Char(s[k])
    BY <2>1, CharsTyped
  <2> HIDE DEF t
  <2>3. Flattening(G, t, Nat)
    <3>1. G \in [0..n -> Seq(Nat)] /\ G[0] = << >>
      <4>1. 0 \in 0..n /\ \A k \in 0..n : k \in 0..l
        BY <1>1
      <4> QED BY <1>3, <4>1
    <3>2. ASSUME NEW k \in 1..n PROVE G[k] = G[k - 1] \o t[k]
      <4>1. k \in 1..l /\ k \in 0..n /\ k - 1 \in 0..n
        BY <1>1
      <4>2. F[k] = F[k - 1] \o Char(s[k])
        BY <1>3, <4>1
      <4> QED BY <2>2, <4>1, <4>2
    <3> HIDE DEF G
    <3> QED BY <2>2, <3>1, <3>2 DEF Flattening
  <2>4. Utf8(p) = F[n]
    <3>1. FlattenSeq(t) = G[n]
      <4> HIDE DEF G
      <4> QED BY <2>2, <2>3, FlattensTo
    <3> QED BY <1>1, <2>2, <3>1
  <2>5. Lies(b, 0, F[n]) /\ F[n] \in Seq(Nat) /\ Len(F[n]) = e[n] /\ e[n] \in Nat
    BY <1>5, <1>7
  <2>6. SubSeq(b, 1, e[n]) = F[n]
    <3> DEFINE c == F[n]
    <3>1. c \in Seq(Nat) /\ Len(c) = e[n] /\ \A j \in 1..Len(c) : b[0 + j] = c[j]
      BY <2>5 DEF Lies
    <3> HIDE DEF c
    <3>2. SubSeq(b, 0 + 1, 0 + Len(c)) = c
      BY <3>1, CutOut
    <3>3. 0 + 1 = 1 /\ 0 + Len(c) = Len(c)
      BY <2>5, <3>1
    <3>4. SubSeq(b, 1, Len(c)) = c
      BY <3>2, <3>3
    <3> QED BY <3>1, <3>4 DEF c
  <2> QED BY <2>4, <2>5, <2>6 DEF p
<1>10. Len(b) = e[l]
  BY <1>1, <1>4, <1>5
<1> QED BY <1>4, <1>6, <1>8, <1>9, <1>10 DEF LaidOut

(* The cut of truncateUtf8 is after the longest prefix of whole characters *)
(* that fits.                                                              *)
LEMMA CutIsClip ==
  ASSUME NEW s \in Strings, NEW max \in Nat
  PROVE  /\ SubSeq(Utf8(s), 1, CutAt(Utf8(s), max)) = Clip(s, max)
         /\ CutAt(Utf8(s), max) \in 0..Len(Utf8(s)) /\ CutAt(Utf8(s), max) <= max
<1> DEFINE l == Len(s)
           b == Utf8(s)
<1>1. PICK e : LaidOut(e, s)
  BY Utf8LaidOut
<1>2. /\ l \in Nat /\ e[0] = 0 /\ Len(b) = e[l]
      /\ \A n \in 0..l : e[n] \in Nat
      /\ \A k \in 1..l : s[k] \in 1..4 /\ e[k] = e[k - 1] + s[k]
  BY <1>1, CharsTyped DEF LaidOut, EndsOf
<1>3. \A k \in 1..l : \A j \in 1..s[k] : b[e[k - 1] + j] = IF j = 1 THEN s[k] ELSE Cont
  BY <1>1 DEF LaidOut
<1>4. \A n \in 0..l : Utf8(SubSeq(s, 1, n)) = SubSeq(b, 1, e[n]) /\ Len(Utf8(SubSeq(s, 1, n))) = e[n]
  BY <1>1 DEF LaidOut
<1>5. /\ \A n \in 0..l : e[n] <= e[l]
      /\ \A m, n \in 0..l : m < n => e[m] < e[n]
  BY <1>1, EndsGrow DEF LaidOut
<1> HIDE DEF l
<1> DEFINE Longest(n) == e[n] <= max /\ (n = l \/ max < e[n + 1])
           T == {k \in 0..l : k = l \/ max < e[k + 1]}
<1>6. PICK n \in 0..l : Longest(n)
  <2>1. l \in T /\ T \subseteq Nat
    BY <1>2
  <2>2. \A k \in Nat : k \in T <=> k \in 0..l /\ (k = l \/ max < e[k + 1])
    BY <1>2
  <2> HIDE DEF T
  <2>3. PICK n \in T : \A k \in T : n <= k
    BY <2>1, LeastNumber
  <2>4. n \in 0..l /\ (n = l \/ max < e[n + 1])
    BY <2>1, <2>2, <2>3
  <2>5. CASE n = 0
    BY <1>2, <2>4, <2>5
  <2>6. CASE n # 0
    <3>1. n - 1 \in 0..l /\ n - 1 \in Nat /\ n - 1 # l /\ (n - 1) + 1 = n /\ ~ (n <= n - 1)
      BY <1>2, <2>4, <2>6
    <3>2. ~ (max < e[n])
      BY <2>2, <2>3, <3>1
    <3>3. e[n] <= max
      BY <1>2, <2>4, <3>2
    <3> QED BY <2>4, <3>3
  <2> QED BY <2>5, <2>6
<1>7. \A m \in 0..l : Longest(m) => m = n
  <2>1. ASSUME NEW i \in 0..l, NEW j \in 0..l, i < j, e[j] <= max, i = l \/ max < e[i + 1]
        PROVE  FALSE
    <3>1. i # l /\ i + 1 \in 0..l /\ (i + 1 = j \/ i + 1 < j)
      BY <1>2, <2>1
    <3>2. e[i + 1] <= e[j] /\ e[j] \in Nat /\ e[i + 1] \in Nat
      BY <1>2, <1>5, <3>1
    <3> QED BY <2>1, <3>1, <3>2
  <2>2. ASSUME NEW m \in 0..l, Longest(m) PROVE m = n
    <3>1. ~ (m < n) /\ ~ (n < m)
      BY <1>6, <2>1, <2>2
    <3> QED BY <1>2, <3>1
  <2> QED BY <2>2
<1>8. Clip(s, max) = SubSeq(b, 1, e[n])
  <2>1. \A m \in 0..l : Fits(s, m, max) <=> e[m] <= max
    BY <1>4 DEF Fits
  <2>2. \A m \in 0..l : Fits(s, m, max) /\ (m = l \/ ~Fits(s, m + 1, max)) <=> Longest(m)
    <3>1. ASSUME NEW m \in 0..l, m # l PROVE Fits(s, m + 1, max) <=> ~ (max < e[m + 1])
      <4>1. m + 1 \in 0..l
        BY <1>2, <3>1
      <4>2. e[m + 1] \in Nat
        BY <1>2, <4>1
      <4> QED BY <2>1, <4>1, <4>2
    <3> QED BY <2>1, <3>1
  <2> DEFINE m0 == CHOOSE m \in 0..Len(s) : /\ Fits(s, m, max)
                                            /\ m = Len(s) \/ ~Fits(s, m + 1, max)
  <2>3. m0 = n
    <3> HIDE DEF Longest
    <3>1. \E m \in 0..Len(s) : Fits(s, m, max) /\ (m = Len(s) \/ ~Fits(s, m + 1, max))
      BY <1>6, <2>2 DEF l
    <3>2. m0 \in 0..Len(s) /\ Fits(s, m0, max) /\ (m0 = Len(s) \/ ~Fits(s, m0 + 1, max))
      BY <3>1
    <3> HIDE DEF m0
    <3> QED BY <1>7, <2>2, <3>2 DEF l
  <2>4. Clip(s, max) = Utf8(SubSeq(s, 1, m0))
    BY DEF Clip
  <2> QED BY <1>4, <2>3, <2>4
<1>9. CutAt(b, max) = e[n]
  <2>0. e[n] \in 0..max /\ e[n] \in Nat
    BY <1>2, <1>6
  <2>1. CASE Len(b) <= max
    <3>1. n = l
      BY <1>2, <1>7, <2>1
    <3> QED BY <1>2, <2>1, <3>1 DEF CutAt
  <2>2. CASE ~ (Len(b) <= max)
    <3>1. n # l /\ n + 1 \in 1..l /\ (n + 1) - 1 = n
      BY <1>2, <1>6, <2>2
    <3>2. s[n + 1] \in 1..4 /\ e[n + 1] = e[n] + s[n + 1] /\ max < e[n] + s[n + 1]
      BY <1>2, <1>6, <3>1
    <3>3. \A j \in 1..s[n + 1] : b[e[n] + j] = IF j = 1 THEN s[n + 1] ELSE Cont
      BY <1>3, <3>1
    <3>4. b[e[n] + 1] # Cont
      BY <3>2, <3>3 DEF Cont
    <3>5. ASSUME NEW k \in (e[n] + 1)..max PROVE b[k + 1] = Cont
      <4>1. k + 1 - e[n] \in 1..s[n + 1] /\ k + 1 - e[n] # 1 /\ e[n] + (k + 1 - e[n]) = k + 1
        BY <2>0, <3>2
      <4> QED BY <3>3, <4>1
    <3> DEFINE Stop(x) == /\ x = 0 \/ b[x + 1] # Cont
                          /\ \A k \in (x + 1)..max : b[k + 1] = Cont
    <3>6. Stop(e[n])
      BY <3>4, <3>5
    <3>7. ASSUME NEW x \in 0..max, Stop(x) PROVE x = e[n]
      <4>1. ~ (e[n] < x)
        <5>1. e[n] < x => x # 0 /\ x \in (e[n] + 1)..max
          BY <2>0
        <5> QED BY <3>5, <3>7, <5>1
      <4>2. ~ (x < e[n])
        <5>1. x < e[n] => e[n] \in (x + 1)..max
          BY <2>0
        <5> QED BY <3>4, <3>7, <5>1
      <4> QED BY <2>0, <4>1, <4>2
    <3>8. (CHOOSE x \in 0..max : Stop(x)) = e[n]
      <4> HIDE DEF Stop
      <4> QED BY <2>0, <3>6, <3>7
    <3> QED BY <2>2, <3>8 DEF CutAt
  <2> QED BY <2>1, <2>2
<1> QED BY <1>2, <1>5, <1>6, <1>8, <1>9

(***************************************************************************)
(* scratchBuf.                                                             *)
(***************************************************************************)
FieldNames == {"method", "proto", "addr", "url"}

Cut(req, f) == IF f = "url" THEN Utf8(req[f]) ELSE Clip(req[f], Widest[f])

(* A state of scratchBuf and of the views of it, and what a view is to     *)
(* show.                                                                   *)
Scratches(a) ==
  /\ a.off \in Nat /\ a.buf \in Seq(Nat) /\ Len(a.buf) = ScratchCap
  /\ DOMAIN a.view = FieldNames

Shows(a, f, c) ==
  /\ a.view[f].bytes = c /\ c \in Seq(Nat)
  /\ \/ a.view[f].fresh
     \/ /\ a.view[f].at \in Nat
        /\ a.view[f].at + Len(c) <= a.off /\ a.view[f].at + Len(c) <= ScratchCap
        /\ \A k \in 1..Len(c) : a.buf[a.view[f].at + k] = c[k]

LEMMA FieldsFit ==
  ASSUME NEW req \in Bundles, NEW f \in FieldNames
  PROVE  /\ req[f] \in Strings /\ Len(req[f]) \in Nat
         /\ Utf8(req[f]) \in Seq(Nat) /\ Len(Utf8(req[f])) <= 4 * Len(req[f])
         /\ f # "url" => Widest[f] \in Nat
<1>1. req[f] \in Strings
  BY DEF Bundles, FieldNames
<1>2. PICK e : LaidOut(e, req[f])
  BY <1>1, Utf8LaidOut
<1>3. Len(req[f]) \in Nat
  BY <1>1, CharsTyped
<1>4. e[Len(req[f])] <= 4 * Len(req[f])
  BY <1>1, <1>2, <1>3, EndsGrow DEF LaidOut
<1>5. f # "url" => Widest[f] \in Nat
  BY WidthAssumption DEF FieldNames, Widest
<1> QED BY <1>1, <1>2, <1>3, <1>4, <1>5 DEF LaidOut

LEMMA FieldWritten ==
  ASSUME NEW req \in Bundles, NEW a, Scratches(a), NEW f \in FieldNames
  PROVE  /\ Scratches(WriteField(req, a, f))
         /\ Shows(WriteField(req, a, f), f, Cut(req, f))
         /\ \A h \in FieldNames \ {f} : \A c : Shows(a, h, c) => Shows(WriteField(req, a, f), h, c)
<1> DEFINE b == Utf8(req[f])
           size == IF f = "url" THEN Len(b) ELSE CutAt(b, Widest[f])
           fits == a.off + 4 * Len(req[f]) <= ScratchCap
           c0 == SubSeq(b, 1, size)
           buf == IF fits
                  THEN [k \in 1..ScratchCap |->
                          IF k \in (a.off + 1)..(a.off + Len(b)) THEN b[k - a.off] ELSE a.buf[k]]
                  ELSE a.buf
           w == WriteField(req, a, f)
<1>1. /\ b \in Seq(Nat) /\ Len(b) \in Nat /\ Len(b) <= 4 * Len(req[f]) /\ Len(req[f]) \in Nat
      /\ \A j \in 1..Len(b) : b[j] \in Nat
  BY FieldsFit, LenProperties, ElementOfSeq
<1>2. /\ a.off \in Nat /\ a.buf \in Seq(Nat) /\ Len(a.buf) = ScratchCap /\ ScratchCap \in Nat
      /\ DOMAIN a.view = FieldNames /\ \A k \in 1..ScratchCap : a.buf[k] \in Nat
  BY WidthAssumption, ElementOfSeq DEF Scratches
<1>3. size \in 0..Len(b) /\ c0 = Cut(req, f)
  <2>1. CASE f = "url"
    <3>1. size = Len(b) /\ Len(b) \in 0..Len(b)
      BY <1>1, <2>1
    <3>2. SubSeq(b, 1, Len(b)) = b
      BY <1>1, SubSeqFull
    <3>3. c0 = b
      BY <3>1, <3>2
    <3> QED BY <2>1, <3>1, <3>3 DEF Cut
  <2>2. CASE f # "url"
    <3>1. req[f] \in Strings /\ Widest[f] \in Nat
      BY <2>2, FieldsFit
    <3> QED BY <2>2, <3>1, CutIsClip DEF Cut
  <2> QED BY <2>1, <2>2
<1>4. /\ w.off = a.off + Len(b) /\ w.buf = buf
      /\ w.view = [a.view EXCEPT ![f] = [fresh |-> ~fits, at |-> a.off, bytes |-> c0]]
  BY DEF WriteField, NextOffset
<1> HIDE DEF size, w
<1>5. /\ c0 \in Seq(Nat) /\ Len(c0) = size
      /\ \A j \in 1..size : c0[j] = b[j] /\ j \in 1..Len(b)
  <2>1. \A j \in 1..size : j \in 1..Len(b)
    BY <1>1, <1>3
  <2> QED BY <1>1, <1>3, <2>1, Beginning
<1> HIDE DEF b, c0
<1>6. buf \in Seq(Nat) /\ Len(buf) = ScratchCap
  <2>1. CASE fits
    <3>1. \A k \in (a.off + 1)..(a.off + Len(b)) : k - a.off \in 1..Len(b)
      BY <1>1, <1>2
    <3>2. buf \in [1..ScratchCap -> Nat]
      BY <1>1, <1>2, <2>1, <3>1
    <3> HIDE DEF buf
    <3> QED BY <1>2, <3>2, SequenceOf
  <2>2. CASE ~fits
    BY <1>2, <2>2
  <2> QED BY <2>1, <2>2
<1>7. fits => \A j \in 1..Len(b) : a.off + j \in 1..ScratchCap /\ buf[a.off + j] = b[j]
  <2>1. ASSUME fits, NEW j \in 1..Len(b)
        PROVE  /\ a.off + j \in 1..ScratchCap /\ a.off + j \in (a.off + 1)..(a.off + Len(b))
               /\ (a.off + j) - a.off = j
    <3>1. a.off + Len(b) <= ScratchCap
      BY <1>1, <1>2, <2>1
    <3>2. \A o, n, m \in Nat : \A i \in 1..n : o + n <= m =>
            o + i \in 1..m /\ o + i \in (o + 1)..(o + n) /\ (o + i) - o = i
      OBVIOUS
    <3>3. a.off \in Nat /\ Len(b) \in Nat /\ ScratchCap \in Nat /\ j \in 1..Len(b)
      BY <1>1, <1>2, <2>1
    <3> QED BY <3>1, <3>2, <3>3
  <2> QED BY <2>1
<1>8. \A k \in 1..ScratchCap : k <= a.off => buf[k] = a.buf[k]
  BY <1>2
<1> HIDE DEF buf
<1>9. Scratches(w)
  <2>1. DOMAIN w.view = FieldNames
    BY <1>2, <1>4
  <2>2. a.off + Len(b) \in Nat
    BY <1>1, <1>2
  <2> QED BY <1>4, <1>6, <2>1, <2>2 DEF Scratches
<1>10. Shows(w, f, c0)
  <2>1. w.view[f].bytes = c0 /\ w.view[f].at = a.off /\ w.view[f].fresh = ~fits
    BY <1>2, <1>4
  <2>2. CASE fits
    <3>1. a.off + Len(c0) <= a.off + Len(b) /\ a.off + Len(c0) <= ScratchCap
      BY <1>1, <1>2, <1>3, <1>5, <2>2
    <3>2. \A k \in 1..Len(c0) : w.buf[a.off + k] = c0[k]
      BY <1>4, <1>5, <1>7, <2>2
    <3> QED BY <1>2, <1>4, <1>5, <2>1, <3>1, <3>2 DEF Shows
  <2>3. CASE ~fits
    BY <1>5, <2>1, <2>3 DEF Shows
  <2> QED BY <2>2, <2>3
<1>11. ASSUME NEW h \in FieldNames \ {f}, NEW c, Shows(a, h, c)
       PROVE  Shows(w, h, c)
  <2>1. w.view[h] = a.view[h]
    BY <1>2, <1>4
  <2>2. CASE a.view[h].fresh
    BY <1>11, <2>1, <2>2 DEF Shows
  <2>3. CASE ~ a.view[h].fresh
    <3> DEFINE at == a.view[h].at
    <3>1. /\ at \in Nat /\ at + Len(c) <= a.off /\ at + Len(c) <= ScratchCap
          /\ \A k \in 1..Len(c) : a.buf[at + k] = c[k]
          /\ c \in Seq(Nat) /\ a.view[h].bytes = c
      BY <1>11, <2>3 DEF Shows
    <3>2. Len(c) \in Nat
      BY <3>1, LenProperties
    <3> HIDE DEF at
    <3>3. \A k \in 1..Len(c) : at + k \in 1..ScratchCap /\ at + k <= a.off
      <4>1. \A n, m, o, z \in Nat : n + m <= o /\ n + m <= z =>
              \A k \in 1..m : n + k \in 1..z /\ n + k <= o
        OBVIOUS
      <4> QED BY <1>2, <3>1, <3>2, <4>1
    <3>4. \A k \in 1..Len(c) : w.buf[at + k] = c[k]
      BY <1>4, <1>8, <3>1, <3>3
    <3>5. at + Len(c) <= w.off
      BY <1>1, <1>2, <1>4, <3>1, <3>2
    <3> QED BY <2>1, <3>1, <3>4, <3>5 DEF Shows, at
  <2> QED BY <2>2, <2>3
<1> QED BY <1>3, <1>9, <1>10, <1>11 DEF w

LEMMA ShownIsSeen ==
  ASSUME NEW a, NEW f, NEW c, Shows(a, f, c)
  PROVE  Seen(a, f) = c
<1>1. CASE a.view[f].fresh
  BY <1>1 DEF Shows, Seen
<1>2. CASE ~ a.view[f].fresh
  <2> DEFINE at == a.view[f].at
  <2>1. /\ a.view[f].bytes = c /\ c \in Seq(Nat) /\ at \in Nat
        /\ \A k \in 1..Len(c) : a.buf[at + k] = c[k]
    BY <1>2 DEF Shows
  <2>2. SubSeq(a.buf, at + 1, at + Len(c)) = c
    <3> DEFINE buf == a.buf
    <3>1. c \in Seq(Nat) /\ at \in Nat /\ \A k \in 1..Len(c) : buf[at + k] = c[k]
      BY <2>1
    <3> HIDE DEF at, buf
    <3>2. SubSeq(buf, at + 1, at + Len(c)) = c
      BY <3>1, CutOut
    <3> QED BY <3>2 DEF buf
  <2> QED BY <1>2, <2>1, <2>2 DEF Seen
<1> QED BY <1>1, <1>2

(* Every short field is seen whole, wherever it was put.                   *)
LEMMA FieldsSeen ==
  ASSUME NEW req \in Bundles
  PROVE  \A f \in FieldNames : Seen(Written(req), f) = Cut(req, f)
<1> DEFINE m == WriteField(req, EmptyScratch, "method")
           p == WriteField(req, m, "proto")
           d == WriteField(req, p, "addr")
           u == WriteField(req, d, "url")
<1>1. Scratches(EmptyScratch)
  <2>1. [k \in 1..ScratchCap |-> Blank] \in [1..ScratchCap -> Nat] /\ ScratchCap \in Nat
    BY WidthAssumption DEF Blank
  <2>2. EmptyScratch.buf \in Seq(Nat) /\ Len(EmptyScratch.buf) = ScratchCap
    BY <2>1, SequenceOf DEF EmptyScratch
  <2> QED BY <2>2 DEF Scratches, EmptyScratch, FieldNames
<1>2. Written(req) = u
  BY DEF Written
<1>3. {"method", "proto", "addr", "url"} = FieldNames
  BY DEF FieldNames
<1>4. Scratches(m) /\ Shows(m, "method", Cut(req, "method"))
  BY <1>1, <1>3, FieldWritten
<1> HIDE DEF m
<1>5. /\ Scratches(p) /\ Shows(p, "method", Cut(req, "method"))
      /\ Shows(p, "proto", Cut(req, "proto"))
  BY <1>3, <1>4, FieldWritten
<1> HIDE DEF p
<1>6. /\ Scratches(d) /\ Shows(d, "method", Cut(req, "method"))
      /\ Shows(d, "proto", Cut(req, "proto")) /\ Shows(d, "addr", Cut(req, "addr"))
  BY <1>3, <1>5, FieldWritten
<1> HIDE DEF d
<1>7. /\ Shows(u, "method", Cut(req, "method")) /\ Shows(u, "proto", Cut(req, "proto"))
      /\ Shows(u, "addr", Cut(req, "addr")) /\ Shows(u, "url", Cut(req, "url"))
  BY <1>3, <1>6, FieldWritten
<1> HIDE DEF u
<1> QED BY <1>2, <1>3, <1>7, ShownIsSeen

(***************************************************************************)
(* What is read of a packet is what lies there.                            *)
(***************************************************************************)
LEMMA OneNumber ==
  ASSUME NEW x \in Nat
  PROVE  <<x>> \in Seq(Nat) /\ Len(<<x>>) = 1 /\ <<x>>[1] = x
OBVIOUS

LEMMA TwoNumbers ==
  ASSUME NEW x \in Nat, NEW y \in Nat
  PROVE  <<x, y>> = <<x>> \o <<y>>
<1> DEFINE a == <<x>>
           b == <<y>>
           c == <<x, y>>
<1>1. /\ a \in Seq(Nat) /\ Len(a) = 1 /\ a[1] = x
      /\ b \in Seq(Nat) /\ Len(b) = 1 /\ b[1] = y
      /\ c \in Seq(Nat) /\ Len(c) = 2 /\ c[1] = x /\ c[2] = y
  OBVIOUS
<1> HIDE DEF a, b, c
<1>2. /\ a \o b \in Seq(Nat) /\ Len(a \o b) = Len(a) + Len(b)
      /\ \A i \in 1..Len(a) + Len(b) : (a \o b)[i] = IF i <= Len(a) THEN a[i] ELSE b[i - Len(a)]
  BY <1>1, ConcatProperties
<1>3. Len(a \o b) = 2 /\ (a \o b)[1] = x /\ (a \o b)[2] = y
  BY <1>1, <1>2
<1>4. \A i \in 1..Len(c) : c[i] = (a \o b)[i]
  BY <1>1, <1>3
<1>5. c = a \o b
  BY <1>1, <1>2, <1>3, <1>4, SeqEqual
<1> QED BY <1>5 DEF a, b, c

LEMMA SizedTyped ==
  ASSUME NEW c \in Seq(Nat)
  PROVE  /\ Sized(c) = <<Len(c)>> \o c
         /\ Sized(c) \in Seq(Nat) /\ Len(Sized(c)) = 1 + Len(c)
<1>1. Len(c) \in Nat
  BY LenProperties
<1>2. <<Len(c)>> \in Seq(Nat) /\ Len(<<Len(c)>>) = 1
  BY <1>1, OneNumber
<1> QED BY <1>2, ConcatProperties DEF Sized

LEMMA NumberRead ==
  ASSUME NEW pkt, Len(pkt) \in Nat, NEW off \in Nat, NEW x \in Nat, Lies(pkt, off, <<x>>)
  PROVE  ReadNum(pkt, off) = [ok |-> TRUE, val |-> x, off |-> off + 1]
<1>1. off + 1 <= Len(pkt) /\ pkt[off + 1] = x
  BY OneNumber DEF Lies
<1> QED BY <1>1 DEF ReadNum

LEMMA BlobRead ==
  ASSUME NEW pkt, Len(pkt) \in Nat, NEW off \in Nat, NEW c \in Seq(Nat), Lies(pkt, off, Sized(c))
  PROVE  ReadSized(pkt, off) = [ok |-> TRUE, val |-> c, off |-> off + Len(Sized(c))]
<1>1. Len(c) \in Nat /\ Len(Sized(c)) = 1 + Len(c)
  BY SizedTyped, LenProperties
<1> DEFINE x == <<Len(c)>>
<1>2. x \in Seq(Nat) /\ Len(x) = 1
  BY <1>1, OneNumber
<1>3. Lies(pkt, off, x \o c)
  BY SizedTyped
<1>4. Lies(pkt, off, x) /\ Lies(pkt, off + 1, c)
  <2> HIDE DEF x
  <2> QED BY <1>2, <1>3, LiesApart
<1>5. ReadNum(pkt, off) = [ok |-> TRUE, val |-> Len(c), off |-> off + 1]
  BY <1>1, <1>4, NumberRead
<1>6. off + 1 + Len(c) <= Len(pkt) /\ off + 1 \in Nat
  BY <1>1, <1>4 DEF Lies
<1>7. SubSeq(pkt, (off + 1) + 1, (off + 1) + Len(c)) = c
  <2>1. \A j \in 1..Len(c) : pkt[(off + 1) + j] = c[j]
    BY <1>4 DEF Lies
  <2> QED BY <1>6, <2>1, CutOut
<1>8. ~ (off + 1 + Len(c) > Len(pkt)) /\ off + 1 + Len(c) = off + Len(Sized(c))
  BY <1>1, <1>6
<1> DEFINE r == ReadNum(pkt, off)
<1>9. r.ok = TRUE /\ r.val = Len(c) /\ r.off = off + 1
  BY <1>5
<1>10. ReadSized(pkt, off) = IF ~r.ok \/ r.off + r.val > Len(pkt)
                             THEN [ok |-> FALSE, val |-> << >>, off |-> r.off]
                             ELSE [ok |-> TRUE, val |-> SubSeq(pkt, r.off + 1, r.off + r.val),
                                   off |-> r.off + r.val]
  BY DEF ReadSized, r
<1> HIDE DEF r
<1>11. ReadSized(pkt, off) = [ok |-> TRUE, val |-> SubSeq(pkt, (off + 1) + 1, (off + 1) + Len(c)),
                              off |-> off + 1 + Len(c)]
  BY <1>8, <1>9, <1>10
<1> QED BY <1>7, <1>8, <1>11

(* A packet that is cut short gives values of the same kind.               *)
LEMMA BlobTyped ==
  ASSUME NEW pkt \in Seq(Nat), NEW off \in Nat
  PROVE  /\ ReadSized(pkt, off).off \in Nat
         /\ ReadSized(pkt, off).ok \in BOOLEAN
         /\ ReadSized(pkt, off).val \in Seq(Nat)
<1> DEFINE r == ReadNum(pkt, off)
<1>1. Len(pkt) \in Nat
  BY LenProperties
<1>2. r.ok \in BOOLEAN /\ r.val \in Nat /\ r.off \in Nat
  <2>1. CASE off + 1 > Len(pkt)
    BY <2>1 DEF ReadNum
  <2>2. CASE ~ (off + 1 > Len(pkt))
    <3>1. pkt[off + 1] \in Nat
      <4>1. off + 1 \in 1..Len(pkt)
        BY <1>1, <2>2
      <4> QED BY <4>1, ElementOfSeq
    <3> QED BY <2>2, <3>1 DEF ReadNum
  <2> QED BY <2>1, <2>2
<1> HIDE DEF r
<1> DEFINE from == r.off + 1
           end == r.off + r.val
<1>3. from \in Int /\ end \in Nat
  BY <1>2
<1>4. ASSUME ~ (end > Len(pkt)) PROVE SubSeq(pkt, from, end) \in Seq(Nat)
  <2>1. \A i \in from..end : i \in 1..Len(pkt)
    BY <1>1, <1>2, <1>4
  <2>2. \A i \in from..end : pkt[i] \in Nat
    BY <2>1, ElementOfSeq
  <2> HIDE DEF from, end
  <2> QED BY <1>3, <2>2, SubSeqProperties
<1>5. ReadSized(pkt, off) = IF ~r.ok \/ end > Len(pkt)
                            THEN [ok |-> FALSE, val |-> << >>, off |-> r.off]
                            ELSE [ok |-> TRUE, val |-> SubSeq(pkt, from, end), off |-> end]
  BY DEF ReadSized, r
<1>6. << >> \in Seq(Nat)
  BY EmptySeq
<1> HIDE DEF from, end
<1> QED BY <1>2, <1>3, <1>4, <1>5, <1>6

(***************************************************************************)
(* Headers.                                                                *)
(***************************************************************************)
InUtf8(h) == <<Utf8(h[1]), Utf8(h[2])>>
Entry(h) == Sized(Utf8(h[1])) \o Sized(Utf8(h[2]))
Entries(hs) == [i \in 1..Len(hs) |-> Entry(hs[i])]
Taken(hs, k) == [i \in 1..k |-> InUtf8(hs[i])]
Pairs == Seq(Nat) \X Seq(Nat)
Reading == [off : Nat, ok : BOOLEAN, hs : Seq(Pairs)]

LEMMA Utf8Typed == ASSUME NEW s \in Strings PROVE Utf8(s) \in Seq(Nat)
BY Utf8LaidOut DEF LaidOut

LEMMA HeadersTyped ==
  ASSUME NEW hs \in HeaderLists
  PROVE  /\ Len(hs) \in Nat /\ DOMAIN hs = 1..Len(hs)
         /\ \A i \in 1..Len(hs) : /\ Utf8(hs[i][1]) \in Seq(Nat) /\ Utf8(hs[i][2]) \in Seq(Nat)
                                  /\ InUtf8(hs[i]) \in Pairs /\ Entry(hs[i]) \in Seq(Nat)
         /\ Entries(hs) \in Seq(Seq(Nat)) /\ Len(Entries(hs)) = Len(hs)
         /\ EncodeHeaders(hs) = <<Len(hs)>> \o FlattenSeq(Entries(hs))
         /\ \A k \in 0..Len(hs) : Taken(hs, k) \in Seq(Pairs) /\ Len(Taken(hs, k)) = k
<1>1. Len(hs) \in Nat /\ DOMAIN hs = 1..Len(hs)
  BY LenProperties DEF HeaderLists
<1>2. ASSUME NEW i \in 1..Len(hs)
      PROVE  /\ Utf8(hs[i][1]) \in Seq(Nat) /\ Utf8(hs[i][2]) \in Seq(Nat)
             /\ InUtf8(hs[i]) \in Pairs /\ Entry(hs[i]) \in Seq(Nat)
  <2>1. hs[i] \in Strings \X Strings
    BY ElementOfSeq DEF HeaderLists
  <2>2. hs[i][1] \in Strings /\ hs[i][2] \in Strings
    BY <2>1
  <2>3. Utf8(hs[i][1]) \in Seq(Nat) /\ Utf8(hs[i][2]) \in Seq(Nat)
    BY <2>2, Utf8Typed
  <2>4. Entry(hs[i]) \in Seq(Nat)
    BY <2>3, SizedTyped, ConcatProperties DEF Entry
  <2> QED BY <2>3, <2>4 DEF InUtf8, Pairs
<1>3. Entries(hs) \in Seq(Seq(Nat)) /\ Len(Entries(hs)) = Len(hs)
  <2>1. Entries(hs) \in [1..Len(hs) -> Seq(Nat)]
    BY <1>2 DEF Entries
  <2> QED BY <1>1, <2>1, SequenceOf
<1>4. ASSUME NEW k \in 0..Len(hs) PROVE Taken(hs, k) \in Seq(Pairs) /\ Len(Taken(hs, k)) = k
  <2>1. \A i \in 1..k : i \in 1..Len(hs)
    BY <1>1
  <2>2. Taken(hs, k) \in [1..k -> Pairs] /\ k \in Nat
    BY <1>2, <2>1 DEF Taken
  <2> QED BY <2>2, SequenceOf
<1>5. EncodeHeaders(hs) = <<Len(hs)>> \o FlattenSeq(Entries(hs))
  BY <1>1 DEF EncodeHeaders, Entries, Entry
<1> QED BY <1>1, <1>2, <1>3, <1>4, <1>5

LEMMA TakenGrows ==
  ASSUME NEW hs \in HeaderLists, NEW k \in 1..Len(hs)
  PROVE  Append(Taken(hs, k - 1), InUtf8(hs[k])) = Taken(hs, k)
<1> DEFINE p == Taken(hs, k - 1)
           q == Taken(hs, k)
           x == InUtf8(hs[k])
<1>1. k - 1 \in 0..Len(hs) /\ k \in 0..Len(hs) /\ k \in Nat
  BY HeadersTyped
<1>2. /\ p \in Seq(Pairs) /\ Len(p) = k - 1
      /\ q \in Seq(Pairs) /\ Len(q) = k /\ x \in Pairs
  BY <1>1, HeadersTyped
<1>3. /\ \A i \in 1..k - 1 : p[i] = InUtf8(hs[i])
      /\ \A i \in 1..k : q[i] = InUtf8(hs[i])
  BY DEF Taken
<1> HIDE DEF p, q, x
<1>4. /\ Append(p, x) \in Seq(Pairs) /\ Len(Append(p, x)) = Len(p) + 1
      /\ \A i \in 1..Len(p) : Append(p, x)[i] = p[i]
      /\ Append(p, x)[Len(p) + 1] = x
  BY <1>2, AppendProperties
<1>5. (k - 1) + 1 = k /\ \A i \in 1..k : i = k \/ i \in 1..k - 1
  BY <1>1
<1>6. \A i \in 1..k : Append(p, x)[i] = q[i]
  BY <1>2, <1>3, <1>4, <1>5 DEF x
<1>7. Append(p, x) = q
  BY <1>2, <1>4, <1>5, <1>6, SeqEqual
<1> QED BY <1>7 DEF p, q, x

LEMMA HeadersReadExists ==
  ASSUME NEW pkt \in Seq(Nat)
  PROVE  /\ HeadersRead(pkt)[0] = [off |-> 1, ok |-> TRUE, hs |-> << >>]
         /\ \A k \in Nat : HeadersRead(pkt)[k + 1] = ReadHeader(pkt, HeadersRead(pkt)[k])
<1> DEFINE v0 == [off |-> 1, ok |-> TRUE, hs |-> << >>]
           g == [v \in Reading |-> ReadHeader(pkt, v)]
           Reads(r) == r = [k \in Nat |-> IF k = 0 THEN v0 ELSE ReadHeader(pkt, r[k - 1])]
<1>1. v0 \in Reading
  BY EmptySeq DEF Reading
<1>2. ASSUME NEW v \in Reading PROVE ReadHeader(pkt, v) \in Reading
  <2> DEFINE name == ReadSized(pkt, v.off)
             value == ReadSized(pkt, name.off)
  <2>1. v.off \in Nat /\ v.ok \in BOOLEAN /\ v.hs \in Seq(Pairs)
    BY DEF Reading
  <2>2. name.off \in Nat /\ name.val \in Seq(Nat)
    BY <2>1, BlobTyped
  <2> HIDE DEF name
  <2>3. value.off \in Nat /\ value.val \in Seq(Nat)
    BY <2>2, BlobTyped
  <2>4. Append(v.hs, <<name.val, value.val>>) \in Seq(Pairs)
    <3>1. <<name.val, value.val>> \in Pairs
      BY <2>2, <2>3 DEF Pairs
    <3> HIDE DEF value
    <3> QED BY <2>1, <3>1, AppendProperties
  <2>5. ReadHeader(pkt, v) = IF ~v.ok THEN v
                             ELSE IF ~name.ok \/ ~value.ok THEN [v EXCEPT !.ok = FALSE]
                             ELSE [off |-> value.off, ok |-> TRUE,
                                   hs |-> Append(v.hs, <<name.val, value.val>>)]
    BY DEF ReadHeader, name
  <2> HIDE DEF value
  <2>6. [v EXCEPT !.ok = FALSE] \in Reading
    BY DEF Reading
  <2>7. [off |-> value.off, ok |-> TRUE, hs |-> Append(v.hs, <<name.val, value.val>>)] \in Reading
    BY <2>3, <2>4 DEF Reading
  <2> QED BY <2>5, <2>6, <2>7
<1>3. g \in [Reading -> Reading]
  BY <1>2
<1>4. \A v \in Reading : g[v] = ReadHeader(pkt, v)
  OBVIOUS
<1> HIDE DEF g, v0
<1>5. PICK f : f \in [Nat -> Reading] /\ Repeats(f, v0, g)
  BY <1>1, <1>3, RepetitionExists
<1>6. Reads(f)
  <2>1. \A k \in Nat : f[k] = IF k = 0 THEN v0 ELSE g[f[k - 1]]
    BY <1>5 DEF Repeats
  <2>2. \A k \in Nat : k # 0 => k - 1 \in Nat
    OBVIOUS
  <2>3. \A k \in Nat : f[k] = IF k = 0 THEN v0 ELSE ReadHeader(pkt, f[k - 1])
    BY <1>4, <1>5, <2>1, <2>2
  <2>4. f = [k \in Nat |-> f[k]]
    BY <1>5
  <2> QED BY <2>3, <2>4
<1>7. HeadersRead(pkt) = CHOOSE r : Reads(r)
  BY DEF HeadersRead, v0
<1>8. Reads(HeadersRead(pkt))
  BY <1>6, <1>7
<1>9. HeadersRead(pkt)[0] = v0
  BY <1>8
<1>10. ASSUME NEW k \in Nat
       PROVE  HeadersRead(pkt)[k + 1] = ReadHeader(pkt, HeadersRead(pkt)[k])
  <2>1. k + 1 \in Nat /\ k + 1 # 0 /\ (k + 1) - 1 = k
    OBVIOUS
  <2> QED BY <1>8, <2>1
<1> QED BY <1>9, <1>10 DEF v0

(* parseHeaderPacket() reads every name and value that encodeHeaders() was *)
(* given, in order, of any list of headers.                                *)
THEOREM HeadersReadBack ==
  ASSUME NEW hs \in HeaderLists
  PROVE  EncodeHeaders(hs) \in Seq(Nat) /\ HeadersRoundTrip(hs)
<1> DEFINE n == Len(hs)
           pkt == EncodeHeaders(hs)
           es == Entries(hs)
           x == <<n>>
           flat == FlattenSeq(es)
<1>1. /\ n \in Nat /\ DOMAIN hs = 1..n
      /\ \A i \in 1..n : /\ Utf8(hs[i][1]) \in Seq(Nat) /\ Utf8(hs[i][2]) \in Seq(Nat)
                         /\ InUtf8(hs[i]) \in Pairs /\ Entry(hs[i]) \in Seq(Nat)
      /\ es \in Seq(Seq(Nat)) /\ Len(es) = n
      /\ pkt = x \o flat
  BY HeadersTyped
<1>2. \A i \in 1..n : es[i] = Entry(hs[i])
  BY DEF Entries
<1> HIDE DEF es
<1>3. PICK F : Flattening(F, es, Nat)
  BY <1>1, FlatteningExists
<1>4. flat = F[n] /\ flat \in Seq(Nat) /\ \A k \in 0..n : F[k] \in Seq(Nat) /\ Len(F[k]) \in Nat
  <2>1. flat = F[n]
    BY <1>1, <1>3, FlattensTo
  <2>2. \A k \in 0..n : F[k] \in Seq(Nat)
    BY <1>1, <1>3 DEF Flattening
  <2> QED BY <1>1, <2>1, <2>2, LenProperties
<1>5. F[0] = << >> /\ \A k \in 1..n : F[k] = F[k - 1] \o es[k]
  BY <1>1, <1>3 DEF Flattening
<1> HIDE DEF flat
<1>6. x \in Seq(Nat) /\ Len(x) = 1 /\ x[1] = n
  BY <1>1, OneNumber
<1> HIDE DEF x, pkt
<1>7. pkt \in Seq(Nat) /\ Len(pkt) \in Nat
  BY <1>1, <1>4, <1>6, ConcatProperties, LenProperties
<1>8. Lies(pkt, 0, x) /\ Lies(pkt, 1, F[n])
  <2>1. Lies(pkt, 0, x \o flat)
    BY <1>1, <1>7, LiesInItself
  <2>2. 0 + Len(x) = 1
    BY <1>6
  <2>3. Lies(pkt, 0, x) /\ Lies(pkt, 0 + Len(x), flat)
    BY <1>4, <1>6, <1>7, <2>1, LiesApart
  <2> QED BY <1>4, <2>2, <2>3
<1>9. pkt # << >> /\ pkt[1] = n
  <2>1. 1 <= Len(pkt) /\ pkt[0 + 1] = n
    BY <1>6, <1>8 DEF Lies
  <2>2. Len(<< >>) = 0
    BY EmptySeq
  <2> QED BY <2>1, <2>2
<1>10. \A k \in 1..n : Lies(pkt, 1 + Len(F[k - 1]), es[k])
  BY <1>1, <1>3, <1>7, <1>8, LiesFlat
<1> DEFINE Before(k) == [off |-> 1 + Len(F[k]), ok |-> TRUE, hs |-> Taken(hs, k)]
           read == HeadersRead(pkt)
<1>11. ASSUME NEW k \in 1..n PROVE ReadHeader(pkt, Before(k - 1)) = Before(k)
  <2> DEFINE b1 == Utf8(hs[k][1])
             b2 == Utf8(hs[k][2])
             off == 1 + Len(F[k - 1])
             s1 == Sized(b1)
             s2 == Sized(b2)
  <2>1. b1 \in Seq(Nat) /\ b2 \in Seq(Nat) /\ es[k] = s1 \o s2
    BY <1>1, <1>2 DEF Entry
  <2>2. k - 1 \in 0..n /\ Len(F[k - 1]) \in Nat /\ F[k - 1] \in Seq(Nat) /\ off \in Nat
    BY <1>1, <1>4
  <2>3. Lies(pkt, off, s1 \o s2)
    BY <1>10, <2>1
  <2>4. <<b1, b2>> = InUtf8(hs[k])
    BY DEF InUtf8
  <2> HIDE DEF b1, b2
  <2>5. s1 \in Seq(Nat) /\ s2 \in Seq(Nat) /\ Len(s1) \in Nat /\ Len(s2) \in Nat
    BY <2>1, SizedTyped, LenProperties
  <2>6. Lies(pkt, off, s1) /\ Lies(pkt, off + Len(s1), s2)
    <3> HIDE DEF s1, s2, off
    <3> QED BY <1>7, <2>2, <2>3, <2>5, LiesApart
  <2>7. ReadSized(pkt, off) = [ok |-> TRUE, val |-> b1, off |-> off + Len(s1)]
    <3> HIDE DEF off
    <3> QED BY <1>7, <2>1, <2>2, <2>6, BlobRead
  <2>8. ReadSized(pkt, off + Len(s1)) = [ok |-> TRUE, val |-> b2, off |-> off + Len(s1) + Len(s2)]
    <3>1. off + Len(s1) \in Nat
      BY <2>2, <2>5
    <3> HIDE DEF off
    <3> QED BY <1>7, <2>1, <3>1, <2>6, BlobRead
  <2>9. off + Len(s1) + Len(s2) = 1 + Len(F[k])
    <3> HIDE DEF s1, s2
    <3>1. Len(F[k - 1] \o (s1 \o s2)) = Len(F[k - 1]) + (Len(s1) + Len(s2))
      BY <2>2, <2>5, ConcatProperties
    <3>2. F[k] = F[k - 1] \o (s1 \o s2)
      BY <1>5, <2>1
    <3>3. Len(F[k]) = Len(F[k - 1]) + (Len(s1) + Len(s2))
      BY <3>1, <3>2
    <3>4. \A p, q, r \in Nat : 1 + p + q + r = 1 + (p + (q + r))
      OBVIOUS
    <3>5. 1 + Len(F[k - 1]) + Len(s1) + Len(s2) = 1 + (Len(F[k - 1]) + (Len(s1) + Len(s2)))
      BY <2>2, <2>5, <3>4
    <3> QED BY <3>3, <3>5
  <2>10. Append(Taken(hs, k - 1), <<b1, b2>>) = Taken(hs, k)
    BY <2>4, TakenGrows
  <2> HIDE DEF s1, s2, off
  <2>11. Before(k - 1) = [off |-> off, ok |-> TRUE, hs |-> Taken(hs, k - 1)]
    BY DEF off
  <2>12. ReadHeader(pkt, Before(k - 1)) = [off |-> off + Len(s1) + Len(s2), ok |-> TRUE,
                                           hs |-> Append(Taken(hs, k - 1), <<b1, b2>>)]
    <3> DEFINE a == Before(k - 1)
               name == ReadSized(pkt, a.off)
               value == ReadSized(pkt, name.off)
    <3>1. a.off = off /\ a.ok = TRUE /\ a.hs = Taken(hs, k - 1)
      BY <2>11
    <3>2. ReadHeader(pkt, a) = IF ~a.ok THEN a
                               ELSE IF ~name.ok \/ ~value.ok THEN [a EXCEPT !.ok = FALSE]
                               ELSE [off |-> value.off, ok |-> TRUE,
                                     hs |-> Append(a.hs, <<name.val, value.val>>)]
      BY DEF ReadHeader
    <3> HIDE DEF a
    <3>3. name.ok = TRUE /\ name.val = b1 /\ name.off = off + Len(s1)
      BY <2>7, <3>1
    <3> HIDE DEF name
    <3>4. value.ok = TRUE /\ value.val = b2 /\ value.off = off + Len(s1) + Len(s2)
      BY <2>8, <3>3
    <3> HIDE DEF value
    <3> QED BY <3>1, <3>2, <3>3, <3>4 DEF a
  <2> QED BY <2>9, <2>10, <2>12
<1>12. read[0] = Before(0) /\ \A k \in Nat : read[k + 1] = ReadHeader(pkt, read[k])
  <2>1. /\ read[0] = [off |-> 1, ok |-> TRUE, hs |-> << >>]
        /\ \A k \in Nat : read[k + 1] = ReadHeader(pkt, read[k])
    BY <1>7, HeadersReadExists
  <2>2. 1 + Len(F[0]) = 1
    BY <1>5, EmptySeq
  <2>3. Taken(hs, 0) = << >>
    <3>1. 0 \in 0..n
      BY <1>1
    <3>2. Taken(hs, 0) \in Seq(Pairs) /\ Len(Taken(hs, 0)) = 0
      BY <3>1, HeadersTyped
    <3> QED BY <3>2, EmptySeq
  <2> QED BY <2>1, <2>2, <2>3
<1> HIDE DEF Before, read
<1> DEFINE T == {k \in Nat : k \in 0..n => read[k] = Before(k)}
<1>13. 0 \in T
  BY <1>12
<1>14. ASSUME NEW k \in Nat, k \in T PROVE k + 1 \in T
  <2>1. ASSUME k + 1 \in 0..n PROVE read[k + 1] = Before(k + 1)
    <3>1. k \in 0..n /\ k + 1 \in 1..n /\ (k + 1) - 1 = k
      BY <1>1, <2>1
    <3>2. read[k] = Before(k)
      BY <1>14, <3>1
    <3>3. ReadHeader(pkt, Before(k)) = Before(k + 1)
      BY <1>11, <3>1
    <3> QED BY <1>12, <3>2, <3>3
  <2> QED BY <2>1
<1>15. read[n] = Before(n)
  <2> HIDE DEF T
  <2>1. Nat \subseteq T
    BY <1>13, <1>14, Induction
  <2> QED BY <1>1, <2>1 DEF T
<1>16. DecodeHeaders(pkt) = Before(n)
  BY <1>9, <1>15 DEF DecodeHeaders, read
<1>17. DecodeHeaders(pkt).ok /\ DecodeHeaders(pkt).hs = Taken(hs, n)
  BY <1>16 DEF Before
<1>18. Taken(hs, n) = [k \in DOMAIN hs |-> <<Utf8(hs[k][1]), Utf8(hs[k][2])>>]
  BY <1>1 DEF Taken, InUtf8
<1> QED BY <1>7, <1>17, <1>18 DEF HeadersRoundTrip, pkt

(***************************************************************************)
(* Requests.                                                               *)
(***************************************************************************)
PacketFields == {"addr", "cport", "sport", "method", "proto", "url", "hdr", "body"}

(* What each field of the packet of a request holds.                       *)
Sent(req) ==
  [addr |-> Cut(req, "addr"),
   cport |-> req.cport % (MaxAddr + 1), sport |-> req.sport % (MaxAddr + 1),
   method |-> Cut(req, "method"), proto |-> Cut(req, "proto"), url |-> Cut(req, "url"),
   hdr |-> EncodeHeaders(req.headers), body |-> Utf8(req.body)]

(* What is known of a cursor when the fields done have been read.          *)
ReadSoFar(a, off, done, want) ==
  /\ a.ok = TRUE /\ a.off = off /\ DOMAIN a.vals = PacketFields
  /\ \A g \in done : a.vals[g] = want[g]

LEMMA NumberFieldRead ==
  ASSUME NEW pkt, Len(pkt) \in Nat, NEW off \in Nat, NEW a, NEW done, NEW want,
         NEW f \in Ports, want[f] \in Nat,
         ReadSoFar(a, off, done, want), Lies(pkt, off, <<want[f]>>)
  PROVE  ReadSoFar(ReadField(pkt, a, f), off + 1, done \cup {f}, want)
<1> DEFINE r == ReadNum(pkt, a.off)
<1>1. a.ok = TRUE /\ a.off = off /\ DOMAIN a.vals = PacketFields /\ \A g \in done : a.vals[g] = want[g]
  BY DEF ReadSoFar
<1>2. r.ok = TRUE /\ r.val = want[f] /\ r.off = off + 1
  BY <1>1, NumberRead
<1>3. ReadField(pkt, a, f) = After(a, f, r)
  BY DEF ReadField, ReadAt
<1> HIDE DEF r
<1>4. f \in PacketFields
  BY DEF PacketFields, Ports
<1> DEFINE vals == [a.vals EXCEPT ![f] = r.val]
<1>5. DOMAIN vals = PacketFields /\ \A g \in done \cup {f} : vals[g] = want[g]
  BY <1>1, <1>2, <1>4
<1> HIDE DEF vals
<1>6. After(a, f, r) = [off |-> r.off, ok |-> a.ok /\ r.ok, vals |-> vals]
  BY DEF After, vals
<1> DEFINE q == ReadField(pkt, a, f)
<1>7. q.off = r.off /\ q.ok = (a.ok /\ r.ok) /\ q.vals = vals
  BY <1>3, <1>6
<1> HIDE DEF q
<1>8. q.ok = TRUE /\ q.off = off + 1
  BY <1>1, <1>2, <1>7
<1> QED BY <1>5, <1>7, <1>8 DEF ReadSoFar, q

LEMMA BlobFieldRead ==
  ASSUME NEW pkt, Len(pkt) \in Nat, NEW off \in Nat, NEW a, NEW done, NEW want,
         NEW f \in PacketFields \ Ports, want[f] \in Seq(Nat),
         ReadSoFar(a, off, done, want), Lies(pkt, off, Sized(want[f]))
  PROVE  ReadSoFar(ReadField(pkt, a, f), off + Len(Sized(want[f])), done \cup {f}, want)
<1> DEFINE r == ReadSized(pkt, a.off)
           c == want[f]
<1>1. a.ok = TRUE /\ a.off = off /\ DOMAIN a.vals = PacketFields /\ \A g \in done : a.vals[g] = want[g]
  BY DEF ReadSoFar
<1>2. r.ok = TRUE /\ r.val = want[f] /\ r.off = off + Len(Sized(want[f]))
  <2>1. ReadSized(pkt, off) = [ok |-> TRUE, val |-> c, off |-> off + Len(Sized(c))]
    <3>1. c \in Seq(Nat) /\ Lies(pkt, off, Sized(c))
      OBVIOUS
    <3> HIDE DEF c
    <3> QED BY <3>1, BlobRead
  <2> QED BY <1>1, <2>1
<1>3. ReadField(pkt, a, f) = After(a, f, r)
  BY DEF ReadField, ReadAt
<1> HIDE DEF r
<1> DEFINE vals == [a.vals EXCEPT ![f] = r.val]
<1>5. DOMAIN vals = PacketFields /\ \A g \in done \cup {f} : vals[g] = want[g]
  BY <1>1, <1>2
<1> HIDE DEF vals
<1>6. After(a, f, r) = [off |-> r.off, ok |-> a.ok /\ r.ok, vals |-> vals]
  BY DEF After, vals
<1> DEFINE q == ReadField(pkt, a, f)
<1>7. q.off = r.off /\ q.ok = (a.ok /\ r.ok) /\ q.vals = vals
  BY <1>3, <1>6
<1> HIDE DEF q
<1>8. q.ok = TRUE /\ q.off = off + Len(Sized(want[f]))
  BY <1>1, <1>2, <1>7
<1> QED BY <1>5, <1>7, <1>8 DEF ReadSoFar, q

LEMMA WrapsToItself ==
  ASSUME NEW m \in Nat, NEW n \in 0..m
  PROVE  n % (m + 1) = n
OBVIOUS

LEMMA WrapsBelow ==
  ASSUME NEW m \in Nat, NEW n \in Nat
  PROVE  n % (m + 1) \in Nat
OBVIOUS

(* Numbers of limited width hold the lengths of the fields cut to fit.     *)
LEMMA CutFits ==
  ASSUME NEW req \in Bundles, NEW f \in FieldNames
  PROVE  /\ Cut(req, f) \in Seq(Nat)
         /\ f # "url" => Len(Cut(req, f)) % (Widest[f] + 1) = Len(Cut(req, f))
<1> DEFINE b == Utf8(req[f])
           w == Widest[f]
           e == CutAt(b, w)
<1>1. req[f] \in Strings /\ b \in Seq(Nat) /\ (f # "url" => w \in Nat)
  BY FieldsFit
<1>2. CASE f = "url"
  BY <1>1, <1>2 DEF Cut
<1>3. CASE f # "url"
  <2>1. SubSeq(b, 1, e) = Cut(req, f) /\ e \in 0..Len(b) /\ e <= w
    BY <1>1, <1>3, CutIsClip DEF Cut
  <2> HIDE DEF b, e, w
  <2>2. Cut(req, f) \in Seq(Nat) /\ Len(Cut(req, f)) = e
    BY <1>1, <2>1, Beginning
  <2>3. w \in Nat /\ e \in 0..w
    BY <1>1, <1>3, <2>1
  <2>4. e % (w + 1) = e
    BY <2>3, WrapsToItself
  <2> QED BY <2>2, <2>4 DEF w
<1> QED BY <1>2, <1>3

LEMMA SentTyped ==
  ASSUME NEW req \in Bundles
  PROVE  /\ \A f \in PacketFields \ Ports : Sent(req)[f] \in Seq(Nat)
         /\ \A f \in Ports : Sent(req)[f] \in Nat
         /\ req.headers \in HeaderLists
         /\ EncodeBundle(req) =
              Sized(Sent(req).addr) \o <<Sent(req).cport, Sent(req).sport>>
              \o Sized(Sent(req).method) \o Sized(Sent(req).proto) \o Sized(Sent(req).url)
              \o Sized(Sent(req).hdr) \o Sized(Sent(req).body)
<1>1. req.headers \in HeaderLists /\ req.body \in Strings /\ req.cport \in Nat /\ req.sport \in Nat
  BY DEF Bundles
<1>2. req.cport % (MaxAddr + 1) \in Nat /\ req.sport % (MaxAddr + 1) \in Nat
  BY <1>1, WidthAssumption, WrapsBelow
<1>3. EncodeHeaders(req.headers) \in Seq(Nat) /\ Utf8(req.body) \in Seq(Nat)
  BY <1>1, HeadersReadBack, Utf8Typed
<1>4. "addr" \in FieldNames /\ "method" \in FieldNames /\ "proto" \in FieldNames /\ "url" \in FieldNames
  BY DEF FieldNames
<1>5. /\ Cut(req, "addr") \in Seq(Nat) /\ Cut(req, "method") \in Seq(Nat)
      /\ Cut(req, "proto") \in Seq(Nat) /\ Cut(req, "url") \in Seq(Nat)
  BY <1>4, CutFits
<1>6. \A f \in PacketFields \ Ports : Sent(req)[f] \in Seq(Nat)
  BY <1>3, <1>5 DEF PacketFields, Ports, Sent
<1>7. \A f \in Ports : Sent(req)[f] \in Nat
  BY <1>2 DEF Sent, Ports
<1> DEFINE Short(f) == <<Len(Seen(Written(req), f)) % (Widest[f] + 1)>> \o Seen(Written(req), f)
<1>8. ASSUME NEW f \in FieldNames, f # "url" PROVE Short(f) = Sized(Cut(req, f))
  <2>1. Seen(Written(req), f) = Cut(req, f)
    BY FieldsSeen
  <2>2. Len(Cut(req, f)) % (Widest[f] + 1) = Len(Cut(req, f))
    BY <1>8, CutFits
  <2> QED BY <2>1, <2>2 DEF Sized
<1>9. Seen(Written(req), "url") = Cut(req, "url")
  BY <1>4, FieldsSeen
<1>10. EncodeBundle(req) =
         Short("addr") \o <<req.cport % (MaxAddr + 1), req.sport % (MaxAddr + 1)>>
         \o Short("method") \o Short("proto") \o Sized(Seen(Written(req), "url"))
         \o Sized(EncodeHeaders(req.headers)) \o Sized(Utf8(req.body))
  BY DEF EncodeBundle
<1>11. /\ Short("addr") = Sized(Cut(req, "addr")) /\ Short("method") = Sized(Cut(req, "method"))
       /\ Short("proto") = Sized(Cut(req, "proto"))
  BY <1>4, <1>8
<1> HIDE DEF Short
<1>12. EncodeBundle(req) =
         Sized(Cut(req, "addr")) \o <<req.cport % (MaxAddr + 1), req.sport % (MaxAddr + 1)>>
         \o Sized(Cut(req, "method")) \o Sized(Cut(req, "proto")) \o Sized(Cut(req, "url"))
         \o Sized(EncodeHeaders(req.headers)) \o Sized(Utf8(req.body))
  BY <1>9, <1>10, <1>11
<1> QED BY <1>1, <1>6, <1>7, <1>12 DEF Sent

(* txProcessRequestBundle() reads the fields of any request that encode-   *)
(* RequestBundle() packs, the short ones cut between characters: whether   *)
(* they share scratchBuf or do not fit, and although their sizes are       *)
(* written in numbers that wrap.                                           *)
THEOREM RequestsReadBack ==
  ASSUME NEW req \in Bundles
  PROVE  RequestRoundTrips(req)
<1> DEFINE want == Sent(req)
           pkt == EncodeBundle(req)
           x1 == Sized(want.addr)
           x2 == <<want.cport>>
           x3 == <<want.sport>>
           x4 == Sized(want.method)
           x5 == Sized(want.proto)
           x6 == Sized(want.url)
           x7 == Sized(want.hdr)
           x8 == Sized(want.body)
<1>1. /\ want.addr \in Seq(Nat) /\ want.method \in Seq(Nat) /\ want.proto \in Seq(Nat)
      /\ want.url \in Seq(Nat) /\ want.hdr \in Seq(Nat) /\ want.body \in Seq(Nat)
      /\ want.cport \in Nat /\ want.sport \in Nat
  BY SentTyped DEF PacketFields, Ports
<1>2. pkt = x1 \o <<want.cport, want.sport>> \o x4 \o x5 \o x6 \o x7 \o x8
  BY SentTyped
<1>3. <<want.cport, want.sport>> = x2 \o x3
  BY <1>1, TwoNumbers
<1>4. /\ x1 \in Seq(Nat) /\ x2 \in Seq(Nat) /\ x3 \in Seq(Nat) /\ x4 \in Seq(Nat)
      /\ x5 \in Seq(Nat) /\ x6 \in Seq(Nat) /\ x7 \in Seq(Nat) /\ x8 \in Seq(Nat)
      /\ Len(x2) = 1 /\ Len(x3) = 1
  BY <1>1, SizedTyped, OneNumber
<1>5. x1 = Sized(want.addr) /\ x2 = <<want.cport>> /\ x3 = <<want.sport>>
  OBVIOUS
<1> DEFINE xp == x2 \o x3
           y2 == x1 \o xp
           y3 == y2 \o x4
           y4 == y3 \o x5
           y5 == y4 \o x6
           y6 == y5 \o x7
           o1 == 0
           o2 == Len(x1)
           o3 == o2 + 1
           o4 == o3 + 1
           o5 == o4 + Len(x4)
           o6 == o5 + Len(x5)
           o7 == o6 + Len(x6)
           o8 == o7 + Len(x7)
           o9 == o8 + Len(x8)
<1>6. pkt = y6 \o x8
  BY <1>2, <1>3
<1> HIDE DEF pkt, x1, x2, x3, x4, x5, x6, x7, x8
<1>7. /\ xp \in Seq(Nat) /\ Len(xp) = 2 /\ y2 \in Seq(Nat) /\ y3 \in Seq(Nat) /\ y4 \in Seq(Nat) /\ y5 \in Seq(Nat)
      /\ y6 \in Seq(Nat) /\ pkt \in Seq(Nat)
  <2>1. xp \in Seq(Nat) /\ Len(xp) = 2
    <3>1. xp \in Seq(Nat) /\ Len(xp) = Len(x2) + Len(x3)
      BY <1>4, ConcatProperties
    <3> QED BY <1>4, <3>1
  <2> HIDE DEF xp
  <2>2. y2 \in Seq(Nat)
    BY <1>4, <2>1, ConcatProperties
  <2> HIDE DEF y2
  <2>3. y3 \in Seq(Nat)
    BY <1>4, <2>2, ConcatProperties
  <2> HIDE DEF y3
  <2>4. y4 \in Seq(Nat)
    BY <1>4, <2>3, ConcatProperties
  <2> HIDE DEF y4
  <2>5. y5 \in Seq(Nat)
    BY <1>4, <2>4, ConcatProperties
  <2> HIDE DEF y5
  <2>6. y6 \in Seq(Nat)
    BY <1>4, <2>5, ConcatProperties
  <2> HIDE DEF y6
  <2>7. pkt \in Seq(Nat)
    BY <1>4, <1>6, <2>6, ConcatProperties
  <2> QED BY <2>1, <2>2, <2>3, <2>4, <2>5, <2>6, <2>7
<1>8. /\ Len(x1) \in Nat /\ Len(x4) \in Nat /\ Len(x5) \in Nat /\ Len(x6) \in Nat
      /\ Len(x7) \in Nat /\ Len(x8) \in Nat /\ Len(pkt) \in Nat
  BY <1>4, <1>7, LenProperties
<1>9. /\ o1 \in Nat /\ o2 \in Nat /\ o3 \in Nat /\ o4 \in Nat /\ o5 \in Nat
      /\ o6 \in Nat /\ o7 \in Nat /\ o8 \in Nat
  BY <1>8
<1>10. /\ Len(y2) = o4 /\ Len(y3) = o5 /\ Len(y4) = o6 /\ Len(y5) = o7 /\ Len(y6) = o8
  <2>1. Len(y2) = o4
    <3> HIDE DEF xp
    <3>1. Len(y2) = Len(x1) + Len(xp)
      BY <1>4, <1>7, ConcatProperties
    <3> QED BY <1>7, <1>8, <3>1
  <2> HIDE DEF y2, o4
  <2>2. Len(y3) = o5
    BY <1>4, <1>7, <2>1, ConcatProperties
  <2> HIDE DEF y3, o5
  <2>3. Len(y4) = o6
    BY <1>4, <1>7, <2>2, ConcatProperties
  <2> HIDE DEF y4, o6
  <2>4. Len(y5) = o7
    BY <1>4, <1>7, <2>3, ConcatProperties
  <2> HIDE DEF y5, o7
  <2>5. Len(y6) = o8
    BY <1>4, <1>7, <2>4, ConcatProperties
  <2> QED BY <2>1, <2>2, <2>3, <2>4, <2>5
<1> HIDE DEF o4, o5, o6, o7, o8
<1>11. /\ Lies(pkt, o1, x1) /\ Lies(pkt, o2, x2) /\ Lies(pkt, o3, x3) /\ Lies(pkt, o4, x4)
       /\ Lies(pkt, o5, x5) /\ Lies(pkt, o6, x6) /\ Lies(pkt, o7, x7) /\ Lies(pkt, o8, x8)
  <2>0. \A n \in Nat : 0 + n = n
    OBVIOUS
  <2> HIDE DEF y6
  <2>1. Lies(pkt, 0, y6) /\ Lies(pkt, o8, x8)
    <3>1. Lies(pkt, 0, y6 \o x8)
      BY <1>6, <1>7, LiesInItself
    <3>2. Lies(pkt, 0, y6) /\ Lies(pkt, 0 + Len(y6), x8)
      BY <1>4, <1>7, <1>8, <3>1, LiesApart
    <3> QED BY <1>9, <1>10, <2>0, <3>2
  <2> USE DEF y6
  <2> HIDE DEF y5
  <2>2. Lies(pkt, 0, y5) /\ Lies(pkt, o7, x7)
    <3>1. Lies(pkt, 0, y5 \o x7)
      BY <2>1
    <3>2. Lies(pkt, 0, y5) /\ Lies(pkt, 0 + Len(y5), x7)
      BY <1>4, <1>7, <1>8, <3>1, LiesApart
    <3> QED BY <1>9, <1>10, <2>0, <3>2
  <2> USE DEF y5
  <2> HIDE DEF y4
  <2>3. Lies(pkt, 0, y4) /\ Lies(pkt, o6, x6)
    <3>1. Lies(pkt, 0, y4 \o x6)
      BY <2>2
    <3>2. Lies(pkt, 0, y4) /\ Lies(pkt, 0 + Len(y4), x6)
      BY <1>4, <1>7, <1>8, <3>1, LiesApart
    <3> QED BY <1>9, <1>10, <2>0, <3>2
  <2> USE DEF y4
  <2> HIDE DEF y3
  <2>4. Lies(pkt, 0, y3) /\ Lies(pkt, o5, x5)
    <3>1. Lies(pkt, 0, y3 \o x5)
      BY <2>3
    <3>2. Lies(pkt, 0, y3) /\ Lies(pkt, 0 + Len(y3), x5)
      BY <1>4, <1>7, <1>8, <3>1, LiesApart
    <3> QED BY <1>9, <1>10, <2>0, <3>2
  <2> USE DEF y3
  <2> HIDE DEF y2
  <2>5. Lies(pkt, 0, y2) /\ Lies(pkt, o4, x4)
    <3>1. Lies(pkt, 0, y2 \o x4)
      BY <2>4
    <3>2. Lies(pkt, 0, y2) /\ Lies(pkt, 0 + Len(y2), x4)
      BY <1>4, <1>7, <1>8, <3>1, LiesApart
    <3> QED BY <1>9, <1>10, <2>0, <3>2
  <2> USE DEF y2
  <2> HIDE DEF xp
  <2>6. Lies(pkt, 0, x1) /\ Lies(pkt, o2, xp)
    <3>1. Lies(pkt, 0, x1 \o xp)
      BY <2>5
    <3>2. Lies(pkt, 0, x1) /\ Lies(pkt, 0 + Len(x1), xp)
      BY <1>4, <1>7, <1>8, <3>1, LiesApart
    <3> QED BY <1>8, <2>0, <3>2
  <2> USE DEF xp
  <2>7. Lies(pkt, o2, x2) /\ Lies(pkt, o3, x3)
    <3> HIDE DEF o2
    <3>1. Lies(pkt, o2, x2 \o x3)
      BY <2>6
    <3>2. Lies(pkt, o2, x2) /\ Lies(pkt, o2 + Len(x2), x3)
      BY <1>4, <1>7, <1>8, <1>9, <3>1, LiesApart
    <3> QED BY <1>4, <3>2
  <2> QED BY <2>1, <2>2, <2>3, <2>4, <2>5, <2>6, <2>7
<1> HIDE DEF o1, o2, o3
<1> DEFINE a1 == ReadField(pkt, Unread, "addr")
           a2 == ReadField(pkt, a1, "cport")
           a3 == ReadField(pkt, a2, "sport")
           a4 == ReadField(pkt, a3, "method")
           a5 == ReadField(pkt, a4, "proto")
           a6 == ReadField(pkt, a5, "url")
           a7 == ReadField(pkt, a6, "hdr")
           a8 == ReadField(pkt, a7, "body")
<1>12. DecodeBundle(pkt) = a8
  BY DEF DecodeBundle
<1>13. ReadSoFar(a8, o9, {} \cup {"addr"} \cup {"cport"} \cup {"sport"} \cup {"method"}
                         \cup {"proto"} \cup {"url"} \cup {"hdr"} \cup {"body"}, want)
  <2> HIDE DEF want
  <2>0. ReadSoFar(Unread, o1, {}, want)
    BY DEF ReadSoFar, Unread, PacketFields, o1
  <2>f. /\ "addr" \in PacketFields \ Ports /\ "method" \in PacketFields \ Ports
        /\ "proto" \in PacketFields \ Ports /\ "url" \in PacketFields \ Ports
        /\ "hdr" \in PacketFields \ Ports /\ "body" \in PacketFields \ Ports
    BY DEF PacketFields, Ports
  <2>p. "cport" \in Ports /\ "sport" \in Ports
    BY DEF Ports
  <2>1. ReadSoFar(a1, o2, {} \cup {"addr"}, want)
    <3>1. ReadSoFar(a1, o1 + Len(Sized(want.addr)), {} \cup {"addr"}, want)
      BY <1>1, <1>8, <1>9, <1>11, <2>0, <2>f, BlobFieldRead DEF x1
    <3>2. o1 + Len(Sized(want.addr)) = o2
      BY <1>8 DEF x1, o1, o2
    <3> QED BY <3>1, <3>2
  <2> HIDE DEF a1
  <2>2. ReadSoFar(a2, o3, {} \cup {"addr"} \cup {"cport"}, want)
    BY <1>1, <1>8, <1>9, <1>11, <2>1, <2>p, NumberFieldRead DEF x2, o3
  <2> HIDE DEF a2
  <2>3. ReadSoFar(a3, o4, {} \cup {"addr"} \cup {"cport"} \cup {"sport"}, want)
    BY <1>1, <1>8, <1>9, <1>11, <2>2, <2>p, NumberFieldRead DEF x3, o4
  <2> HIDE DEF a3
  <2>4. ReadSoFar(a4, o5, {} \cup {"addr"} \cup {"cport"} \cup {"sport"} \cup {"method"}, want)
    BY <1>1, <1>8, <1>9, <1>11, <2>3, <2>f, BlobFieldRead DEF x4, o5
  <2> HIDE DEF a4
  <2>5. ReadSoFar(a5, o6, {} \cup {"addr"} \cup {"cport"} \cup {"sport"} \cup {"method"}
                          \cup {"proto"}, want)
    BY <1>1, <1>8, <1>9, <1>11, <2>4, <2>f, BlobFieldRead DEF x5, o6
  <2> HIDE DEF a5
  <2>6. ReadSoFar(a6, o7, {} \cup {"addr"} \cup {"cport"} \cup {"sport"} \cup {"method"}
                          \cup {"proto"} \cup {"url"}, want)
    BY <1>1, <1>8, <1>9, <1>11, <2>5, <2>f, BlobFieldRead DEF x6, o7
  <2> HIDE DEF a6
  <2>7. ReadSoFar(a7, o8, {} \cup {"addr"} \cup {"cport"} \cup {"sport"} \cup {"method"}
                          \cup {"proto"} \cup {"url"} \cup {"hdr"}, want)
    BY <1>1, <1>8, <1>9, <1>11, <2>6, <2>f, BlobFieldRead DEF x7, o8
  <2> HIDE DEF a7
  <2>8. ReadSoFar(a8, o8 + Len(Sized(want.body)),
                  {} \cup {"addr"} \cup {"cport"} \cup {"sport"} \cup {"method"}
                     \cup {"proto"} \cup {"url"} \cup {"hdr"} \cup {"body"}, want)
    BY <1>1, <1>8, <1>9, <1>11, <2>7, <2>f, BlobFieldRead DEF x8
  <2> QED BY <2>8 DEF x8
<1> HIDE DEF a8
<1>14. /\ a8.ok = TRUE
       /\ a8.vals["addr"] = want.addr /\ a8.vals["cport"] = want.cport
       /\ a8.vals["sport"] = want.sport /\ a8.vals["method"] = want.method
       /\ a8.vals["proto"] = want.proto /\ a8.vals["url"] = want.url
       /\ a8.vals["hdr"] = want.hdr /\ a8.vals["body"] = want.body
  <2> HIDE DEF want
  <2> QED BY <1>13 DEF ReadSoFar
<1>15. DecodeHeaders(want.hdr).hs = [i \in DOMAIN req.headers |->
                                     <<Utf8(req.headers[i][1]), Utf8(req.headers[i][2])>>]
  <2>1. HeadersRoundTrip(req.headers)
    BY SentTyped, HeadersReadBack
  <2> QED BY <2>1 DEF HeadersRoundTrip, Sent
<1>16. /\ want.addr = Clip(req.addr, MaxAddr) /\ want.method = Clip(req.method, MaxShort)
       /\ want.proto = Clip(req.proto, MaxShort) /\ want.url = Utf8(req.url)
       /\ want.cport = req.cport % (MaxAddr + 1) /\ want.sport = req.sport % (MaxAddr + 1)
       /\ want.body = Utf8(req.body)
  BY DEF Sent, Cut, Widest
<1> HIDE DEF want
<1>17. Fields(pkt) = Clipped(req)
  <2>1. Fields(pkt) = [addr |-> a8.vals["addr"], cport |-> a8.vals["cport"],
                       sport |-> a8.vals["sport"], method |-> a8.vals["method"],
                       proto |-> a8.vals["proto"], url |-> a8.vals["url"],
                       body |-> a8.vals["body"], headers |-> DecodeHeaders(a8.vals["hdr"]).hs]
    BY <1>12 DEF Fields
  <2> QED BY <1>14, <1>15, <1>16, <2>1 DEF Clipped
<1> QED BY <1>12, <1>14, <1>17 DEF RequestRoundTrips, pkt

(* encodeRequestBundle() and txProcessRequestBundle(), encodeHeaders() and *)
(* parseHeaderPacket(): whatever this instance is given is read back.      *)
THEOREM CodecIsExact == CodecRoundTrips
BY InputsAssumption, RequestsReadBack, HeadersReadBack DEF CodecRoundTrips

(* Inputs: through growth of the memory and a shared scratch buffer, every *)
(* export finds what its method was given.                                 *)
THEOREM EngineGetsTheRequest == Spec => []EngineGetsWhatWasSent
<1>0. CodecRoundTrips
  BY CodecIsExact
<1>1. Init => TInv /\ BInv /\ DInv
  BY InitTyped, InitFits DEF Init, DInv
<1>2. DInv => EngineGetsWhatWasSent
  <2> SUFFICES ASSUME DInv, At("finally", Inspections \cup {"fromAbi"}),
                      NEW i \in DOMAIN call.sent
               PROVE  LET b == call.sent[i]
                      IN CASE b.what = "bundle" ->
                                /\ Fields(call.got[i]) = Clipped(b.data)
                                /\ DecodeBundle(call.got[i]).ok
                           [] b.what = "headers" ->
                                /\ DecodeHeaders(call.got[i]).ok
                                /\ DecodeHeaders(call.got[i]).hs =
                                     [k \in DOMAIN b.data |->
                                        <<Utf8(b.data[k][1]), Utf8(b.data[k][2])>>]
                           [] OTHER -> call.got[i] = Utf8(b.data)
    BY DEF EngineGetsWhatWasSent
  <2>1. SentFits /\ Encoded /\ Arrived
    BY DEF DInv, At, Idle
  <2>2. call.got[i] = Bytes(call.sent[i])
    BY <2>1 DEF Encoded, Arrived
  <2>3. CASE call.sent[i].what = "bundle"
    BY <1>0, <2>1, <2>2, <2>3
       DEF Bytes, SentFits, CodecRoundTrips, RequestRoundTrips, HeadersRoundTrip
  <2>4. CASE call.sent[i].what = "headers"
    BY <1>0, <2>1, <2>2, <2>4
       DEF Bytes, SentFits, CodecRoundTrips, RequestRoundTrips, HeadersRoundTrip
  <2>5. CASE call.sent[i].what \notin {"bundle", "headers"}
    BY <2>2, <2>5 DEF Bytes
  <2> QED BY <2>3, <2>4, <2>5
<1> QED BY <1>1, <1>2, StepTyped, StepKeepsBInv, StepSends, PTL DEF Spec

-----------------------------------------------------------------------------
(* The numbering.  With EnoughIds the counters do not wrap: each is at     *)
(* most the number of the objects whose constructor has called its export. *)
Underway(op) == call # Idle /\ call.op = op

BornWafs == {w \in Waf : \/ waf[w].state # "none"
                         \/ Underway("fromAbi") /\ call.on = w /\ call.step # "call"}
BornTxs == {t \in Tx : \/ tx[t].state # "none"
                       \/ Underway("newTransaction") /\ call.on = t /\ call.step # "call"}

NInv == /\ wafNextID \in 0..Cardinality(BornWafs)
        /\ txNextID \in 0..Cardinality(BornTxs)

LEMMA BornAreFinite ==
  ASSUME EnoughIds
  PROVE  /\ IsFiniteSet(BornWafs) /\ Cardinality(BornWafs) \in 0..Cardinality(Waf)
         /\ IsFiniteSet(BornTxs) /\ Cardinality(BornTxs) \in 0..Cardinality(Tx)
         /\ Cardinality(Waf) \in Nat /\ Cardinality(Tx) \in Nat
<1>1. BornWafs \subseteq Waf /\ BornTxs \subseteq Tx
  BY DEF BornWafs, BornTxs
<1>2. \A S : IsFiniteSet(S) => Cardinality(S) \in Nat
  BY FS_CardinalityType
<1>3. /\ IsFiniteSet(BornWafs) /\ Cardinality(BornWafs) <= Cardinality(Waf)
      /\ IsFiniteSet(BornTxs) /\ Cardinality(BornTxs) <= Cardinality(Tx)
  BY <1>1, FS_Subset DEF EnoughIds
<1> QED BY <1>2, <1>3 DEF EnoughIds

(* An object that has met its export stays so.                             *)
LEMMA BornStay ==
  TInv /\ [Next]_vars => BornWafs \subseteq BornWafs' /\ BornTxs \subseteq BornTxs'
<1> DEFINE Goal == BornWafs \subseteq BornWafs' /\ BornTxs \subseteq BornTxs'
<1> SUFFICES ASSUME TInv, [Next]_vars PROVE Goal
  OBVIOUS
<1>1. ASSUME call = Idle \/ call.step = "call",
             \A w \in Waf : waf[w].state # "none" => waf'[w].state # "none",
             \A t \in Tx : tx[t].state # "none" => tx'[t].state # "none"
      PROVE  Goal
  BY <1>1 DEF BornWafs, BornTxs, Underway
<1>2. ASSUME UNCHANGED jsVars, CallTyped, CallTyped', call'.op = call.op, call'.on = call.on,
             call.step # "call" => call'.step # "call"
      PROVE  Goal
  <2>1. call # Idle /\ call' # Idle
    BY <1>2, FieldsAreNotIdle DEF CallTyped
  <2> QED BY <1>2, <2>1 DEF BornWafs, BornTxs, Underway, jsVars
<1>a. /\ waf \in [Waf -> [id : Ids, state : {"none", "open", "destroyed", "failed"}]]
      /\ tx \in [Tx -> [id : Ids, state : {"none", "open", "closed", "failed"},
                        waf : Waf \cup {None}]]
  BY DEF TInv, TypeOK
<1>3. CASE Method
  <2>1. call = Idle
    BY <1>3, BeginCalls DEF Method, FromAbi, Destroy, NewTransaction, Close,
       ProcessRequestBundle, Inspect, Ask
  <2>2. /\ \A w \in Waf : waf[w].state # "none" => waf'[w].state # "none"
        /\ \A t \in Tx : tx[t].state # "none" => tx'[t].state # "none"
    BY <1>a, <1>3 DEF Method, FromAbi, Destroy, NewTransaction, Close,
       ProcessRequestBundle, Inspect, Ask, jsVars
  <2> QED BY <1>1, <2>1, <2>2
<1>4. CASE SkipEmpty \/ Allocate
  <2>1. CallTyped /\ UNCHANGED jsVars
    BY <1>4, RunningIsTyped DEF SkipEmpty, Allocate, Pending
  <2>2. CallTyped'
    <3>1. SameCall
      BY <1>4, <2>1, AppendCalls DEF SkipEmpty, Allocate
    <3>2. TInv' /\ call' # Idle
      BY <1>4, <3>1, AllocationTyped, FieldsAreNotIdle DEF SameCall
    <3> QED BY <3>2 DEF TInv
  <2> QED BY <1>2, <1>4, <2>1, <2>2, AppendCalls DEF SkipEmpty, Allocate, SameCall
<1>5. CASE AllocateFails
  <2>1. CallTyped /\ call.step = "call" /\ Unborn
    BY <1>5, RunningIsTyped DEF AllocateFails, Pending
  <2>2. /\ \A w \in Waf : waf[w].state # "none" => waf'[w].state # "none"
        /\ \A t \in Tx : tx[t].state # "none" => tx'[t].state # "none"
    BY <1>a, <2>1 DEF Unborn, jsVars
  <2> QED BY <1>1, <2>1, <2>2
<1>6. CASE Export
  <2>1. CallTyped
    BY <1>6, RunningIsTyped DEF Export, Enters, WafCreate, WafDestroy, TxCreate,
       TxDestroy, TxReset, TxProcess, TxProcessLogging, TxPredicate, TxGet
  <2>2. Continues /\ call'.step \in {"read", "finally"} /\ UNCHANGED jsVars
    BY <1>6, <2>1, ExportCalls, ReturnsCalls, SetErrCalls, TrapsCalls
  <2>3. CallTyped'
    BY <1>6, <2>2, ExportsTyped DEF TInv, Idle
  <2> QED BY <1>2, <2>1, <2>2, <2>3 DEF Continues, SameCall
<1>7. CASE CheckThrows \/ ReadResult
  <2>1. CallTyped
    BY <1>7, RunningIsTyped DEF CheckThrows, ReadResult
  <2>2. Continues /\ call'.step = "finally" /\ UNCHANGED jsVars
    BY <1>7, <2>1 DEF CheckThrows, ReadResult, CallTyped, Continues, SameCall, CallFields
  <2>3. CallTyped'
    BY <1>7, <2>2, AnswerTyped DEF TInv, Idle
  <2> QED BY <1>2, <2>1, <2>2, <2>3 DEF Continues, SameCall
<1>8. CASE Settle
  <2>1. CallTyped /\ call.step = "finally"
    BY <1>8, RunningIsTyped DEF Settle
  <2>2. SettlesWafs /\ SettlesTxs
    BY <1>8, <2>1, SettleSettles
  <2>3. \A w \in Waf : waf[w].state # "none" \/ (call.op = "fromAbi" /\ call.on = w)
                         => waf'[w].state # "none"
    BY <2>2 DEF SettlesWafs
  <2>4. \A t \in Tx : tx[t].state # "none" \/ (call.op = "newTransaction" /\ call.on = t)
                        => tx'[t].state # "none"
    BY <2>2 DEF SettlesTxs
  <2> QED BY <2>3, <2>4 DEF BornWafs, BornTxs, Underway
<1>9. CASE UNCHANGED vars
  BY <1>9 DEF vars, jsVars, BornWafs, BornTxs, Underway
<1> QED BY <1>3, <1>4, <1>5, <1>6, <1>7, <1>8, <1>9 DEF Next

(* The id that an export takes is the next one, and positive.              *)
LEMMA NextWafId ==
  ASSUME EnoughIds, TInv, NInv, WafCreate
  PROVE  /\ Wrap(wafNextID + 1) = wafNextID + 1 /\ wafNextID \in Nat
         /\ wafNextID + 1 <= Cardinality(BornWafs')
<1>1. CallTyped /\ call.op = "fromAbi" /\ call.step = "call"
  BY RunningIsTyped DEF WafCreate, Enters
<1>2. /\ call.on \in Waf /\ call.on \notin BornWafs
  BY <1>1 DEF CallTyped, BornWafs
<1>3. call.on \in BornWafs'
  <2>1. Export /\ [Next]_vars
    BY DEF Export, Next
  <2>2. Continues /\ call'.step \in {"read", "finally"}
    BY <1>1, <2>1, ExportCalls, ReturnsCalls, SetErrCalls, TrapsCalls
  <2> QED BY <1>1, <1>2, <2>2 DEF BornWafs, Underway, Continues, SameCall, Idle
<1>4. BornWafs \cup {call.on} \subseteq BornWafs'
  BY <1>3, BornStay DEF Next, Export
<1>5. /\ Cardinality(BornWafs \cup {call.on}) = Cardinality(BornWafs) + 1
      /\ IsFiniteSet(BornWafs \cup {call.on})
  BY <1>2, BornAreFinite, FS_AddElement
<1>6. /\ IsFiniteSet(BornWafs') /\ Cardinality(BornWafs') \in 0..Cardinality(Waf)
  <2>1. BornWafs' \subseteq Waf
    BY DEF BornWafs
  <2> QED BY <2>1, FS_Subset, FS_CardinalityType, BornAreFinite DEF EnoughIds
<1>7. Cardinality(BornWafs) + 1 <= Cardinality(BornWafs')
  BY <1>4, <1>5, <1>6, FS_Subset
<1>8. wafNextID \in Nat /\ wafNextID <= Cardinality(BornWafs) /\ Cardinality(BornWafs) \in Nat
  BY BornAreFinite DEF NInv
<1>9. wafNextID + 1 \in 0..(IdHalf - 1) /\ wafNextID + 1 <= Cardinality(BornWafs')
  BY <1>6, <1>7, <1>8, BornAreFinite, BridgeAssumption DEF EnoughIds
<1> QED BY <1>8, <1>9, SmallDoNotWrap

LEMMA NextTxId ==
  ASSUME EnoughIds, TInv, NInv, TxCreate
  PROVE  /\ Wrap(txNextID + 1) = txNextID + 1 /\ txNextID \in Nat
         /\ txNextID + 1 <= Cardinality(BornTxs')
<1>1. CallTyped /\ call.op = "newTransaction" /\ call.step = "call"
  BY RunningIsTyped DEF TxCreate, Enters
<1>2. /\ call.on \in Tx /\ call.on \notin BornTxs
  BY <1>1 DEF CallTyped, BornTxs
<1>3. call.on \in BornTxs'
  <2>1. Export /\ [Next]_vars
    BY DEF Export, Next
  <2>2. Continues /\ call'.step \in {"read", "finally"}
    BY <1>1, <2>1, ExportCalls, ReturnsCalls, SetErrCalls, TrapsCalls
  <2> QED BY <1>1, <1>2, <2>2 DEF BornTxs, Underway, Continues, SameCall, Idle
<1>4. BornTxs \cup {call.on} \subseteq BornTxs'
  BY <1>3, BornStay DEF Next, Export
<1>5. /\ Cardinality(BornTxs \cup {call.on}) = Cardinality(BornTxs) + 1
      /\ IsFiniteSet(BornTxs \cup {call.on})
  BY <1>2, BornAreFinite, FS_AddElement
<1>6. /\ IsFiniteSet(BornTxs') /\ Cardinality(BornTxs') \in 0..Cardinality(Tx)
  <2>1. BornTxs' \subseteq Tx
    BY DEF BornTxs
  <2> QED BY <2>1, FS_Subset, FS_CardinalityType, BornAreFinite DEF EnoughIds
<1>7. Cardinality(BornTxs) + 1 <= Cardinality(BornTxs')
  BY <1>4, <1>5, <1>6, FS_Subset
<1>8. txNextID \in Nat /\ txNextID <= Cardinality(BornTxs) /\ Cardinality(BornTxs) \in Nat
  BY BornAreFinite DEF NInv
<1>9. txNextID + 1 \in 0..(IdHalf - 1) /\ txNextID + 1 <= Cardinality(BornTxs')
  BY <1>6, <1>7, <1>8, BornAreFinite, BridgeAssumption DEF EnoughIds
<1> QED BY <1>8, <1>9, SmallDoNotWrap

LEMMA StepNumbers == EnoughIds /\ TInv /\ NInv /\ [Next]_vars => NInv'
<1> SUFFICES ASSUME EnoughIds, TInv, NInv, [Next]_vars PROVE NInv'
  OBVIOUS
<1>1. /\ Cardinality(BornWafs) <= Cardinality(BornWafs')
      /\ Cardinality(BornTxs) <= Cardinality(BornTxs')
      /\ Cardinality(BornWafs') \in Nat /\ Cardinality(BornTxs') \in Nat
      /\ Cardinality(BornWafs) \in Nat /\ Cardinality(BornTxs) \in Nat
  <2>1. BornWafs' \subseteq Waf /\ BornTxs' \subseteq Tx
    BY DEF BornWafs, BornTxs
  <2>2. IsFiniteSet(BornWafs') /\ IsFiniteSet(BornTxs')
    BY <2>1, FS_Subset DEF EnoughIds
  <2> QED BY <2>2, BornStay, BornAreFinite, FS_Subset, FS_CardinalityType
<1>2. CASE WafCreate
  <2>1. wafNextID' \in {wafNextID, wafNextID + 1} /\ txNextID' = txNextID
    BY <1>2, NextWafId DEF WafCreate
  <2> QED BY <1>1, <1>2, <2>1, NextWafId DEF NInv
<1>3. CASE TxCreate
  <2>1. txNextID' \in {txNextID, txNextID + 1} /\ wafNextID' = wafNextID
    BY <1>3, NextTxId DEF TxCreate
  <2> QED BY <1>1, <1>3, <2>1, NextTxId DEF NInv
<1>4. CASE UNCHANGED <<wafNextID, txNextID>>
  BY <1>1, <1>4 DEF NInv
<1>5. WafCreate \/ TxCreate \/ UNCHANGED <<wafNextID, txNextID>>
  BY DEF Next, vars, goVars, Method, FromAbi, Destroy, NewTransaction, Close,
     ProcessRequestBundle, Inspect, Ask, SkipEmpty, Allocate, AllocateFails,
     Export, WafDestroy, TxDestroy, TxReset, TxProcess, TxProcessLogging, TxPredicate,
     TxGet, CheckThrows, ReadResult, Settle
<1> QED BY <1>2, <1>3, <1>4, <1>5

LEMMA InitNumbers == EnoughIds /\ Init => NInv
<1> SUFFICES ASSUME EnoughIds, Init PROVE NInv
  OBVIOUS
<1>1. Cardinality(BornWafs) \in Nat /\ Cardinality(BornTxs) \in Nat
  BY BornAreFinite
<1>2. wafNextID = 0 /\ txNextID = 0
  BY DEF Init
<1> QED BY <1>1, <1>2 DEF NInv

-----------------------------------------------------------------------------
(* The slots.  Beside what SlotsMatchHandles says of the moments between   *)
(* methods: handles have different ids, below the counter; the registry of *)
(* owners agrees with the slots; and while newTransaction() or close() is  *)
(* under way, its slot may be without an open handle.                      *)
Exists(t) == tx[t].state \in {"open", "closed"}
Slot(t) == txs[tx[t].id]
Made == Underway("newTransaction") /\ call.step = "finally" /\ call.err = ""
Closing == Underway("close") /\ call.step = "call"

HandlesAreMade == \A t \in Tx : Exists(t) =>
  /\ tx[t].id \in 1..txNextID
  /\ tx[t].waf \in Waf /\ waf[tx[t].waf].state \in {"open", "destroyed"}
HandlesDiffer == \A t, u \in Tx :
  Exists(t) /\ Exists(u) /\ tx[t].id = tx[u].id => t = u
SlotsAreOwned == \A i \in DOMAIN txs : i \in 1..txNextID /\ txOwner[i] = txs[i].waf
SlotsHaveHandles == \A i \in DOMAIN txs :
  LET t == txs[i].of
  IN \/ /\ Exists(t) /\ tx[t].id = i
        /\ t \in trapped \/ Open(t) \/ (Closing /\ call.on = t)
     \/ Made /\ call.on = t /\ call.rc = i
HandlesHaveSlots == \A t \in Tx : Open(t) /\ t \notin lost =>
  /\ tx[t].id \in DOMAIN txs
  /\ Slot(t).of = t /\ Slot(t).waf = waf[tx[t].waf].id
  /\ Slot(t).closed => t \in trapped
Creating ==
  /\ Underway("newTransaction") => waf[tx[call.on].waf].state = "open"
  /\ Underway("close") => call.sent = << >>
  /\ Made => /\ call.rc \in DOMAIN txs /\ txs[call.rc].of = call.on
             /\ txs[call.rc].waf = waf[tx[call.on].waf].id /\ ~txs[call.rc].closed
             /\ \A u \in Tx : Exists(u) => tx[u].id # call.rc

SInv == /\ HandlesAreMade /\ HandlesDiffer /\ SlotsAreOwned
        /\ SlotsHaveHandles /\ HandlesHaveSlots /\ Creating

(* The slot of the handle a method is called on is its own.                *)
LEMMA MySlotIsMine ==
  ASSUME TInv, SInv, CallTyped, Known,
         call.op \in HandleOps \cup {"close"}
  PROVE  txs[MyId].of = call.on
<1>1. call.on \in Tx /\ Exists(call.on) /\ ~Made
  BY DEF CallTyped, Exists, Open, Made, Underway, HandleOps, Inspections, Predicates, Getters
<1>2. txs[MyId].of \in Tx
  BY DEF TInv, TypeOK, Known
<1> QED BY <1>1, <1>2 DEF SInv, SlotsHaveHandles, HandlesDiffer, Known, MyId

(* A step that leaves every slot with its handle.                          *)
KeepsSlots ==
  /\ UNCHANGED <<waf, tx, txOwner>>
  /\ txNextID' \in {txNextID, txNextID + 1}
  /\ DOMAIN txs' = DOMAIN txs
  /\ \A i \in DOMAIN txs :
       /\ txs'[i].of = txs[i].of /\ txs'[i].waf = txs[i].waf
       /\ txs'[i].closed => txs[i].closed \/ txs[i].of \in trapped'
  /\ trapped \subseteq trapped' /\ lost \subseteq lost'
  /\ Closing => call.on \in trapped' \/ (Closing' /\ call'.on = call.on)
  /\ Made => Made' /\ call'.on = call.on /\ call'.rc = call.rc

LEMMA KeptSlots ==
  ASSUME TInv, SInv, KeepsSlots, Creating'
  PROVE  SInv'
<1>0. txNextID \in Int
  BY SmallAreIds DEF TInv, TypeOK
<1>1. HandlesAreMade'
  BY <1>0 DEF SInv, HandlesAreMade, KeepsSlots, Exists
<1>2. HandlesDiffer'
  BY DEF SInv, HandlesDiffer, KeepsSlots, Exists
<1>3. SlotsAreOwned'
  BY <1>0 DEF SInv, SlotsAreOwned, KeepsSlots
<1>4. SlotsHaveHandles'
  BY DEF SInv, SlotsHaveHandles, KeepsSlots, Exists, Open
<1>5. HandlesHaveSlots'
  BY DEF SInv, HandlesHaveSlots, KeepsSlots, Slot, Open
<1> QED BY <1>1, <1>2, <1>3, <1>4, <1>5 DEF SInv

LEMMA AllocationKeepsSlots ==
  TInv /\ SInv /\ (SkipEmpty \/ Allocate \/ AllocateFails) => SInv'
<1> SUFFICES ASSUME TInv, SInv, SkipEmpty \/ Allocate \/ AllocateFails PROVE SInv'
  OBVIOUS
<1>0. CallTyped /\ call # Idle /\ Pending /\ call.step = "call"
  BY RunningIsTyped, TypedIsNotIdle DEF SkipEmpty, Allocate, AllocateFails, Pending
<1>1. CASE SkipEmpty \/ Allocate
  <2>1. SameCall /\ call'.step = "call"
    BY <1>0, <1>1, AppendCalls DEF SkipEmpty, Allocate
  <2>2. call' # Idle
    BY <2>1 DEF SameCall, Idle, CallFields
  <2>3. UNCHANGED <<txs, txOwner, txNextID, waf, tx, lost, trapped>>
    BY <1>1 DEF SkipEmpty, Allocate, goVars, jsVars, ghosts
  <2>4. KeepsSlots
    BY <1>0, <2>1, <2>2, <2>3 DEF KeepsSlots, Closing, Made, Underway, SameCall
  <2>5. Creating'
    BY <1>0, <2>1, <2>2, <2>3 DEF SInv, Creating, Made, Underway, SameCall
  <2> QED BY <2>4, <2>5, KeptSlots
<1>2. CASE AllocateFails
  <2>1. call' = Idle /\ UNCHANGED <<txs, txOwner, txNextID, lost, trapped>> /\ Unborn
    BY <1>2 DEF AllocateFails, goVars, ghosts
  <2>2. ~Closing /\ ~Made
    BY <1>0 DEF Closing, SInv, Creating, Pending, Made
  <2>3. ~Closing' /\ ~Made' /\ Creating'
    BY <2>1 DEF Closing, Made, Underway, Creating
  <2>4. CASE UNCHANGED jsVars
    BY <2>1, <2>2, <2>3, <2>4, KeptSlots DEF KeepsSlots, jsVars
  <2>5. CASE call.op = "fromAbi"
    <3>1. call.on \in Waf /\ waf[call.on].state = "none" /\ tx' = tx
      BY <1>0, <2>1, <2>5 DEF CallTyped, Unborn
    <3>2. \A w \in Waf : waf[w].state # "none" => waf'[w] = waf[w]
      BY <1>0, <2>1, <2>5, <3>1 DEF Unborn, TInv, TypeOK
    <3>3. HandlesAreMade' /\ HandlesDiffer' /\ SlotsAreOwned'
      BY <2>1, <3>1, <3>2 DEF SInv, HandlesAreMade, HandlesDiffer, SlotsAreOwned, Exists
    <3>4. SlotsHaveHandles'
      BY <2>1, <2>2, <2>3, <3>1 DEF SInv, SlotsHaveHandles, Exists, Open
    <3>5. HandlesHaveSlots'
      BY <2>1, <3>1, <3>2 DEF SInv, HandlesHaveSlots, HandlesAreMade, Exists, Open, Slot
    <3> QED BY <2>3, <3>3, <3>4, <3>5 DEF SInv
  <2>6. CASE call.op = "newTransaction"
    <3>1. call.on \in Tx /\ tx[call.on].state = "none" /\ waf' = waf
      BY <1>0, <2>1, <2>6 DEF CallTyped, Unborn
    <3>2. /\ \A t \in Tx : t # call.on => tx'[t] = tx[t]
          /\ tx'[call.on].state = "failed"
      BY <1>0, <2>1, <2>6, <3>1 DEF Unborn, TInv, TypeOK
    <3>3. HandlesAreMade' /\ HandlesDiffer' /\ SlotsAreOwned'
      BY <2>1, <3>1, <3>2 DEF SInv, HandlesAreMade, HandlesDiffer, SlotsAreOwned, Exists
    <3>4. SlotsHaveHandles'
      <4>1. \A i \in DOMAIN txs : txs[i].of \in Tx
        BY DEF TInv, TypeOK
      <4> QED BY <2>1, <2>2, <2>3, <3>1, <3>2, <4>1 DEF SInv, SlotsHaveHandles, Exists, Open
    <3>5. HandlesHaveSlots'
      BY <2>1, <3>1, <3>2 DEF SInv, HandlesHaveSlots, Open, Slot
    <3> QED BY <2>3, <3>3, <3>4, <3>5 DEF SInv
  <2> QED BY <2>1, <2>4, <2>5, <2>6 DEF Unborn
<1> QED BY <1>1, <1>2

LEMMA AnswerKeepsSlots == TInv /\ SInv /\ (CheckThrows \/ ReadResult) => SInv'
<1> SUFFICES ASSUME TInv, SInv, CheckThrows \/ ReadResult PROVE SInv'
  OBVIOUS
<1>0. CallTyped /\ call # Idle /\ call.step = "read"
  BY RunningIsTyped, TypedIsNotIdle DEF CheckThrows, ReadResult
<1>1. Continues /\ call'.step = "finally" /\ call'.rc = call.rc
  BY <1>0 DEF CheckThrows, ReadResult, CallTyped, Continues, SameCall, CallFields
<1>2. UNCHANGED <<txs, txOwner, txNextID, waf, tx, lost, trapped>>
  BY DEF CheckThrows, ReadResult, goVars, jsVars, ghosts
<1>3. call' # Idle
  BY <1>1 DEF Continues, SameCall, Idle, CallFields
<1>4. ~Made'
  <2>1. CASE call.op \notin Getters
    <3>1. CheckThrows
      BY <2>1 DEF ReadResult
    <3>2. call'.err = IF lastErr = "" \/ ~viewLive' THEN "unknown error" ELSE scratch'.of
      BY <1>0, <3>1 DEF CheckThrows, CallTyped, CallFields
    <3>3. lastErr # "" => scratch'.of = lastErr
      BY <3>1 DEF CheckThrows, WriteScratch, Text
    <3>4. call'.err # ""
      BY <3>2, <3>3
    <3> QED BY <3>4 DEF Made
  <2>2. CASE call.op \in Getters
    BY <1>1, <2>2 DEF Made, Underway, Continues, SameCall, Getters
  <2> QED BY <2>1, <2>2
<1>5. KeepsSlots
  BY <1>0, <1>1, <1>2, <1>3 DEF KeepsSlots, Closing, Made, Underway
<1>6. Creating'
  BY <1>0, <1>1, <1>2, <1>3, <1>4 DEF SInv, Creating, Underway, Continues, SameCall
<1> QED BY <1>5, <1>6, KeptSlots

LEMMA MethodKeepsSlots == TInv /\ SInv /\ Method => SInv'
<1> SUFFICES ASSUME TInv, SInv, Method PROVE SInv'
  OBVIOUS
<1>1. PICK op, on, sent : Begin(op, on, sent)
  BY DEF Method, FromAbi, Destroy, NewTransaction, Close, ProcessRequestBundle, Inspect, Ask
<1>2. /\ call = Idle /\ call' # Idle /\ call'.step = "call" /\ call'.op = op
      /\ call'.on = on /\ call'.sent = sent
  BY <1>1, BeginCalls DEF Idle, CallFields
<1>3. ~Closing /\ ~Made /\ ~Made'
  BY <1>2 DEF Closing, Made, Underway
<1>4. UNCHANGED <<txs, txOwner, txNextID, trapped>> /\ lost' \subseteq lost
  BY DEF Method, FromAbi, Destroy, NewTransaction, Close, ProcessRequestBundle, Inspect, Ask,
     goVars, ghosts
<1>5. CASE UNCHANGED jsVars /\ op \notin {"newTransaction", "close"} /\ lost' = lost
  <2>1. Creating'
    BY <1>2, <1>3, <1>5 DEF Creating, Underway
  <2> QED BY <1>3, <1>4, <1>5, <2>1, KeptSlots DEF KeepsSlots, jsVars
<1>a. /\ waf \in [Waf -> [id : Ids, state : {"none", "open", "destroyed", "failed"}]]
      /\ tx \in [Tx -> [id : Ids, state : {"none", "open", "closed", "failed"},
                        waf : Waf \cup {None}]]
      /\ \A i \in DOMAIN txs : txs[i].of \in Tx
  BY DEF TInv, TypeOK
<1>6. ASSUME NEW w \in Waf, Destroy(w) PROVE SInv'
  <2>1. op = "destroy" /\ tx' = tx /\ lost' = lost
    BY <1>2, <1>6, BeginCalls DEF Destroy, ghosts
  <2>2. /\ \A v \in Waf : v # w => waf'[v] = waf[v]
        /\ waf'[w].id = waf[w].id /\ waf'[w].state = "destroyed"
    BY <1>6, <1>a DEF Destroy
  <2>3. HandlesAreMade' /\ HandlesDiffer' /\ SlotsAreOwned'
    BY <1>4, <2>1, <2>2 DEF SInv, HandlesAreMade, HandlesDiffer, SlotsAreOwned, Exists
  <2>4. SlotsHaveHandles'
    BY <1>3, <1>4, <2>1 DEF SInv, SlotsHaveHandles, Exists, Open
  <2>5. HandlesHaveSlots'
    BY <1>4, <2>1, <2>2 DEF SInv, HandlesHaveSlots, HandlesAreMade, Exists, Open, Slot
  <2>6. Creating'
    BY <1>2, <1>3, <2>1 DEF Creating, Underway
  <2> QED BY <2>3, <2>4, <2>5, <2>6 DEF SInv
<1>7. ASSUME NEW w \in Waf, NEW t \in Tx, NewTransaction(w, t) PROVE SInv'
  <2>1. op = "newTransaction" /\ on = t /\ waf' = waf /\ lost' = lost /\ waf[w].state = "open"
    BY <1>2, <1>7, BeginCalls DEF NewTransaction, ghosts
  <2>2. /\ \A u \in Tx : u # t => tx'[u] = tx[u]
        /\ tx[t].state = "none" /\ tx'[t].state = "none" /\ tx'[t].waf = w
    BY <1>7, <1>a DEF NewTransaction
  <2>3. HandlesAreMade' /\ HandlesDiffer' /\ SlotsAreOwned'
    BY <1>4, <2>1, <2>2 DEF SInv, HandlesAreMade, HandlesDiffer, SlotsAreOwned, Exists
  <2>4. SlotsHaveHandles'
    BY <1>3, <1>4, <1>a, <2>1, <2>2 DEF SInv, SlotsHaveHandles, Exists, Open
  <2>5. HandlesHaveSlots'
    BY <1>4, <2>1, <2>2 DEF SInv, HandlesHaveSlots, Open, Slot
  <2>6. Creating'
    BY <1>2, <1>3, <2>1, <2>2 DEF Creating, Underway
  <2> QED BY <2>3, <2>4, <2>5, <2>6 DEF SInv
<1>8. ASSUME NEW t \in Tx, Close(t) PROVE SInv'
  <2>1. op = "close" /\ on = t /\ sent = << >> /\ waf' = waf /\ lost' = lost \ {t}
    BY <1>2, <1>8, BeginCalls DEF Close
  <2>2. /\ \A u \in Tx : u # t => tx'[u] = tx[u]
        /\ tx[t].state = "open" /\ tx'[t].state = "closed"
        /\ tx'[t].id = tx[t].id /\ tx'[t].waf = tx[t].waf
    BY <1>8, <1>a DEF Close, Open
  <2>3. HandlesAreMade' /\ HandlesDiffer' /\ SlotsAreOwned'
    BY <1>4, <2>1, <2>2 DEF SInv, HandlesAreMade, HandlesDiffer, SlotsAreOwned, Exists
  <2>4. Closing' /\ call'.on = t
    BY <1>2, <2>1 DEF Closing, Underway
  <2>5. SlotsHaveHandles'
    BY <1>3, <1>4, <1>a, <2>2, <2>4 DEF SInv, SlotsHaveHandles, Exists, Open
  <2>6. HandlesHaveSlots'
    BY <1>4, <2>1, <2>2 DEF SInv, HandlesHaveSlots, Open, Slot
  <2>7. Creating'
    BY <1>2, <1>3, <2>1, <2>2 DEF Creating, Underway
  <2> QED BY <2>3, <2>5, <2>6, <2>7 DEF SInv
<1>9. ASSUME NEW w \in Waf, FromAbi(w) PROVE SInv'
  <2>1. op = "fromAbi" /\ UNCHANGED jsVars /\ lost' = lost
    BY <1>2, <1>9, BeginCalls DEF FromAbi, ghosts
  <2> QED BY <1>5, <2>1
<1>10. ASSUME NEW t \in Tx, ProcessRequestBundle(t) \/ Inspect(t) \/ Ask(t) PROVE SInv'
  <2>1. op \in HandleOps /\ UNCHANGED jsVars /\ lost' = lost
    BY <1>2, <1>10, BeginCalls DEF ProcessRequestBundle, Inspect, Ask, ghosts, HandleOps, Inspections
  <2> QED BY <1>5, <2>1 DEF HandleOps, Inspections, Predicates, Getters
<1> QED BY <1>6, <1>7, <1>8, <1>9, <1>10 DEF Method

(* Every export but the three that take, replace or release a slot.        *)
LEMMA QuietExportKeepsSlots ==
  TInv /\ SInv /\ (WafCreate \/ WafDestroy \/ TxProcess \/ TxProcessLogging
                     \/ TxPredicate \/ TxGet) => SInv'
<1> DEFINE Quiet == WafCreate \/ WafDestroy \/ TxProcess \/ TxProcessLogging
                      \/ TxPredicate \/ TxGet
<1> SUFFICES ASSUME TInv, SInv, Quiet PROVE SInv'
  OBVIOUS
<1>1. Export /\ call.op \notin {"newTransaction", "close", "reset"} /\ call.step = "call"
  BY DEF Export, WafCreate, WafDestroy, TxProcess, TxProcessLogging, TxPredicate, TxGet, Enters,
     Inspections, Predicates, Getters
<1>2. CallTyped
  BY <1>1, RunningIsTyped
<1>3. Continues /\ UNCHANGED <<waf, tx>>
  BY <1>1, <1>2, ExportCalls, ReturnsCalls, SetErrCalls, TrapsCalls DEF jsVars
<1>4. ~Closing /\ ~Made /\ ~Made' /\ Creating'
  BY <1>1, <1>3 DEF Closing, Made, Creating, Underway, Continues, SameCall
<1>5. UNCHANGED <<txNextID, txOwner, trapped, lost>>
  BY DEF WafCreate, WafDestroy, TxProcess, TxProcessLogging, TxPredicate, TxGet, goVars, ghosts
<1>6. /\ DOMAIN txs' = DOMAIN txs
      /\ \A i \in DOMAIN txs : /\ txs'[i].of = txs[i].of /\ txs'[i].waf = txs[i].waf
                               /\ txs'[i].closed = txs[i].closed
  <2>1. CASE UNCHANGED txs
    BY <2>1
  <2>2. CASE TxProcess /\ ~UNCHANGED txs
    <3>1. PICK o \in Advanced(MyTx) : txs' = [txs EXCEPT ![MyId] = o] /\ Refusal = ""
      BY <2>2 DEF TxProcess
    <3>2. MyId \in DOMAIN txs /\ txs[MyId] \in [of : Tx, waf : Ids, hit : BOOLEAN, closed : BOOLEAN]
      BY <3>1 DEF Refusal, Known, TInv, TypeOK
    <3>3. o.of = MyTx.of /\ o.waf = MyTx.waf /\ o.closed = MyTx.closed
      BY <3>2 DEF Advanced, MyTx
    <3> QED BY <3>1, <3>2, <3>3 DEF MyTx
  <2> QED BY <2>1, <2>2 DEF WafCreate, WafDestroy, TxProcess, TxProcessLogging, TxPredicate,
             TxGet, goVars
<1> QED BY <1>3, <1>4, <1>5, <1>6, KeptSlots DEF KeepsSlots

(* A released slot leaves a handle that is closed or counted as lost.      *)
LEMMA ReleasedSlots ==
  ASSUME TInv, SInv, CallTyped, call.op \in {"close", "reset"}, Release(MyId),
         UNCHANGED <<txNextID, waf, tx, trapped>>,
         lost \subseteq lost', call.op = "reset" => call.on \in lost',
         call'.op = call.op, call' # Idle, call'.step # "call",
         call'.sent = call.sent
  PROVE  SInv'
<1>1. /\ DOMAIN txs' = DOMAIN txs \ {MyId}
      /\ \A i \in DOMAIN txs' : txs'[i] = txs[i] /\ txOwner'[i] = txOwner[i]
  BY DEF Release, Drop, Owners, TInv, TypeOK
<1>2. ~Made /\ ~Made' /\ ~Closing'
  BY DEF Made, Closing, Underway
<1>3. call.on \in Tx /\ Exists(call.on) /\ (Open(call.on) => call.on \in lost')
  BY DEF CallTyped, HandleOps, Exists, Open
<1>4. HandlesAreMade' /\ HandlesDiffer' /\ SlotsAreOwned'
  BY <1>1 DEF SInv, HandlesAreMade, HandlesDiffer, SlotsAreOwned, Exists
<1>5. SlotsHaveHandles'
  <2> SUFFICES ASSUME NEW i \in DOMAIN txs'
               PROVE  /\ tx'[txs'[i].of].state \in {"open", "closed"}
                      /\ tx'[txs'[i].of].id = i
                      /\ txs'[i].of \in trapped' \/ tx'[txs'[i].of].state = "open"
    BY DEF SlotsHaveHandles, Exists, Open
  <2>1. i \in DOMAIN txs /\ i # MyId /\ txs'[i] = txs[i]
    BY <1>1
  <2>2. /\ Exists(txs[i].of) /\ tx[txs[i].of].id = i
        /\ txs[i].of \in trapped \/ Open(txs[i].of) \/ call.on = txs[i].of
    BY <1>2, <2>1 DEF SInv, SlotsHaveHandles
  <2>3. txs[i].of # call.on
    BY <2>1, <2>2 DEF MyId
  <2> QED BY <2>1, <2>2, <2>3 DEF Exists, Open
<1>6. HandlesHaveSlots'
  <2> SUFFICES ASSUME NEW t \in Tx, Open(t)', t \notin lost'
               PROVE  /\ tx'[t].id \in DOMAIN txs'
                      /\ Slot(t)'.of = t /\ Slot(t)'.waf = waf'[tx'[t].waf].id
                      /\ Slot(t)'.closed => t \in trapped'
    BY DEF HandlesHaveSlots
  <2>1. Open(t) /\ t \notin lost /\ t # call.on
    BY <1>3 DEF Open
  <2>2. tx[t].id # MyId
    BY <1>3, <2>1 DEF SInv, HandlesDiffer, Exists, Open, MyId
  <2> QED BY <1>1, <2>1, <2>2 DEF SInv, HandlesHaveSlots, Slot
<1>7. Creating'
  <2>1. call # Idle /\ (call.op = "close" => call.sent = << >>)
    BY TypedIsNotIdle DEF SInv, Creating, Underway
  <2> QED BY <1>2, <2>1 DEF Creating, Underway
<1> QED BY <1>4, <1>5, <1>6, <1>7 DEF SInv

LEMMA TxDestroyKeepsSlots == TInv /\ SInv /\ TxDestroy => SInv'
<1> SUFFICES ASSUME TInv, SInv, TxDestroy PROVE SInv'
  OBVIOUS
<1>1. Export /\ call.op = "close" /\ call.step = "call"
  BY DEF Export, TxDestroy, Enters
<1>2. CallTyped /\ call # Idle
  BY <1>1, RunningIsTyped, TypedIsNotIdle
<1>3. Continues /\ UNCHANGED <<waf, tx>> /\ call'.step # "call"
  BY <1>1, <1>2, ExportCalls, ReturnsCalls, SetErrCalls, TrapsCalls DEF jsVars
<1>4. call' # Idle /\ UNCHANGED <<txNextID, lost>>
  BY <1>3, FieldsAreNotIdle DEF Continues, SameCall, TxDestroy
<1>5. CASE Release(MyId) /\ UNCHANGED trapped
  BY <1>1, <1>2, <1>3, <1>4, <1>5, ReleasedSlots DEF Continues, SameCall
<1>6. CASE UNCHANGED <<txs, txOwner>> /\ trapped' = trapped \cup {call.on}
  <2>1. ~Made /\ ~Made' /\ Creating'
    BY <1>1, <1>2, <1>3, <1>4 DEF Made, SInv, Creating, Underway, Continues, SameCall
  <2> QED BY <1>3, <1>4, <1>6, <2>1, KeptSlots DEF KeepsSlots
<1> QED BY <1>5, <1>6 DEF TxDestroy

LEMMA TxResetKeepsSlots == TInv /\ SInv /\ TxReset => SInv'
<1> SUFFICES ASSUME TInv, SInv, TxReset PROVE SInv'
  OBVIOUS
<1>1. Export /\ call.op = "reset" /\ call.step = "call"
  BY DEF Export, TxReset, Enters
<1>2. CallTyped /\ call # Idle
  BY <1>1, RunningIsTyped, TypedIsNotIdle
<1>3. Continues /\ UNCHANGED <<waf, tx>> /\ call'.step # "call"
  BY <1>1, <1>2, ExportCalls, ReturnsCalls, SetErrCalls, TrapsCalls DEF jsVars
<1>4. call' # Idle /\ UNCHANGED txNextID
  BY <1>3, FieldsAreNotIdle DEF Continues, SameCall, TxReset
<1>5. ~Made /\ ~Made' /\ Creating' /\ ~Closing
  BY <1>1, <1>3 DEF Made, Creating, Underway, Continues, SameCall, Closing
<1>6. CASE UNCHANGED <<txs, txOwner, told, lost, trapped>>
  BY <1>3, <1>4, <1>5, <1>6, KeptSlots DEF KeepsSlots
<1>7. CASE /\ Release(MyId) /\ lost' = lost \cup {call.on} /\ UNCHANGED trapped
  BY <1>1, <1>2, <1>3, <1>4, <1>7, ReleasedSlots DEF Continues, SameCall
<1>b. Known => /\ MyId \in DOMAIN txs /\ txs[MyId].of = call.on
               /\ txs[MyId] \in [of : Tx, waf : Ids, hit : BOOLEAN, closed : BOOLEAN]
  BY <1>1, <1>2, MySlotIsMine DEF Known, HandleOps, TInv, TypeOK
<1>8. CASE /\ Known /\ txs' = Put(txs, MyId, Replacement) /\ UNCHANGED <<txOwner, lost, trapped>>
  <2>1. /\ DOMAIN txs' = DOMAIN txs /\ txs'[MyId] = Replacement
        /\ \A i \in DOMAIN txs : i # MyId => txs'[i] = txs[i]
    BY <1>8, <1>b DEF Put
  <2>2. Replacement.of = call.on /\ Replacement.waf = txs[MyId].waf /\ Replacement.closed = FALSE
    BY <1>8, <1>b DEF Replacement, Fresh, SInv, SlotsAreOwned
  <2> QED BY <1>3, <1>4, <1>5, <1>8, <1>b, <2>1, <2>2, KeptSlots DEF KeepsSlots
<1>9. CASE /\ Known /\ txs' \in HalfReset /\ trapped' = trapped \cup {call.on}
           /\ UNCHANGED <<txOwner, told, lost>>
  <2>1. /\ DOMAIN txs' = DOMAIN txs
        /\ \A i \in DOMAIN txs : i # MyId => txs'[i] = txs[i]
        /\ txs'[MyId].of = txs[MyId].of /\ txs'[MyId].waf = txs[MyId].waf
    BY <1>9, <1>b DEF HalfReset
  <2> QED BY <1>3, <1>4, <1>5, <1>9, <1>b, <2>1, KeptSlots DEF KeepsSlots
<1> QED BY <1>6, <1>7, <1>8, <1>9 DEF TxReset

(* A new transaction gets a number that no handle and no slot has.         *)
LEMMA TxCreateKeepsSlots == EnoughIds /\ TInv /\ NInv /\ SInv /\ TxCreate => SInv'
<1> SUFFICES ASSUME EnoughIds, TInv, NInv, SInv, TxCreate PROVE SInv'
  OBVIOUS
<1>1. Export /\ call.op = "newTransaction" /\ call.step = "call"
  BY DEF Export, TxCreate, Enters
<1>2. CallTyped /\ call # Idle
  BY <1>1, RunningIsTyped, TypedIsNotIdle
<1>3. Continues /\ UNCHANGED <<waf, tx>> /\ call'.step # "call"
  BY <1>1, <1>2, ExportCalls, ReturnsCalls, SetErrCalls, TrapsCalls DEF jsVars
<1>4. call' # Idle /\ UNCHANGED <<lost, trapped>>
  BY <1>3, FieldsAreNotIdle DEF Continues, SameCall, TxCreate, ghosts
<1>5. call.on \in Tx /\ tx[call.on].state = "none" /\ ~Made /\ ~Closing /\ ~Closing'
      /\ waf[tx[call.on].waf].state = "open"
  BY <1>1, <1>2, <1>3 DEF CallTyped, Made, Closing, Underway, SInv, Creating, Continues, SameCall
<1> DEFINE w == waf[tx[call.on].waf].id
           id == txNextID + 1
<1>6. Wrap(txNextID + 1) = id /\ txNextID \in Nat
  BY NextTxId
<1>7. CASE UNCHANGED <<txs, txOwner>> /\ call'.step = "read" /\ txNextID' = txNextID
  <2>1. ~Made' /\ Creating'
    BY <1>1, <1>3, <1>4, <1>5, <1>7 DEF Made, Creating, Underway, Continues, SameCall
  <2> QED BY <1>3, <1>4, <1>5, <1>7, <2>1, KeptSlots DEF KeepsSlots
<1>8. CASE UNCHANGED <<txs, txOwner>> /\ call'.err = "trap" /\ txNextID' = id
  <2>1. ~Made' /\ Creating'
    BY <1>1, <1>3, <1>4, <1>5, <1>8 DEF Made, Creating, Underway, Continues, SameCall
  <2> QED BY <1>3, <1>4, <1>5, <1>8, <2>1, KeptSlots DEF KeepsSlots
<1>9. CASE /\ txs' = Put(txs, id, Fresh(call.on, w)) /\ txOwner' = Put(txOwner, id, w)
           /\ Returns(id) /\ txNextID' = id
  <2>1. /\ DOMAIN txs' = DOMAIN txs \cup {id} /\ DOMAIN txOwner = DOMAIN txs
        /\ \A i \in DOMAIN txs : i # id => txs'[i] = txs[i] /\ txOwner'[i] = txOwner[i]
        /\ txs'[id] = Fresh(call.on, w) /\ txOwner'[id] = w
    BY <1>9 DEF Put, TInv, TypeOK
  <2>2. id \notin DOMAIN txs /\ \A u \in Tx : Exists(u) => tx[u].id # id
    BY <1>6 DEF SInv, SlotsAreOwned, HandlesAreMade
  <2>3. call'.rc = id /\ call'.err = call.err /\ call'.step = "finally"
    BY <1>1, <1>2, <1>6, <1>9, ReturnsCalls DEF Getters
  <2>4. HandlesAreMade' /\ HandlesDiffer'
    BY <1>3, <1>6, <1>9 DEF SInv, HandlesAreMade, HandlesDiffer, Exists
  <2>5. SlotsAreOwned'
    <3>1. \A i \in DOMAIN txs : i \in 1..txNextID' /\ i # id
      BY <1>6, <1>9, <2>2 DEF SInv, SlotsAreOwned
    <3>2. id \in 1..txNextID' /\ txs'[id].waf = w
      <4>1. id \in 1..txNextID'
        BY <1>6, <1>9
      <4> QED BY <2>1, <4>1 DEF Fresh
    <3> QED BY <2>1, <3>1, <3>2 DEF SInv, SlotsAreOwned
  <2>6. HandlesHaveSlots'
    BY <1>3, <1>4, <2>1, <2>2 DEF SInv, HandlesHaveSlots, Slot, Open
  <2>7. Made' /\ call'.on = call.on
    BY <1>1, <1>2, <1>3, <1>4, <2>3 DEF Made, Underway, Continues, SameCall, CallTyped
  <2>8. SlotsHaveHandles'
    BY <1>3, <1>4, <1>5, <2>1, <2>3, <2>7 DEF SInv, SlotsHaveHandles, Exists, Open, Fresh
  <2>9. Creating'
    BY <1>1, <1>3, <1>4, <1>5, <2>1, <2>2, <2>3, <2>7
       DEF Creating, Underway, Continues, SameCall, Fresh, Exists
  <2> QED BY <2>4, <2>5, <2>6, <2>8, <2>9 DEF SInv
<1> QED
  <2>1. CASE w \notin wafs
    <3>1. SetErr("unknown waf id") /\ UNCHANGED <<txs, txOwner, txNextID>>
      BY <2>1 DEF TxCreate
    <3> QED BY <1>2, <1>7, <3>1, SetErrCalls
  <2>2. CASE w \in wafs
    <3>1. /\ txNextID' = id
          /\ \/ txs' = Put(txs, id, Fresh(call.on, w)) /\ txOwner' = Put(txOwner, id, w) /\ Returns(id)
             \/ Traps /\ UNCHANGED <<txs, txOwner>>
      BY <1>6, <2>2 DEF TxCreate
    <3> QED BY <1>2, <1>8, <1>9, <3>1, TrapsCalls
  <2> QED BY <2>1, <2>2

(* At the end of a method the new handle gets the number of its slot.      *)
LEMMA SettleKeepsSlots == TInv /\ NInv /\ SInv /\ Settle => SInv'
<1> SUFFICES ASSUME TInv, NInv, SInv, Settle PROVE SInv'
  OBVIOUS
<1>1. CallTyped /\ call # Idle /\ call.step = "finally" /\ call' = Idle
  BY RunningIsTyped, TypedIsNotIdle DEF Settle
<1>2. SettlesWafs /\ SettlesTxs
  BY <1>1, SettleSettles
<1>3. UNCHANGED <<txs, txOwner, txNextID, lost, trapped>>
  BY DEF Settle, goVars
<1>4. ~Closing /\ ~Closing' /\ ~Made' /\ Creating'
  BY <1>1 DEF Closing, Made, Creating, Underway
<1>5. \A w \in Waf : waf[w].state # "none" => waf'[w] = waf[w]
  BY <1>1, <1>2 DEF SettlesWafs, CallTyped
<1>6. \A t \in Tx : ~(Made /\ call.on = t) =>
        (Exists(t)' <=> Exists(t)) /\ (Open(t)' <=> Open(t))
          /\ tx'[t].id = tx[t].id /\ tx'[t].waf = tx[t].waf
  BY <1>1, <1>2 DEF SettlesTxs, CallTyped, Made, Underway, Exists, Open
<1>7. Made => /\ call.on \in Tx /\ ~Exists(call.on) /\ tx'[call.on].state = "open"
              /\ tx'[call.on].id = call.rc /\ tx'[call.on].waf = tx[call.on].waf
              /\ tx[call.on].waf \in Waf /\ waf[tx[call.on].waf].state = "open"
              /\ call.rc \in DOMAIN txs /\ txs[call.rc].of = call.on
              /\ txs[call.rc].waf = waf[tx[call.on].waf].id /\ ~txs[call.rc].closed
              /\ \A u \in Tx : Exists(u) => tx[u].id # call.rc
  <2> SUFFICES ASSUME Made
               PROVE  /\ call.on \in Tx /\ ~Exists(call.on) /\ tx'[call.on].state = "open"
                      /\ tx'[call.on].id = call.rc /\ tx'[call.on].waf = tx[call.on].waf
                      /\ tx[call.on].waf \in Waf /\ waf[tx[call.on].waf].state = "open"
    BY DEF SInv, Creating
  <2>1. /\ call.op = "newTransaction" /\ call.err = "" /\ call.on \in Tx
        /\ tx[call.on].state = "none" /\ tx[call.on].waf \in Waf
        /\ waf[tx[call.on].waf].state = "open"
    BY <1>1 DEF Made, Underway, CallTyped, SInv, Creating
  <2> DEFINE t == call.on
  <2>2. /\ tx'[t].id = call.rc /\ tx'[t].state = "open" /\ tx'[t].waf = tx[t].waf
    BY <1>2, <2>1 DEF SettlesTxs
  <2> QED BY <2>1, <2>2 DEF Exists
<1>8. HandlesAreMade'
  BY <1>3, <1>5, <1>6, <1>7 DEF SInv, HandlesAreMade, SlotsAreOwned, Exists
<1>9. HandlesDiffer'
  BY <1>6, <1>7 DEF SInv, HandlesDiffer, Exists
<1>10. SlotsAreOwned'
  BY <1>3 DEF SInv, SlotsAreOwned
<1>11. SlotsHaveHandles'
  <2>1. \A i \in DOMAIN txs : txs[i].of \in Tx
    BY DEF TInv, TypeOK
  <2> SUFFICES ASSUME NEW i \in DOMAIN txs
               PROVE  LET t == txs[i].of
                      IN /\ tx'[t].state \in {"open", "closed"} /\ tx'[t].id = i
                         /\ t \in trapped \/ tx'[t].state = "open"
    BY <1>3 DEF SlotsHaveHandles, Exists, Open
  <2> DEFINE t == txs[i].of
  <2>2. CASE Made /\ call.on = t
    <3>1. call.rc = i
      BY <1>7, <2>2 DEF SInv, SlotsHaveHandles
    <3> QED BY <1>7, <2>2, <3>1
  <2>3. CASE ~(Made /\ call.on = t)
    <3>1. Exists(t) /\ tx[t].id = i /\ (t \in trapped \/ Open(t))
      BY <1>4, <2>3 DEF SInv, SlotsHaveHandles
    <3>2. PICK u \in Tx : u = t
      BY <2>1
    <3>3. /\ Exists(u)' <=> Exists(u)
          /\ Open(u)' <=> Open(u)
          /\ tx'[u].id = tx[u].id
      BY <1>6, <2>3, <3>2
    <3> QED BY <3>1, <3>2, <3>3 DEF Exists, Open
  <2> QED BY <2>2, <2>3
<1>12. HandlesHaveSlots'
  <2> SUFFICES ASSUME NEW t \in Tx, Open(t)', t \notin lost'
               PROVE  /\ tx'[t].id \in DOMAIN txs'
                      /\ Slot(t)'.of = t /\ Slot(t)'.waf = waf'[tx'[t].waf].id
                      /\ Slot(t)'.closed => t \in trapped'
    BY DEF HandlesHaveSlots
  <2>1. CASE Made /\ call.on = t
    BY <1>3, <1>5, <1>7, <2>1 DEF Slot
  <2>2. CASE ~(Made /\ call.on = t)
    <3>1. Open(t) /\ tx'[t].id = tx[t].id /\ tx'[t].waf = tx[t].waf /\ t \notin lost
      BY <1>3, <1>6, <2>2
    <3>2. waf'[tx[t].waf] = waf[tx[t].waf]
      BY <1>5, <3>1 DEF SInv, HandlesAreMade, Exists, Open
    <3> QED BY <1>3, <3>1, <3>2 DEF SInv, HandlesHaveSlots, Slot
  <2> QED BY <2>1, <2>2
<1> QED BY <1>4, <1>8, <1>9, <1>10, <1>11, <1>12 DEF SInv

LEMMA StepKeepsSlots == EnoughIds /\ TInv /\ NInv /\ SInv /\ [Next]_vars => SInv'
<1>1. TInv /\ SInv /\ UNCHANGED vars => SInv'
  <2> SUFFICES ASSUME TInv, SInv, UNCHANGED vars PROVE SInv'
    OBVIOUS
  <2>1. UNCHANGED <<txs, txOwner, txNextID, waf, tx, call, lost, trapped>>
    BY DEF vars, goVars, memVars, jsVars, ghosts
  <2>2. Creating' /\ KeepsSlots
    BY <2>1 DEF SInv, Creating, KeepsSlots, Exists, Made, Closing, Underway
  <2> QED BY <2>2, KeptSlots
<1> QED BY <1>1, MethodKeepsSlots, AllocationKeepsSlots, AnswerKeepsSlots, QuietExportKeepsSlots,
           TxDestroyKeepsSlots, TxResetKeepsSlots, TxCreateKeepsSlots, SettleKeepsSlots
           DEF Next, Export

LEMMA InitSlots == Init => SInv
<1> SUFFICES ASSUME Init PROVE SInv
  OBVIOUS
<1>1. DOMAIN txs = {} /\ call = Idle
  <2>1. txs = << >> /\ call = Idle
    BY DEF Init
  <2> QED BY <2>1
<1>2. \A t \in Tx : ~Exists(t) /\ ~Open(t)
  BY DEF Init, Exists, Open
<1> QED BY <1>1, <1>2 DEF SInv, HandlesAreMade, HandlesDiffer, SlotsAreOwned,
     SlotsHaveHandles, HandlesHaveSlots, Creating, Made, Underway

(* Slots: between methods every open handle has its own slot, and every    *)
(* slot an open handle, but for those that lost theirs or met a trap.      *)
THEOREM SlotsAlwaysMatch ==
  ASSUME EnoughIds
  PROVE  Spec => []SlotsMatchHandles
<1>1. Init => TInv /\ NInv /\ SInv
  BY InitTyped, InitNumbers, InitSlots
<1>2. SInv => SlotsMatchHandles
  BY DEF SInv, SlotsMatchHandles, Resting, SlotsHaveHandles, HandlesHaveSlots, Slot, Made, Closing,
     Underway
<1> QED BY <1>1, <1>2, StepTyped, StepNumbers, StepKeepsSlots, PTL DEF Spec

-----------------------------------------------------------------------------
(* The answers.  A handle that was told of an interruption has it in its   *)
(* own slot; and an error or a result is on its way to the method that     *)
(* caused it.                                                              *)
Hit(t) == /\ Open(t) /\ tx[t].id \in DOMAIN txs
          /\ Slot(t).of = t /\ Slot(t).hit

Told == \A t \in told : Hit(t)
Erring == call # Idle =>
  /\ call.step = "call" => call.raised = "" /\ call.val = None
  /\ call.step = "read" => call.op \in Checked \cup Getters /\ call.val = None
  /\ call.step = "read" /\ call.op \in Checked => call.raised = lastErr /\ lastErr # ""
  /\ call.step = "finally" /\ call.op \in Checked => call.err \in {call.raised, "trap"}
  /\ call.step = "finally" /\ call.op \in Inspections /\ call.err = "" /\ call.rc = 1
       => Hit(call.on)
Answering == call # Idle /\ call.op \in Getters =>
  /\ call.step = "read" =>
       /\ scratch \in {Text(call.op, call.on), [Text(call.op, call.on) EXCEPT !.whole = FALSE]}
       /\ call.op = "interruption" => scratch.whole
  /\ call.step = "finally" =>
       /\ call.val \in {None, Text(call.op, call.on)}
       /\ call.op = "interruption" /\ call.on \in told => call.val # None

AInv == Told /\ Erring /\ Answering

(* The exports that are checked return no negative number but by SetErr.   *)
LEMMA CheckedExports ==
  ASSUME EnoughIds, TInv, NInv, SInv, Export, call.op \in Checked
  PROVE  \/ \E rc \in Nat : Returns(rc) /\ UNCHANGED lastErr
         \/ \E msg : msg # "" /\ SetErr(msg)
         \/ Traps
<1> DEFINE A == \/ \E rc \in Nat : Returns(rc) /\ UNCHANGED lastErr
                \/ \E msg : msg # "" /\ SetErr(msg)
                \/ Traps
<1>1. CallTyped
  BY RunningIsTyped DEF Export, Enters, WafCreate, WafDestroy, TxCreate, TxDestroy, TxReset,
     TxProcess, TxProcessLogging, TxPredicate, TxGet
<1>2. CASE WafCreate
  <2> DEFINE id == Wrap(wafNextID + 1)
  <2>1. id \in Nat
    BY <1>2, NextWafId
  <2> HIDE DEF id
  <2>2. \/ SetErr("bad configuration")
        \/ Returns(id) /\ UNCHANGED lastErr
        \/ Traps
    BY <1>2 DEF WafCreate, id
  <2> QED BY <2>1, <2>2
<1>3. CASE TxCreate
  <2>1. Wrap(txNextID + 1) \in Nat
    BY <1>3, NextTxId
  <2> QED BY <1>3, <2>1 DEF TxCreate
<1>4. CASE TxReset
  <2>1. MyId \in Nat
    <3>1. call.on \in Tx /\ Exists(call.on)
      BY <1>1, <1>4 DEF TxReset, Enters, CallTyped, HandleOps, Exists, Open
    <3>2. txNextID \in Int
      BY SmallAreIds DEF TInv, TypeOK
    <3> QED BY <3>1, <3>2 DEF SInv, HandlesAreMade, MyId
  <2> QED BY <1>4, <2>1 DEF TxReset
<1>5. CASE TxProcess
  <2>1. CASE Refusal # "" /\ SetErr(Refusal)
    BY <2>1
  <2>2. CASE \E o : Returns(Verdict(o)) /\ UNCHANGED lastErr
    <3>1. \A o : Verdict(o) \in Nat
      BY DEF Verdict
    <3> QED BY <2>2, <3>1
  <2>3. CASE Traps \/ SetErr("engine error")
    BY <2>3
  <2> QED BY <1>5, <2>1, <2>2, <2>3 DEF TxProcess
<1>6. CASE TxProcessLogging
  BY <1>6 DEF TxProcessLogging
<1>7. ~(WafDestroy \/ TxDestroy \/ TxPredicate \/ TxGet)
  BY DEF WafDestroy, TxDestroy, TxPredicate, TxGet, Enters, Checked, Inspections, Predicates, Getters
<1> QED BY <1>2, <1>3, <1>4, <1>5, <1>6, <1>7 DEF Export

(* An export keeps the interruption of every handle but the one that it    *)
(* releases or resets.                                                     *)
LEMMA ExportKeepsHits ==
  ASSUME EnoughIds, TInv, NInv, SInv, Export, NEW t \in Tx, Hit(t), t \in told'
  PROVE  Hit(t)'
<1>1. CallTyped /\ UNCHANGED <<waf, tx>>
  <2>1. CallTyped
    BY RunningIsTyped DEF Export, Enters, WafCreate, WafDestroy, TxCreate, TxDestroy, TxReset,
       TxProcess, TxProcessLogging, TxPredicate, TxGet
  <2> QED BY <2>1, ExportCalls DEF jsVars
<1> DEFINE i == tx[t].id
<1>2. i \in DOMAIN txs /\ txs[i].of = t /\ txs[i].hit /\ Open(t)
  BY DEF Hit, Slot
<1>3. SUFFICES i \in DOMAIN txs' /\ txs'[i].of = t /\ txs'[i].hit
  BY <1>1, <1>2 DEF Hit, Slot, Open
<1>4. CASE UNCHANGED txs
  BY <1>2, <1>4
<1>5. ASSUME call.op \in HandleOps \cup {"close"}, call.on # t PROVE MyId # i
  <2>1. call.on \in Tx /\ Exists(call.on) /\ Exists(t)
    BY <1>1, <1>2, <1>5 DEF CallTyped, Exists, Open
  <2> QED BY <1>5, <2>1 DEF SInv, HandlesDiffer, MyId
<1>6. CASE TxCreate /\ ~UNCHANGED txs
  <2>1. PICK o : txs' = Put(txs, txNextID + 1, o)
    BY <1>6, NextTxId DEF TxCreate
  <2>2. i # txNextID + 1
    BY <1>2, <1>6, NextTxId DEF SInv, SlotsAreOwned
  <2> QED BY <1>2, <2>1, <2>2 DEF Put
<1>7. CASE TxDestroy /\ ~UNCHANGED txs
  <2>1. call.op = "close" /\ Release(MyId) /\ call.on # t
    BY <1>1, <1>2, <1>7 DEF TxDestroy, Enters, CallTyped, Open
  <2> QED BY <1>2, <1>5, <2>1 DEF Release, Drop
<1>8. CASE TxReset /\ ~UNCHANGED txs
  <2>1. call.op \in HandleOps
    BY <1>8 DEF TxReset, Enters, HandleOps
  <2>2. CASE Release(MyId) /\ told' = told \ {call.on}
    <3>1. call.on # t
      BY <2>2
    <3> QED BY <1>2, <1>5, <2>1, <2>2, <3>1 DEF Release, Drop
  <2>3. CASE txs' = Put(txs, MyId, Replacement) /\ told' = told \ {call.on}
    <3>1. MyId # i
      BY <1>5, <2>1, <2>3
    <3> QED BY <1>2, <2>3, <3>1 DEF Put
  <2>4. CASE txs' \in HalfReset
    BY <1>2, <2>4 DEF HalfReset, TInv, TypeOK
  <2> QED BY <1>8, <2>2, <2>3, <2>4 DEF TxReset
<1>9. CASE TxProcess /\ ~UNCHANGED txs
  <2>1. PICK o \in Advanced(MyTx) : txs' = [txs EXCEPT ![MyId] = o] /\ Refusal = ""
    BY <1>9 DEF TxProcess
  <2>2. MyId \in DOMAIN txs /\ txs[MyId] \in [of : Tx, waf : Ids, hit : BOOLEAN, closed : BOOLEAN]
    BY <2>1 DEF Refusal, Known, TInv, TypeOK
  <2>3. o.of = MyTx.of /\ (MyTx.hit => o.hit)
    BY <2>1, <2>2 DEF Advanced, MyTx
  <2> QED BY <1>2, <2>1, <2>2, <2>3 DEF MyTx
<1>10. UNCHANGED txs \/ TxCreate \/ TxDestroy \/ TxReset \/ TxProcess
  BY DEF Export, WafCreate, WafDestroy, TxProcessLogging, TxPredicate, TxGet, goVars
<1> QED BY <1>4, <1>6, <1>7, <1>8, <1>9, <1>10

(* So does every other step.                                               *)
LEMMA ToldStay ==
  ASSUME EnoughIds, TInv, NInv, SInv, Told, Next, told' \subseteq told
  PROVE  Told'
<1> SUFFICES ASSUME NEW t \in told' PROVE Hit(t)'
  BY DEF Told
<1>1. t \in Tx /\ Hit(t) /\ tx[t].state = "open"
  BY DEF Told, TInv, TypeOK, Hit, Open
<1>2. CASE Export
  BY <1>1, <1>2, ExportKeepsHits
<1>3. CASE ~Export
  <2>1. txs' = txs
    BY <1>3 DEF Next, Method, FromAbi, Destroy, NewTransaction, Close, ProcessRequestBundle,
       Inspect, Ask, SkipEmpty, Allocate, AllocateFails, CheckThrows, ReadResult, Settle, goVars
  <2>a. tx \in [Tx -> [id : Ids, state : {"none", "open", "closed", "failed"},
                       waf : Waf \cup {None}]]
    BY DEF TInv, TypeOK
  <2>2. tx'[t] = tx[t]
    <3>1. CASE Method
      <4>1. ASSUME NEW u \in Tx, Close(u) PROVE tx'[t] = tx[t]
        BY <1>1, <2>a, <4>1 DEF Close
      <4>2. ASSUME NEW w \in Waf, NEW u \in Tx, NewTransaction(w, u) PROVE tx'[t] = tx[t]
        BY <1>1, <2>a, <4>2 DEF NewTransaction
      <4>3. CASE UNCHANGED tx
        BY <4>3
      <4> QED BY <3>1, <4>1, <4>2, <4>3 DEF Method, FromAbi, Destroy, ProcessRequestBundle,
                 Inspect, Ask, jsVars
    <3>2. CASE AllocateFails
      <4>1. CallTyped /\ Unborn
        BY <3>2, RunningIsTyped DEF AllocateFails, Pending
      <4>2. CASE call.op = "newTransaction"
        <5>1. call.on \in Tx /\ call.on # t
          BY <1>1, <4>1, <4>2 DEF CallTyped
        <5>2. tx' = [tx EXCEPT ![call.on].state = "failed"]
          BY <4>1, <4>2 DEF Unborn
        <5> QED BY <2>a, <5>1, <5>2
      <4> QED BY <4>1, <4>2 DEF Unborn, jsVars
    <3>3. CASE Settle
      <4>1. CallTyped /\ SettlesTxs
        BY <3>3, RunningIsTyped, SettleSettles DEF Settle
      <4> QED BY <1>1, <4>1 DEF SettlesTxs, CallTyped
    <3>4. CASE SkipEmpty \/ Allocate \/ CheckThrows \/ ReadResult
      BY <3>4 DEF SkipEmpty, Allocate, CheckThrows, ReadResult, jsVars
    <3> QED BY <1>3, <3>1, <3>2, <3>3, <3>4 DEF Next
  <2> QED BY <1>1, <2>1, <2>2 DEF Hit, Open, Slot
<1> QED BY <1>2, <1>3

LEMMA MethodAnswers == SInv /\ Method => Erring' /\ Answering' /\ told' \subseteq told
<1> SUFFICES ASSUME Method PROVE Erring' /\ Answering' /\ told' \subseteq told
  OBVIOUS
<1>1. PICK op, on, sent : Begin(op, on, sent)
  BY DEF Method, FromAbi, Destroy, NewTransaction, Close, ProcessRequestBundle, Inspect, Ask
<1>2. call'.step = "call" /\ call'.raised = "" /\ call'.val = None
  BY <1>1, BeginCalls
<1>3. told' \subseteq told
  BY DEF Method, FromAbi, Destroy, NewTransaction, Close, ProcessRequestBundle, Inspect, Ask,
     ghosts
<1> QED BY <1>2, <1>3 DEF Erring, Answering

LEMMA AllocationAnswers ==
  ASSUME TInv, AInv, SkipEmpty \/ Allocate \/ AllocateFails
  PROVE  Erring' /\ Answering' /\ told' \subseteq told
<1>1. CallTyped /\ call # Idle /\ call.step = "call"
  BY RunningIsTyped, TypedIsNotIdle DEF SkipEmpty, Allocate, AllocateFails, Pending
<1>2. told' = told
  BY DEF SkipEmpty, Allocate, AllocateFails, ghosts
<1>3. CASE SkipEmpty \/ Allocate
  <2>1. call'.step = "call" /\ call'.raised = call.raised /\ call'.val = call.val
    BY <1>1, <1>3, AppendCalls DEF SkipEmpty, Allocate
  <2> QED BY <1>1, <1>2, <2>1 DEF AInv, Erring, Answering
<1>4. CASE AllocateFails
  BY <1>2, <1>4 DEF AllocateFails, Erring, Answering
<1> QED BY <1>3, <1>4

LEMMA VerdictHits == ASSUME NEW o, Verdict(o) = 1 PROVE o.hit
BY DEF Verdict

(* An inspection that returns an interruption has recorded it.             *)
LEMMA InspectionHits ==
  ASSUME TInv, SInv, TxProcess, call'.err = "", call'.rc = 1, call'.step = "finally",
         NEW t \in Tx, t = call.on
  PROVE  Hit(t)'
<1>1. call.op \in Inspections /\ CallTyped
  BY RunningIsTyped DEF TxProcess, Enters
<1>2. call.op \in HandleOps /\ Open(call.on)
  BY <1>1 DEF CallTyped, HandleOps
<1>3. UNCHANGED <<waf, tx>>
  BY DEF TxProcess, jsVars
<1>4. ~\E msg : SetErr(msg)
  BY <1>1, SetErrCalls
<1>5. ~Traps
  BY <1>1, TrapsCalls
<1>6. PICK o \in Advanced(MyTx) :
        txs' = [txs EXCEPT ![MyId] = o] /\ Returns(Verdict(o)) /\ Refusal = ""
  BY <1>4, <1>5 DEF TxProcess
<1>7. Known /\ MyId \in DOMAIN txs
  BY <1>6 DEF Refusal, Known
<1>8. txs[MyId].of = call.on
  BY <1>1, <1>2, <1>7, MySlotIsMine
<1>9. txs[MyId] \in [of : Tx, waf : Ids, hit : BOOLEAN, closed : BOOLEAN]
  BY <1>7 DEF TInv, TypeOK
<1>10. o.of = call.on
  BY <1>6, <1>8, <1>9 DEF Advanced, MyTx
<1>11. o.hit
  BY <1>1, <1>6, ReturnsCalls, VerdictHits
<1>12. txs'[MyId] = o /\ DOMAIN txs' = DOMAIN txs
  BY <1>6, <1>7
<1>13. tx'[t].id = MyId /\ Open(t)'
  BY <1>2, <1>3 DEF MyId, Open
<1> QED BY <1>7, <1>10, <1>11, <1>12, <1>13 DEF Hit, Slot

LEMMA ExportAnswers ==
  ASSUME EnoughIds, TInv, NInv, SInv, AInv, Export
  PROVE  Erring' /\ Answering' /\ told' \subseteq told
<1>1. CallTyped /\ call # Idle /\ call.step = "call" /\ call.err = ""
  BY RunningIsTyped, TypedIsNotIdle DEF Export, Enters, WafCreate, WafDestroy, TxCreate,
     TxDestroy, TxReset, TxProcess, TxProcessLogging, TxPredicate, TxGet, CallTyped
<1>2. /\ Continues /\ UNCHANGED tx /\ call'.step \in {"read", "finally"}
      /\ call' # Idle
  BY <1>1, ExportCalls, ReturnsCalls, SetErrCalls, TrapsCalls, FieldsAreNotIdle
     DEF jsVars, Continues, SameCall
<1>3. call.raised = "" /\ call.val = None
  BY <1>1 DEF AInv, Erring
<1>4. told' \subseteq told
  BY DEF Export, WafCreate, WafDestroy, TxCreate, TxDestroy, TxReset, TxProcess,
     TxProcessLogging, TxPredicate, TxGet, ghosts
<1>5. call'.val = None
  BY <1>1, <1>3, ExportCalls, ReturnsCalls, SetErrCalls, TrapsCalls
<1>6. CASE call.op \in Checked
  <2>0. call.op \notin Getters
    BY <1>6 DEF Checked, Getters, Inspections
  <2>1. /\ call'.step = "read" => call'.raised = lastErr' /\ lastErr' # ""
        /\ call'.step = "finally" => call'.err \in {call'.raised, "trap"}
    <3>1. CASE \E rc \in Nat : Returns(rc) /\ UNCHANGED lastErr
      <4>1. PICK rc \in Nat : Returns(rc)
        BY <3>1
      <4>2. call'.step = "finally" /\ call'.raised = "" /\ call'.err = ""
        <5>1. ~((call.op \in Checked /\ rc < 0) \/ (call.op \in Getters /\ rc = 1))
          BY <2>0
        <5>2. /\ call'.raised = call.raised /\ call'.err = call.err
              /\ call'.step =
                   IF (call.op \in Checked /\ rc < 0) \/ (call.op \in Getters /\ rc = 1)
                   THEN "read" ELSE "finally"
          BY <1>1, <4>1, ReturnsCalls
        <5> QED BY <1>1, <1>3, <5>1, <5>2
      <4> QED BY <4>2
    <3>2. CASE \E msg : msg # "" /\ SetErr(msg)
      BY <1>1, <3>2, SetErrCalls
    <3>3. CASE Traps
      BY <1>1, <3>3, TrapsCalls
    <3> QED BY <1>6, <3>1, <3>2, <3>3, CheckedExports
  <2>2. ASSUME call.op \in Inspections, call'.step = "finally", call'.err = "", call'.rc = 1
        PROVE  Hit(call.on)'
    <3>1. TxProcess
      BY <2>2 DEF Export, WafCreate, WafDestroy, TxCreate, TxDestroy, TxReset,
         TxProcessLogging, TxPredicate, TxGet, Enters, Inspections, Predicates, Getters
    <3>2. PICK t \in Tx : t = call.on
      BY <1>1, <2>2 DEF CallTyped, HandleOps
    <3>3. Hit(t)' /\ t = call'.on
      BY <1>2, <2>2, <3>1, <3>2, InspectionHits DEF Continues, SameCall
    <3> QED BY <3>3 DEF Hit, Slot, Open
  <2> QED BY <1>2, <1>4, <1>5, <1>6, <2>0, <2>1, <2>2 DEF Erring, Answering, Continues, SameCall
<1>7. CASE call.op \in Getters
  <2>1. TxGet /\ call.op \notin Checked /\ call.op \notin Inspections
    BY <1>7 DEF Export, WafCreate, WafDestroy, TxCreate, TxDestroy, TxReset, TxProcess,
       TxProcessLogging, TxPredicate, TxGet, Enters, Inspections, Predicates, Getters, Checked
  <2>2. CASE /\ Known
             /\ \E long \in BOOLEAN :
                  /\ long => call.op = "matchedRules"
                  /\ scratch' = WriteScratch(Text(call.op, MyTx.of), ~onHeap', long)
             /\ Returns(1)
    <3>1. MyTx.of = call.on
      BY <1>1, <1>7, <2>2, MySlotIsMine DEF MyTx, HandleOps
    <3>2. PICK long \in BOOLEAN :
                  /\ long => call.op = "matchedRules"
                  /\ scratch' = WriteScratch(Text(call.op, call.on), ~onHeap', long)
      BY <2>2, <3>1
    <3>3. /\ scratch' \in {Text(call.op, call.on), [Text(call.op, call.on) EXCEPT !.whole = FALSE]}
          /\ call.op = "interruption" => scratch'.whole
      BY <3>2 DEF WriteScratch, Text
    <3>4. call'.step = "read"
      BY <1>1, <1>7, <2>2, ReturnsCalls
    <3> QED BY <1>2, <1>4, <1>5, <2>1, <1>7, <3>3, <3>4 DEF Erring, Answering, Continues, SameCall
  <2>3. CASE /\ Known => call.op = "matchedRules" \/ ~MyTx.hit
             /\ Returns(0)
    <3>1. call'.step = "finally"
      <4>1. call'.step =
              IF (call.op \in Checked /\ 0 < 0) \/ (call.op \in Getters /\ 0 = 1)
              THEN "read" ELSE "finally"
        BY <1>1, <2>3, ReturnsCalls
      <4> QED BY <2>1, <4>1
    <3>2. call.op = "interruption" => call.on \notin told
      BY <2>3 DEF AInv, Told, Hit, Slot, Known, MyTx, MyId
    <3> QED BY <1>2, <1>4, <1>5, <2>1, <1>7, <3>1, <3>2 DEF Erring, Answering, Continues, SameCall
  <2> QED BY <2>1, <2>2, <2>3 DEF TxGet
<1>8. CASE call.op \notin Checked \cup Getters
  <2>1. call'.step = "finally"
    <3>1. (\E rc : Returns(rc)) \/ Traps
      BY <1>8 DEF Export, WafCreate, WafDestroy, TxCreate, TxDestroy, TxReset, TxProcess,
         TxProcessLogging, TxPredicate, TxGet, Enters, Checked
    <3> QED BY <1>1, <1>8, <3>1, ReturnsCalls, TrapsCalls
  <2> QED BY <1>2, <1>4, <1>8, <2>1 DEF Erring, Answering, Continues, SameCall, Checked
<1> QED BY <1>6, <1>7, <1>8

LEMMA AnswerAnswers ==
  ASSUME TInv, AInv, CheckThrows \/ ReadResult
  PROVE  Erring' /\ Answering' /\ told' \subseteq told
<1>1. CallTyped /\ call # Idle /\ call.step = "read"
  BY RunningIsTyped, TypedIsNotIdle DEF CheckThrows, ReadResult
<1>2. told' = told
  BY DEF CheckThrows, ReadResult, ghosts
<1>3. CASE CheckThrows
  <2>1. call.op \in Checked /\ call.op \notin Getters /\ call.raised = lastErr /\ lastErr # ""
    BY <1>1, <1>3 DEF CheckThrows, AInv, Erring, Checked, Getters, Inspections
  <2>2. scratch'.of = lastErr
    BY <1>3, <2>1 DEF CheckThrows, WriteScratch, Text
  <2>3. /\ Continues /\ call'.step = "finally" /\ call'.raised = call.raised
        /\ call'.err = scratch'.of
    BY <1>1, <1>3, <2>1 DEF CheckThrows, Refreshed, CallTyped, Continues, SameCall, CallFields
  <2>4. call'.op \notin Getters /\ call'.err = call'.raised /\ call'.err # ""
    BY <2>1, <2>2, <2>3 DEF Continues, SameCall
  <2>5. Erring'
    BY <2>3, <2>4 DEF Erring
  <2>6. Answering'
    BY <2>4 DEF Answering
  <2> QED BY <1>2, <2>5, <2>6
<1>4. CASE ReadResult
  <2>1. /\ call.op \in Getters /\ call.op \notin Checked /\ call.val = None
        /\ scratch \in {Text(call.op, call.on), [Text(call.op, call.on) EXCEPT !.whole = FALSE]}
        /\ call.op = "interruption" => scratch.whole
    BY <1>1, <1>4 DEF ReadResult, AInv, Erring, Answering, Checked, Getters, Inspections
  <2>2. /\ Continues /\ call'.step = "finally"
        /\ call'.val = IF scratch.whole THEN scratch ELSE None
    BY <1>1, <1>4, <2>1 DEF ReadResult, Refreshed, CallTyped, Continues, SameCall, CallFields
  <2>3. scratch.whole => scratch = Text(call.op, call.on)
    BY <2>1 DEF Text
  <2>4. call.on \in Tx /\ None # Text(call.op, call.on)
    BY <1>1, <2>1, AnswersAssumption DEF CallTyped, HandleOps
  <2> QED BY <1>2, <2>1, <2>2, <2>3, <2>4 DEF Erring, Answering, Continues, SameCall, Checked,
             Inspections
<1> QED BY <1>3, <1>4

LEMMA StepAnswers ==
  EnoughIds /\ TInv /\ NInv /\ SInv /\ AInv /\ [Next]_vars => AInv'
<1> SUFFICES ASSUME EnoughIds, TInv, NInv, SInv, AInv, [Next]_vars PROVE AInv'
  OBVIOUS
<1>1. CASE UNCHANGED vars
  BY <1>1 DEF vars, goVars, jsVars, ghosts, AInv, Told, Erring, Answering, Hit, Open, Slot
<1>2. CASE Next /\ ~Settle
  <2>1. Erring' /\ Answering' /\ told' \subseteq told
    BY <1>2, MethodAnswers, AllocationAnswers, ExportAnswers, AnswerAnswers DEF Next
  <2> QED BY <1>2, <2>1, ToldStay DEF AInv
<1>3. CASE Settle
  <2>1. CallTyped /\ call # Idle /\ call.step = "finally" /\ call' = Idle
    BY <1>3, RunningIsTyped, TypedIsNotIdle DEF Settle
  <2>2. CASE told' \subseteq told
    <3>1. Told'
      BY <1>3, <2>2, ToldStay DEF AInv, Next
    <3> QED BY <2>1, <3>1 DEF AInv, Erring, Answering
  <2>3. CASE ~(told' \subseteq told)
    <3>1. told' = told \cup {call.on} /\ Hit(call.on) /\ call.op \in Inspections
      BY <1>3, <2>1, <2>3 DEF Settle, AInv, Erring
    <3>2. UNCHANGED <<txs, tx>>
      BY <1>3, <3>1 DEF Settle, goVars, jsVars, Inspections, Unborn
    <3>3. \A t \in told' : Hit(t)
      BY <3>1 DEF AInv, Told
    <3>4. Told'
      BY <3>2, <3>3 DEF Told, Hit, Open, Slot
    <3> QED BY <2>1, <3>4 DEF AInv, Erring, Answering
  <2> QED BY <2>2, <2>3
<1> QED BY <1>1, <1>2, <1>3

LEMMA InitAnswers == Init => AInv
<1> SUFFICES ASSUME Init PROVE AInv
  OBVIOUS
<1>1. told = {} /\ call = Idle
  BY DEF Init
<1> QED BY <1>1 DEF AInv, Told, Erring, Answering

(* Answers: a method throws the error of its own export, and returns what  *)
(* the engine has for its own handle.                                      *)
THEOREM AnswersAreAlwaysOwn == ASSUME EnoughIds PROVE Spec => []AnswersAreOwn
<1> DEFINE I == TInv /\ NInv /\ SInv /\ AInv
<1>1. Init => I
  BY InitTyped, InitNumbers, InitSlots, InitAnswers
<1>2. I /\ [Next]_vars => I'
  BY StepTyped, StepNumbers, StepKeepsSlots, StepAnswers
<1>3. I => AnswersAreOwn
  <2> SUFFICES ASSUME AInv PROVE AnswersAreOwn
    OBVIOUS
  <2>1. At("finally", Checked) => call.err \in {call.raised, "trap"}
    <3>1. call.step = "finally" => call # Idle
      BY DEF Idle
    <3> QED BY <3>1 DEF AInv, Erring, At
  <2>2. At("finally", Getters) =>
          /\ call.val # None => call.val = Text(call.op, call.on)
          /\ call.op = "interruption" /\ call.on \in told => call.val # None
    BY DEF AInv, Answering, At, Idle
  <2> QED BY <2>1, <2>2 DEF AnswersAreOwn
<1> QED BY <1>1, <1>2, <1>3, PTL DEF Spec

(* isRuleEngineOff() speaks of the transaction of its own handle, unless   *)
(* an earlier reset() has thrown.                                          *)
THEOREM OffIsAlwaysGenuine == ASSUME EnoughIds PROVE Spec => []OffIsGenuine
<1> DEFINE I == TInv /\ NInv /\ SInv
<1>1. Init => I
  BY InitTyped, InitNumbers, InitSlots
<1>2. I /\ [Next]_vars => I'
  BY StepTyped, StepNumbers, StepKeepsSlots
<1>3. I => OffIsGenuine
  <2> SUFFICES ASSUME TInv, SInv, At("finally", {"isRuleEngineOff"}), call.on \notin lost
               PROVE  Known /\ MyTx.of = call.on
    BY DEF OffIsGenuine
  <2>1. call.on \in Tx /\ Open(call.on)
    BY RunningIsTyped DEF At, CallTyped, HandleOps, Predicates
  <2> QED BY <2>1 DEF SInv, HandlesHaveSlots, Slot, Known, MyTx, MyId
<1> QED BY <1>1, <1>2, <1>3, PTL DEF Spec
=============================================================================
