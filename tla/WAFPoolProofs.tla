---------------------------- MODULE WAFPoolProofs ----------------------------
(***************************************************************************)
(* Theorems about WAFPool, for pools, traffic and faults of every size.    *)
(***************************************************************************)
EXTENDS WAFPool, Recursion, FiniteSetTheorems, TLAPS

(* #pickSlot finds a slot: some slot is the least busy.                    *)
LEMMA PickSlotInSlots ==
  ASSUME TypeOK
  PROVE  PickSlot \in InSlots
<1> DEFINE least == {i \in Slot : \A j \in Slot : busy[slots[i]] <= busy[slots[j]]}
           loads == {busy[slots[i]] : i \in Slot}
<1>1. loads \in SUBSET Nat /\ loads # {}
  BY SizeAssumption DEF TypeOK, Slot
<1>2. PICK n \in loads : \A m \in loads : n <= m
  BY <1>1, LeastNumber
<1>3. least # {}
  BY <1>2
<1>4. least \in SUBSET Nat
  BY DEF Slot
<1>5. \E i \in least : \A j \in least : i <= j
  BY <1>3, <1>4, LeastNumber
<1>6. (CHOOSE i \in least : \A j \in least : i <= j) \in Slot
  BY <1>5
<1>7. QED
  BY <1>6 DEF PickSlot, InSlots

-----------------------------------------------------------------------------
(* Facts about the parts of a step.                                        *)

LEMMA CallTypes ==
  ASSUME NEW t \in Tx, NEW kind \in OpKinds, NEW by \in {"rotation", "destroy"}
  PROVE  /\ Call("newTx", t) \in Calls /\ Call("close", t) \in Calls
         /\ Call(kind, t) \in Calls
         /\ Call("init", by) \in Calls /\ Call("shutdown", by) \in Calls
BY DEF Call, Calls, OpKinds

(* callSlot keeps the types of the pending maps and the queues.            *)
LEMMA PostTypes ==
  ASSUME TypeOK, NEW w, NEW c \in Calls, Post(w, c)
  PROVE  /\ pending' \in [Worker -> SUBSET Calls]
         /\ inbox' \in [Worker -> Seq(Calls)]
<1>1. CASE w \in Worker
  <2>1. Append(inbox[w], c) \in Seq(Calls)
    BY <1>1 DEF TypeOK
  <2>2. QED
    BY <1>1, <2>1 DEF TypeOK, Post
<1>2. CASE w \notin Worker
  BY <1>2 DEF TypeOK, Post
<1>3. QED
  BY <1>1, <1>2

LEMMA AnswersTypes ==
  ASSUME TypeOK, NEW w \in Worker, NEW c, NEW results, Answers(w, c, results)
  PROVE  outbox' \in [Worker -> Seq(Replies)]
BY DEF TypeOK, Answers

LEMMA SettleTypes ==
  ASSUME TypeOK, NEW w \in Worker, NEW c, Settle(w, c)
  PROVE  pending' \in [Worker -> SUBSET Calls]
BY DEF TypeOK, Settle

LEMMA ReplyTypes ==
  ASSUME TypeOK, NEW w \in Worker, NEW c \in Calls, NEW r \in Results,
         Reply(w, c, r)
  PROVE  /\ outbox' \in [Worker -> Seq(Replies)]
         /\ [inbox EXCEPT ![w] = Tail(@)] \in [Worker -> Seq(Calls)]
<1>1. [call |-> c, result |-> r] \in Replies
  BY DEF Replies
<1>2. inbox[w] \in Seq(Calls) /\ inbox[w] # <<>>
  BY DEF TypeOK, Reply
<1>3. outbox[w] \in Seq(Replies)
  BY DEF TypeOK
<1>4. QED
  BY <1>1, <1>2, <1>3 DEF TypeOK, Reply

LEMMA ReleasedType == \A n, k \in Nat : Released(n, k) \in Nat
BY DEF Released

LEMMA LostIsFinite ==
  ASSUME NEW w, NEW op
  PROVE  /\ IsFiniteSet({t \in Tx : Call(op, t) \in pending[w]})
         /\ Cardinality({t \in Tx : Call(op, t) \in pending[w]}) \in Nat
BY TxAssumption, FS_Subset, FS_CardinalityType

LEMMA RejectPendingTypes ==
  ASSUME TypeOK, NEW w \in Worker, NEW gone \in BOOLEAN, RejectPending(w, gone)
  PROVE  /\ pending' \in [Worker -> SUBSET Calls]
         /\ status' \in [Tx -> Statuses]
         /\ busy' \in [Worker -> Nat]
         /\ rotating' \in [Worker -> BOOLEAN]
         /\ stage' \in [Worker -> Stages]
         /\ draining' \subseteq Worker
         /\ stopping' \in [Worker -> {"no", "shutdown", "terminating", "done"}]
         /\ terminated' \subseteq Worker
<1>1. pending' \in [Worker -> SUBSET Calls]
  BY DEF TypeOK, RejectPending
<1>2. status' \in [Tx -> Statuses]
  BY DEF TypeOK, RejectPending, Statuses
<1>3. busy' \in [Worker -> Nat]
  <2>1. busy[w] \in Nat
    BY DEF TypeOK
  <2>2. Released(busy[w], Cardinality({t \in Tx : Call("close", t) \in pending[w]})) \in Nat
    BY <2>1, LostIsFinite, ReleasedType
  <2>3. QED
    BY <2>2 DEF TypeOK, RejectPending
<1>4. rotating' \in [Worker -> BOOLEAN]
  BY DEF TypeOK, RejectPending, Unlatched
<1>5. stage' \in [Worker -> Stages]
  BY DEF TypeOK, RejectPending, Stages
<1>6. draining' \subseteq Worker
  BY DEF TypeOK, RejectPending, Undrained
<1>7. stopping' \in [Worker -> {"no", "shutdown", "terminating", "done"}]
  BY DEF TypeOK, RejectPending
<1>8. terminated' \subseteq Worker
  BY DEF TypeOK, RejectPending
<1>9. QED
  BY <1>1, <1>2, <1>3, <1>4, <1>5, <1>6, <1>7, <1>8

-----------------------------------------------------------------------------
(* Every action leaves the state well typed, one lemma for each side.      *)
LEMMA ClientTypes ==
  ASSUME TypeOK, NEW t \in Tx, Client(t)
  PROVE  TypeOK'
<1>1. CASE NewTransaction(t)
  <2>1. PickSlot \in Worker
    BY PickSlotInSlots DEF TypeOK, InSlots
  <2>2. rr' \in 0 .. Size - 1
    BY <1>1, SizeAssumption DEF TypeOK, NewTransaction, NextTurn
  <2>3. /\ pending' \in [Worker -> SUBSET Calls]
        /\ inbox' \in [Worker -> Seq(Calls)]
    <3>1. Post(PickSlot, Call("newTx", t))
      BY <1>1 DEF NewTransaction
    <3>2. Call("newTx", t) \in Calls
      BY DEF Call, Calls
    <3>3. QED
      BY <3>1, <3>2, PostTypes
  <2>4. requests' \in [Worker -> Nat]
    BY <1>1, <2>1 DEF TypeOK, NewTransaction
  <2>5. home' \in [Tx -> 0 .. MaxWorkers] /\ status' \in [Tx -> Statuses]
    BY <1>1, <2>1 DEF TypeOK, NewTransaction, Statuses, Worker
  <2>6. QED
    BY <1>1, <2>2, <2>3, <2>4, <2>5 DEF TypeOK, NewTransaction
<1>2. CASE NewTransactionDestroyed(t)
  BY <1>2 DEF TypeOK, NewTransactionDestroyed, Statuses, poolVars, slotVars,
              threadVars
<1>3. CASE Close(t)
  <2>1. /\ pending' \in [Worker -> SUBSET Calls]
        /\ inbox' \in [Worker -> Seq(Calls)]
    <3>1. Call("close", t) \in Calls
      BY DEF Call, Calls
    <3>2. QED
      BY <1>3, <3>1, PostTypes DEF Close
  <2>2. QED
    BY <1>3, <2>1 DEF TypeOK, Close, Statuses, poolVars
<1>4. ASSUME NEW kind \in OpKinds, Operate(t, kind)
      PROVE  TypeOK'
  <2>1. /\ pending' \in [Worker -> SUBSET Calls]
        /\ inbox' \in [Worker -> Seq(Calls)]
    <3>1. Call(kind, t) \in Calls
      BY DEF Call, Calls, OpKinds
    <3>2. QED
      BY <1>4, <3>1, PostTypes DEF Operate
  <2>2. QED
    BY <1>4, <2>1 DEF TypeOK, Operate, poolVars, txVars
<1>5. QED
  BY <1>1, <1>2, <1>3, <1>4 DEF Client

LEMMA DestroyTypes ==
  ASSUME TypeOK, Destroy
  PROVE  TypeOK'
<1>1. Call("shutdown", "destroy") \in Calls
  BY DEF Call, Calls
<1>2. \A w \in Worker : Append(inbox[w], Call("shutdown", "destroy")) \in Seq(Calls)
  BY <1>1 DEF TypeOK
<1>3. inbox' \in [Worker -> Seq(Calls)]
  BY <1>2 DEF TypeOK, Destroy
<1>4. pending' \in [Worker -> SUBSET Calls]
  BY <1>1 DEF TypeOK, Destroy
<1>5. QED
  BY <1>3, <1>4 DEF TypeOK, Destroy, txVars

LEMMA MainTypes ==
  ASSUME TypeOK, NEW w \in Worker, Main(w)
  PROVE  TypeOK'
<1> USE DEF poolVars, slotVars, threadVars, txVars
<1>1. ASSUME NEW t \in Tx, Opened(w, t)
      PROVE  TypeOK'
  <2>1. /\ outbox' \in [Worker -> Seq(Replies)]
        /\ pending' \in [Worker -> SUBSET Calls]
    BY <1>1, AnswersTypes, SettleTypes DEF Opened
  <2>2. status' \in [Tx -> Statuses] /\ busy' \in [Worker -> Nat]
    BY <1>1 DEF TypeOK, Opened, Statuses
  <2>3. /\ rotating' \in [Worker -> BOOLEAN] /\ stage' \in [Worker -> Stages]
        /\ thread' \in [Worker -> Threads] /\ spawned' \in Size .. MaxWorkers
        /\ replaces' \in [Worker -> 0 .. MaxWorkers]
    <3>1. CASE RotationDue(w)
      <4>1. spawned' = spawned + 1 /\ spawned' \in Worker
        BY <1>1, <3>1 DEF Opened
      <4>2. spawned' \in Size .. MaxWorkers
        BY <4>1, SizeAssumption, WorkersAssumption DEF TypeOK, Worker
      <4>3. w \in 0 .. MaxWorkers
        BY DEF Worker
      <4>4. QED
        <5>1. /\ rotating' = [rotating EXCEPT ![w] = TRUE]
              /\ stage' = [stage EXCEPT ![spawned + 1] = "booting"]
              /\ thread' = [thread EXCEPT ![spawned + 1] = "starting"]
              /\ replaces' = [replaces EXCEPT ![spawned + 1] = w]
          BY <1>1, <3>1 DEF Opened
        <5>2. stage' \in [Worker -> Stages] /\ thread' \in [Worker -> Threads]
          BY <5>1 DEF TypeOK, Stages, Threads, Running
        <5>3. /\ rotating' \in [Worker -> BOOLEAN]
              /\ replaces' \in [Worker -> 0 .. MaxWorkers]
          BY <5>1, <4>3 DEF TypeOK
        <5>4. QED
          BY <4>2, <5>2, <5>3
    <3>2. CASE ~RotationDue(w)
      BY <1>1, <3>2 DEF TypeOK, Opened
    <3>3. QED
      BY <3>1, <3>2
  <2>4. QED
    BY <1>1, <2>1, <2>2, <2>3 DEF TypeOK, Opened
<1>2. ASSUME NEW t \in Tx, OpenFailed(w, t)
      PROVE  TypeOK'
  BY <1>2, AnswersTypes, SettleTypes DEF TypeOK, OpenFailed, Statuses
<1>3. ASSUME NEW t \in Tx, Closed(w, t)
      PROVE  TypeOK'
  <2>1. busy' \in [Worker -> Nat]
    BY <1>3, ReleasedType DEF TypeOK, Closed
  <2>2. QED
    BY <1>3, <2>1, AnswersTypes, SettleTypes DEF TypeOK, Closed, Statuses
<1>4. ASSUME NEW t \in Tx, NEW kind \in OpKinds, Operated(w, t, kind)
      PROVE  TypeOK'
  BY <1>4, AnswersTypes, SettleTypes DEF TypeOK, Operated
<1>5. CASE Dropped(w)
  BY <1>5 DEF TypeOK, Dropped
<1>6. CASE Online(w)
  <2>1. Call("init", "rotation") \in Calls
    BY DEF Call, Calls
  <2>2. QED
    BY <1>6, <2>1, PostTypes DEF TypeOK, Online, Stages, Threads, Running
<1>7. CASE Swapped(w)
  <2>1. slots' \in [Slot -> Worker]
    BY <1>7 DEF TypeOK, Swapped, Swap
  <2>2. replaces[w] \in Worker
    BY <1>7 DEF TypeOK, Swapped, Wanted, InSlots
  <2>3. QED
    BY <1>7, <2>1, <2>2, AnswersTypes, SettleTypes DEF TypeOK, Swapped, Stages
<1>8. CASE TooLate(w)
  <2>1. Call("shutdown", "rotation") \in Calls
    BY DEF Call, Calls
  <2>2. Append(inbox[w], Call("shutdown", "rotation")) \in Seq(Calls)
    BY <2>1 DEF TypeOK
  <2>3. inbox' \in [Worker -> Seq(Calls)]
    BY <1>8, <2>2 DEF TypeOK, TooLate
  <2>4. pending' \in [Worker -> SUBSET Calls]
    BY <1>8, <2>1 DEF TypeOK, TooLate
  <2>5. QED
    BY <1>8, <2>3, <2>4, AnswersTypes DEF TypeOK, TooLate, Stages
<1>9. CASE GiveUp(w)
  BY <1>9, AnswersTypes, SettleTypes DEF TypeOK, GiveUp, Unlatched, Stages
<1>10. CASE Drained(w)
  <2>1. Call("shutdown", "rotation") \in Calls
    BY DEF Call, Calls
  <2>2. QED
    BY <1>10, <2>1, PostTypes DEF TypeOK, Drained, Stages
<1>11. CASE ShutDown(w)
  BY <1>11, AnswersTypes, SettleTypes DEF TypeOK, ShutDown, Stages
<1>12. CASE DestroyShutDown(w)
  BY <1>12, AnswersTypes, SettleTypes DEF TypeOK, DestroyShutDown
<1>13. CASE ErrorEvent(w)
  BY <1>13, RejectPendingTypes DEF TypeOK, ErrorEvent, Threads
<1>14. CASE ExitEvent(w)
  BY <1>14, RejectPendingTypes DEF TypeOK, ExitEvent, Threads
<1>15. QED
  BY <1>1, <1>2, <1>3, <1>4, <1>5, <1>6, <1>7, <1>8, <1>9, <1>10, <1>11,
     <1>12, <1>13, <1>14 DEF Main

LEMMA ThreadTypes ==
  ASSUME TypeOK, NEW w \in Worker, Thread(w) \/ Crash(w)
  PROVE  TypeOK'
<1> USE DEF poolVars, slotVars, threadVars, txVars
<1>1. CASE HandleInit(w)
  <2>1. Call("init", "rotation") \in Calls /\ {"ok", "error"} \subseteq Results
    BY DEF Call, Calls, Results
  <2>2. /\ outbox' \in [Worker -> Seq(Replies)]
        /\ inbox' \in [Worker -> Seq(Calls)]
    BY <1>1, <2>1, ReplyTypes DEF HandleInit, Take
  <2>3. QED
    BY <1>1, <2>2 DEF TypeOK, HandleInit, Threads, Running
<1>2. ASSUME NEW t \in Tx, HandleNewTx(w, t)
      PROVE  TypeOK'
  <2>1. Call("newTx", t) \in Calls /\ {"ok", "error"} \subseteq Results
    BY DEF Call, Calls, Results
  <2>2. /\ outbox' \in [Worker -> Seq(Replies)]
        /\ inbox' \in [Worker -> Seq(Calls)]
    BY <1>2, <2>1, ReplyTypes DEF HandleNewTx, Take
  <2>3. txs' \in [Worker -> SUBSET Tx]
    <3>1. [txs EXCEPT ![w] = @ \cup {t}] \in [Worker -> SUBSET Tx]
      BY DEF TypeOK
    <3>2. txs' = [txs EXCEPT ![w] = @ \cup {t}] \/ txs' = txs
      BY <1>2 DEF HandleNewTx
    <3>3. QED
      BY <3>1, <3>2 DEF TypeOK
  <2>4. QED
    BY <1>2, <2>2, <2>3 DEF TypeOK, HandleNewTx
<1>3. ASSUME NEW t \in Tx, HandleClose(w, t)
      PROVE  TypeOK'
  <2>1. Call("close", t) \in Calls /\ {"ok", "error"} \subseteq Results
    BY DEF Call, Calls, Results
  <2>2. /\ outbox' \in [Worker -> Seq(Replies)]
        /\ inbox' \in [Worker -> Seq(Calls)]
    BY <1>3, <2>1, ReplyTypes DEF HandleClose, Take
  <2>3. txs' \in [Worker -> SUBSET Tx]
    BY <1>3 DEF TypeOK, HandleClose, Forgotten
  <2>4. QED
    BY <1>3, <2>2, <2>3 DEF TypeOK, HandleClose
<1>4. ASSUME NEW t \in Tx, NEW kind \in OpKinds, HandleOp(w, t, kind)
      PROVE  TypeOK'
  <2>1. Call(kind, t) \in Calls /\ {"ok", "unknown tx"} \subseteq Results
    BY DEF Call, Calls, Results, OpKinds
  <2>2. /\ outbox' \in [Worker -> Seq(Replies)]
        /\ inbox' \in [Worker -> Seq(Calls)]
    BY <1>4, <2>1, ReplyTypes DEF HandleOp, Take
  <2>3. QED
    BY <1>4, <2>2 DEF TypeOK, HandleOp
<1>5. ASSUME NEW by \in {"rotation", "destroy"}, HandleShutdown(w, by)
      PROVE  TypeOK'
  <2>1. Call("shutdown", by) \in Calls /\ {"ok", "error"} \subseteq Results
    BY DEF Call, Calls, Results
  <2>2. outbox' \in [Worker -> Seq(Replies)]
    BY <1>5, <2>1, ReplyTypes DEF HandleShutdown
  <2>3. inbox' \in [Worker -> Seq(Calls)]
    <3>1. CASE inbox' = [inbox EXCEPT ![w] = <<>>]
      BY <3>1 DEF TypeOK
    <3>2. CASE Reply(w, Call("shutdown", by), "error") /\ Take(w)
      BY <2>1, <3>2, ReplyTypes DEF Take
    <3>3. QED
      BY <1>5, <3>1, <3>2 DEF HandleShutdown
  <2>4. QED
    BY <1>5, <2>2, <2>3 DEF TypeOK, HandleShutdown, Threads
<1>6. ASSUME NEW to \in {"dead", "failed"}, ThreadEnds(w, to)
      PROVE  TypeOK'
  BY <1>6 DEF TypeOK, ThreadEnds, Threads
<1>7. QED
  BY <1>1, <1>2, <1>3, <1>4, <1>5, <1>6 DEF Thread, Exit, Crash

(* Every reachable state of every pool is well typed.                      *)
THEOREM TypeCorrect == Spec => []TypeOK
<1>1. Init => TypeOK
  <2> SUFFICES ASSUME Init PROVE TypeOK
    OBVIOUS
  <2>1. Cardinality(Tx) \in Nat
    BY TxAssumption, FS_CardinalityType
  <2>2. Size \in Size .. MaxWorkers /\ Slot \subseteq Worker
    BY <2>1, SizeAssumption, WorkersAssumption DEF Slot, Worker
  <2>3. 0 \in 0 .. MaxWorkers /\ 0 \in 0 .. Size - 1
    BY SizeAssumption, WorkersAssumption
  <2>4. /\ slots \in [Slot -> Worker] /\ rr \in 0 .. Size - 1
        /\ destroyed \in BOOLEAN /\ draining \subseteq Worker
        /\ spawned \in Size .. MaxWorkers
        /\ replaces \in [Worker -> 0 .. MaxWorkers]
        /\ home \in [Tx -> 0 .. MaxWorkers]
    BY <2>2, <2>3 DEF Init
  <2>5. QED
    BY <2>4 DEF Init, TypeOK, Stages, Threads, Running, Statuses
<1>2. TypeOK /\ [Next]_vars => TypeOK'
  <2> SUFFICES ASSUME TypeOK, [Next]_vars PROVE TypeOK'
    OBVIOUS
  <2>1. CASE Next
    BY <2>1, ClientTypes, DestroyTypes, MainTypes, ThreadTypes DEF Next
  <2>2. CASE UNCHANGED vars
    BY <2>2 DEF TypeOK, vars, poolVars, slotVars, threadVars, txVars
  <2>3. QED
    BY <2>1, <2>2
<1>3. QED
  BY <1>1, <1>2, PTL DEF Spec

-----------------------------------------------------------------------------
(***************************************************************************)
(* Rotation drops nothing.  That a drained worker has no handle follows    *)
(* from two counts kept by different functions: busy, which must be the    *)
(* number of handles in use, and the pending map, which must hold a newTx  *)
(* for every handle not given out yet.  Neither count can grow once the    *)
(* worker has left the slots, for newTransaction() picks active workers    *)
(* only.                                                                   *)
(***************************************************************************)

(* A pending newTx or close belongs to a handle in the matching state on   *)
(* this worker, and a handle being opened has its newTx pending.           *)
CallsMatchHandles ==
  /\ \A t \in Tx : status[t] \in {"opening", "open", "closing"} => home[t] \in Worker
  /\ \A t \in Tx : status[t] = "opening" => Call("newTx", t) \in pending[home[t]]
  /\ \A w \in Worker, t \in Tx :
       /\ Call("newTx", t) \in pending[w] => status[t] = "opening" /\ home[t] = w
       /\ Call("close", t) \in pending[w] => status[t] = "closing" /\ home[t] = w

(* The slots hold active workers, and a call a rotation waits for is       *)
(* pending only in the stage that waits for it.                            *)
StagesMatchCalls ==
  /\ \A w \in InSlots : stage[w] = "active"
  /\ \A w \in Worker : w > spawned => stage[w] = "unspawned"
  /\ \A w \in Worker :
       /\ Call("init", "rotation") \in pending[w] => stage[w] = "initing"
       /\ Call("shutdown", "rotation") \in pending[w]
            => stage[w] \in {"shutdown", "discarding"}

IInv == /\ TypeOK
        /\ CallsMatchHandles
        /\ StagesMatchCalls
        /\ BusyCountsHandles
        /\ RotationDropsNothing

LEMMA CallsDiffer ==
  \A op1, op2, x, y : Call(op1, x) = Call(op2, y) <=> op1 = op2 /\ x = y
BY DEF Call

LEMMA HeldIsFinite ==
  ASSUME NEW w
  PROVE  IsFiniteSet(Held(w)) /\ Cardinality(Held(w)) \in Nat
BY TxAssumption, FS_Subset, FS_CardinalityType DEF Held

(* What the invariant speaks of.                                           *)
ivars == <<slots, spawned, busy, pending, stage, status, home>>

LEMMA UnchangedKeepsIInv ==
  ASSUME IInv, TypeOK', UNCHANGED ivars
  PROVE  IInv'
BY DEF IInv, CallsMatchHandles, StagesMatchCalls, BusyCountsHandles, Held,
       RotationDropsNothing, InSlots, ivars

LEMMA NewTransactionKeepsIInv ==
  ASSUME IInv, TypeOK', NEW t \in Tx, NewTransaction(t)
  PROVE  IInv'
<1> DEFINE w == PickSlot
<1>1. w \in InSlots /\ w \in Worker /\ stage[w] = "active"
  <2>1. w \in InSlots
    BY PickSlotInSlots DEF IInv
  <2>2. InSlots \subseteq Worker
    BY DEF IInv, TypeOK, InSlots
  <2>3. QED
    BY <2>1, <2>2 DEF IInv, StagesMatchCalls
<1>2. /\ status[t] = "idle" /\ status' = [status EXCEPT ![t] = "opening"]
      /\ home' = [home EXCEPT ![t] = w]
      /\ pending' = [pending EXCEPT ![w] = @ \cup {Call("newTx", t)}]
      /\ UNCHANGED <<slots, spawned, busy, stage>>
  BY DEF NewTransaction, Post
<1> HIDE DEF w
<1>3. /\ status'[t] = "opening" /\ home'[t] = w
      /\ \A u \in Tx \ {t} : status'[u] = status[u] /\ home'[u] = home[u]
  BY <1>2 DEF IInv, TypeOK
<1>4. \A v \in Worker : pending'[v] = IF v = w THEN pending[v] \cup {Call("newTx", t)}
                                               ELSE pending[v]
  BY <1>1, <1>2 DEF IInv, TypeOK
<1>5. CallsMatchHandles'
  BY <1>1, <1>2, <1>3, <1>4, CallsDiffer DEF IInv, CallsMatchHandles
<1>6. StagesMatchCalls'
  BY <1>1, <1>2, <1>4, CallsDiffer DEF IInv, StagesMatchCalls, InSlots
<1>7. BusyCountsHandles'
  <2>1. \A v \in Worker : Held(v)' = Held(v)
    BY <1>2, <1>3 DEF Held
  <2>2. QED
    BY <1>2, <2>1 DEF IInv, BusyCountsHandles
<1>8. RotationDropsNothing'
  BY <1>1, <1>2, <1>3 DEF IInv, RotationDropsNothing
<1>9. QED
  BY <1>5, <1>6, <1>7, <1>8 DEF IInv

LEMMA OtherClientKeepsIInv ==
  ASSUME IInv, TypeOK', NEW t \in Tx,
         \/ NewTransactionDestroyed(t) \/ Close(t)
         \/ \E kind \in OpKinds : Operate(t, kind)
  PROVE  IInv'
<1>1. CASE NewTransactionDestroyed(t)
  <2>1. /\ status[t] = "idle" /\ status' = [status EXCEPT ![t] = "failed"]
        /\ UNCHANGED <<slots, spawned, busy, pending, stage, home>>
    BY <1>1 DEF NewTransactionDestroyed, poolVars, slotVars
  <2>2. \A u \in Tx : status'[u] = IF u = t THEN "failed" ELSE status[u]
    BY <2>1 DEF IInv, TypeOK
  <2>3. \A v \in Worker : Held(v)' = Held(v)
    BY <2>1, <2>2 DEF Held
  <2>4. BusyCountsHandles'
    BY <2>1, <2>3 DEF IInv, BusyCountsHandles
  <2>5. QED
    BY <2>1, <2>2, <2>4 DEF IInv, CallsMatchHandles, StagesMatchCalls,
                            RotationDropsNothing, InSlots
<1>2. CASE Close(t)
  <2>1. /\ status[t] = "open" /\ status' = [status EXCEPT ![t] = "closing"]
        /\ pending' = [pending EXCEPT ![home[t]] = @ \cup {Call("close", t)}]
        /\ UNCHANGED <<slots, spawned, busy, stage, home>>
    BY <1>2 DEF Close, Post, poolVars
  <2>2. \A u \in Tx : status'[u] = IF u = t THEN "closing" ELSE status[u]
    BY <2>1 DEF IInv, TypeOK
  <2>3. home[t] \in Worker
    BY <2>1 DEF IInv, CallsMatchHandles
  <2>4. \A v \in Worker : pending'[v] = IF v = home[t]
                                        THEN pending[v] \cup {Call("close", t)}
                                        ELSE pending[v]
    BY <2>1, <2>3 DEF IInv, TypeOK
  <2>5. CallsMatchHandles'
    BY <2>1, <2>2, <2>3, <2>4, CallsDiffer DEF IInv, CallsMatchHandles
  <2>6. StagesMatchCalls'
    BY <2>1, <2>4, CallsDiffer DEF IInv, StagesMatchCalls, InSlots
  <2>7. BusyCountsHandles'
    <3>1. \A v \in Worker : Held(v)' = Held(v)
      BY <2>1, <2>2 DEF Held
    <3>2. QED
      BY <2>1, <3>1 DEF IInv, BusyCountsHandles
  <2>8. RotationDropsNothing'
    BY <2>1, <2>2 DEF IInv, RotationDropsNothing
  <2>9. QED
    BY <2>5, <2>6, <2>7, <2>8 DEF IInv
<1>3. ASSUME NEW kind \in OpKinds, Operate(t, kind)
      PROVE  IInv'
  <2>1. /\ pending' = [pending EXCEPT ![home[t]] = @ \cup {Call(kind, t)}]
        /\ UNCHANGED <<slots, spawned, busy, stage, status, home>>
    BY <1>3 DEF Operate, Post, poolVars, txVars
  <2>2. kind \notin {"newTx", "close", "init", "shutdown"}
    BY DEF OpKinds
  <2>3. \A v \in Worker : pending[v] \subseteq pending'[v]
                          /\ pending'[v] \subseteq pending[v] \cup {Call(kind, t)}
    BY <2>1 DEF IInv, TypeOK
  <2>4. CallsMatchHandles'
    BY <2>1, <2>2, <2>3, CallsDiffer DEF IInv, CallsMatchHandles
  <2>5. StagesMatchCalls'
    BY <2>1, <2>2, <2>3, CallsDiffer DEF IInv, StagesMatchCalls, InSlots
  <2>6. QED
    BY <2>1, <2>4, <2>5 DEF IInv, BusyCountsHandles, Held, RotationDropsNothing
<1>4. QED
  BY <1>1, <1>2, <1>3

LEMMA DestroyKeepsIInv ==
  ASSUME IInv, TypeOK', Destroy
  PROVE  IInv'
<1>1. UNCHANGED <<slots, spawned, busy, stage, status, home>>
  BY DEF Destroy, txVars
<1>2. \A v \in Worker :
        /\ pending[v] \subseteq pending'[v]
        /\ pending'[v] \subseteq pending[v] \cup {Call("shutdown", "destroy")}
  BY DEF Destroy
<1>3. CallsMatchHandles'
  BY <1>1, <1>2, CallsDiffer DEF IInv, CallsMatchHandles
<1>4. StagesMatchCalls'
  BY <1>1, <1>2, CallsDiffer DEF IInv, StagesMatchCalls, InSlots
<1>5. QED
  BY <1>1, <1>3, <1>4 DEF IInv, BusyCountsHandles, Held, RotationDropsNothing

(* Settling the call c of w.                                               *)
LEMMA Settled ==
  ASSUME TypeOK, NEW w \in Worker, NEW c, Settle(w, c)
  PROVE  /\ \A v \in Worker : pending'[v] = IF v = w THEN pending[v] \ {c}
                                                     ELSE pending[v]
BY DEF Settle, TypeOK

(* ... which ends the life of a handle in one of two ways.                 *)
LEMMA SettledMatches ==
  ASSUME IInv, NEW w \in Worker, NEW t \in Tx, NEW op \in {"newTx", "close"},
         Call(op, t) \in pending[w], Settle(w, Call(op, t)),
         NEW s \in {"open", "failed", "closed"},
         s = "open" => op = "newTx",
         status' = [status EXCEPT ![t] = s], home' = home
  PROVE  CallsMatchHandles'
<1>1. TypeOK /\ CallsMatchHandles
  BY DEF IInv
<1>2. \A v \in Worker : pending'[v] = IF v = w THEN pending[v] \ {Call(op, t)}
                                               ELSE pending[v]
  BY <1>1, Settled
<1>3. \A u \in Tx : status'[u] = IF u = t THEN s ELSE status[u]
  BY <1>1 DEF TypeOK
<1>4. home[t] = w /\ w \in Worker /\ (op = "newTx" => status[t] = "opening")
      /\ (op = "close" => status[t] = "closing")
  BY <1>1 DEF CallsMatchHandles
<1>5. ASSUME NEW u \in Tx, status'[u] \in {"opening", "open", "closing"}
      PROVE  home'[u] \in Worker
  BY <1>1, <1>3, <1>4, <1>5 DEF CallsMatchHandles
<1>6. ASSUME NEW u \in Tx, status'[u] = "opening"
      PROVE  Call("newTx", u) \in pending'[home'[u]]
  <2>1. u # t /\ status[u] = "opening"
    BY <1>3, <1>6
  <2>2. Call("newTx", u) \in pending[home[u]] /\ home[u] \in Worker
    BY <1>1, <2>1 DEF CallsMatchHandles
  <2>3. Call("newTx", u) # Call(op, t)
    BY <2>1, CallsDiffer
  <2>4. QED
    BY <1>2, <2>2, <2>3
<1>7. ASSUME NEW v \in Worker, NEW u \in Tx, NEW o \in {"newTx", "close"},
             Call(o, u) \in pending'[v]
      PROVE  /\ home'[u] = v
             /\ o = "newTx" => status'[u] = "opening"
             /\ o = "close" => status'[u] = "closing"
  <2>1. Call(o, u) \in pending[v] /\ (v = w => Call(o, u) # Call(op, t))
    BY <1>2, <1>7
  <2>2. /\ home[u] = v
        /\ o = "newTx" => status[u] = "opening"
        /\ o = "close" => status[u] = "closing"
    BY <1>1, <2>1 DEF CallsMatchHandles
  <2>3. u # t
    <3>1. SUFFICES ASSUME u = t PROVE FALSE
      OBVIOUS
    <3>2. v = w /\ o = op
      BY <1>4, <2>2, <3>1
    <3>3. QED
      BY <2>1, <3>1, <3>2
  <2>4. QED
    BY <1>3, <2>2, <2>3
<1>8. QED
  BY <1>5, <1>6, <1>7 DEF CallsMatchHandles

LEMMA OpenedKeepsIInv ==
  ASSUME IInv, TypeOK', NEW w \in Worker, NEW t \in Tx, Opened(w, t)
  PROVE  IInv'
<1>1. /\ Call("newTx", t) \in pending[w] /\ Settle(w, Call("newTx", t))
      /\ status' = [status EXCEPT ![t] = "open"]
      /\ busy' = [busy EXCEPT ![w] = @ + 1]
      /\ UNCHANGED <<slots, home>>
  BY DEF Opened, Answers
<1>2. TypeOK
  BY DEF IInv
<1>3. status[t] = "opening" /\ home[t] = w
  BY <1>1 DEF IInv, CallsMatchHandles
<1>4. \A u \in Tx : status'[u] = IF u = t THEN "open" ELSE status[u]
  BY <1>1, <1>2 DEF TypeOK
<1>5. \A v \in Worker : pending'[v] = IF v = w THEN pending[v] \ {Call("newTx", t)}
                                               ELSE pending[v]
  BY <1>1, <1>2, Settled
<1>6. /\ spawned \in Nat /\ spawned' \in Nat /\ spawned <= spawned'
      /\ \A v \in Worker : \/ stage'[v] = stage[v]
                           \/ /\ v = spawned + 1 /\ v = spawned'
                              /\ stage'[v] = "booting"
  <2>1. spawned \in Nat
    BY <1>2, SizeAssumption, WorkersAssumption DEF TypeOK
  <2>2. CASE RotationDue(w)
    BY <1>2, <2>1, <2>2 DEF Opened, TypeOK
  <2>3. CASE ~RotationDue(w)
    BY <2>1, <2>3 DEF Opened
  <2>4. QED
    BY <2>2, <2>3
<1>7. \A v \in Worker : v > spawned => stage[v] = "unspawned"
  BY DEF IInv, StagesMatchCalls
<1>8. \A v \in Worker : stage[v] # "unspawned" => stage'[v] = stage[v]
  <2> SUFFICES ASSUME NEW v \in Worker, stage[v] # "unspawned"
               PROVE  stage'[v] = stage[v]
    OBVIOUS
  <2>1. v # spawned + 1
    BY <1>6, <1>7 DEF Worker
  <2>2. QED
    BY <1>6, <2>1
<1>9. CallsMatchHandles'
  BY <1>1, SettledMatches
<1>10. StagesMatchCalls'
  <2>1. InSlots \subseteq Worker /\ InSlots' = InSlots
    BY <1>1, <1>2 DEF TypeOK, InSlots
  <2>2. \A v \in InSlots' : stage'[v] = "active"
    BY <1>8, <2>1 DEF IInv, StagesMatchCalls
  <2>3. \A v \in Worker : v > spawned' => stage'[v] = "unspawned"
    BY <1>6, <1>7 DEF Worker
  <2>4. \A v \in Worker :
          /\ Call("init", "rotation") \in pending'[v] => stage'[v] = "initing"
          /\ Call("shutdown", "rotation") \in pending'[v]
               => stage'[v] \in {"shutdown", "discarding"}
    BY <1>5, <1>8 DEF IInv, StagesMatchCalls
  <2>5. QED
    BY <2>2, <2>3, <2>4 DEF StagesMatchCalls
<1>11. BusyCountsHandles'
  <2>1. Held(w)' = Held(w) \cup {t} /\ t \notin Held(w)
    BY <1>1, <1>3, <1>4 DEF Held
  <2>2. \A v \in Worker \ {w} : Held(v)' = Held(v)
    BY <1>1, <1>3, <1>4 DEF Held
  <2>3. Cardinality(Held(w)') = Cardinality(Held(w)) + 1
    BY <2>1, HeldIsFinite, FS_AddElement
  <2>4. \A v \in Worker : busy'[v] = IF v = w THEN busy[v] + 1 ELSE busy[v]
    BY <1>1, <1>2 DEF TypeOK
  <2>5. QED
    BY <2>2, <2>3, <2>4 DEF IInv, BusyCountsHandles
<1>12. RotationDropsNothing'
  <2> SUFFICES ASSUME NEW u \in Tx, status'[u] \in {"opening", "open", "closing"}
               PROVE  stage'[home'[u]] \notin {"shutdown", "terminating", "retired"}
    BY DEF RotationDropsNothing
  <2>1. status[u] \in {"opening", "open", "closing"} /\ home'[u] = home[u]
    BY <1>1, <1>3, <1>4
  <2>2. stage[home[u]] \notin {"shutdown", "terminating", "retired"}
        /\ home[u] \in Worker
    BY <2>1 DEF IInv, RotationDropsNothing, CallsMatchHandles
  <2>3. stage'[home[u]] = stage[home[u]] \/ stage'[home[u]] = "booting"
    BY <1>6, <2>2
  <2>4. QED
    BY <2>1, <2>2, <2>3
<1>13. QED
  BY <1>9, <1>10, <1>11, <1>12 DEF IInv

(* A newTransaction() that fails, and a call of another method that ends.  *)
LEMMA CallEndsKeepsIInv ==
  ASSUME IInv, TypeOK', NEW w \in Worker, NEW t \in Tx,
         OpenFailed(w, t) \/ \E kind \in OpKinds : Operated(w, t, kind)
  PROVE  IInv'
<1>1. TypeOK
  BY DEF IInv
<1>2. CASE OpenFailed(w, t)
  <2>1. /\ Call("newTx", t) \in pending[w] /\ Settle(w, Call("newTx", t))
        /\ status' = [status EXCEPT ![t] = "failed"]
        /\ UNCHANGED <<slots, spawned, busy, stage, home>>
    BY <1>2 DEF OpenFailed, Answers, poolVars
  <2>2. status[t] = "opening" /\ home[t] = w
    BY <2>1 DEF IInv, CallsMatchHandles
  <2>3. \A u \in Tx : status'[u] = IF u = t THEN "failed" ELSE status[u]
    BY <1>1, <2>1 DEF TypeOK
  <2>4. \A v \in Worker : pending'[v] = IF v = w THEN pending[v] \ {Call("newTx", t)}
                                                 ELSE pending[v]
    BY <1>1, <2>1, Settled
  <2>5. CallsMatchHandles'
    BY <2>1, SettledMatches
  <2>6. StagesMatchCalls'
    BY <2>1, <2>4 DEF IInv, StagesMatchCalls, InSlots
  <2>7. \A v \in Worker : Held(v)' = Held(v)
    BY <2>1, <2>2, <2>3 DEF Held
  <2>8. BusyCountsHandles' /\ RotationDropsNothing'
    BY <2>1, <2>3, <2>7 DEF IInv, BusyCountsHandles, RotationDropsNothing
  <2>9. QED
    BY <2>5, <2>6, <2>8 DEF IInv
<1>3. ASSUME NEW kind \in OpKinds, Operated(w, t, kind)
      PROVE  IInv'
  <2>1. /\ Settle(w, Call(kind, t))
        /\ UNCHANGED <<slots, spawned, busy, stage, status, home>>
    BY <1>3 DEF Operated, poolVars, txVars
  <2>2. \A v \in Worker : pending'[v] = IF v = w THEN pending[v] \ {Call(kind, t)}
                                                 ELSE pending[v]
    BY <1>1, <2>1, Settled
  <2>3. \A u \in Tx : Call("newTx", u) # Call(kind, t)
    BY CallsDiffer DEF OpKinds
  <2>4. CallsMatchHandles'
    <3>1. \A u \in Tx : status'[u] = status[u] /\ home'[u] = home[u]
      BY <2>1
    <3>2. \A v \in Worker : pending'[v] \subseteq pending[v]
      BY <2>2
    <3>3. \A v \in Worker, u \in Tx :
            Call("newTx", u) \in pending[v] => Call("newTx", u) \in pending'[v]
      BY <2>2, <2>3
    <3>4. QED
      BY <3>1, <3>2, <3>3 DEF IInv, CallsMatchHandles
  <2>5. StagesMatchCalls'
    BY <2>1, <2>2 DEF IInv, StagesMatchCalls, InSlots
  <2>6. QED
    BY <2>1, <2>4, <2>5 DEF IInv, BusyCountsHandles, Held, RotationDropsNothing
<1>4. QED
  BY <1>2, <1>3

LEMMA ClosedKeepsIInv ==
  ASSUME IInv, TypeOK', NEW w \in Worker, NEW t \in Tx, Closed(w, t)
  PROVE  IInv'
<1>1. TypeOK
  BY DEF IInv
<1>2. /\ Call("close", t) \in pending[w] /\ Settle(w, Call("close", t))
      /\ status' = [status EXCEPT ![t] = "closed"]
      /\ busy' = [busy EXCEPT ![w] = Released(@, 1)]
      /\ UNCHANGED <<slots, spawned, stage, home>>
  BY DEF Closed, Answers, poolVars
<1>3. status[t] = "closing" /\ home[t] = w
  BY <1>2 DEF IInv, CallsMatchHandles
<1>4. \A u \in Tx : status'[u] = IF u = t THEN "closed" ELSE status[u]
  BY <1>1, <1>2 DEF TypeOK
<1>5. \A v \in Worker : pending'[v] = IF v = w THEN pending[v] \ {Call("close", t)}
                                               ELSE pending[v]
  BY <1>1, <1>2, Settled
<1>6. CallsMatchHandles'
  BY <1>2, SettledMatches
<1>7. StagesMatchCalls'
  BY <1>2, <1>5 DEF IInv, StagesMatchCalls, InSlots
<1>8. BusyCountsHandles'
  <2>1. Held(w)' = Held(w) \ {t} /\ t \in Held(w)
    BY <1>2, <1>3, <1>4 DEF Held
  <2>2. \A v \in Worker \ {w} : Held(v)' = Held(v)
    BY <1>2, <1>3, <1>4 DEF Held
  <2>3. Cardinality(Held(w)') = Cardinality(Held(w)) - 1
    BY <2>1, HeldIsFinite, FS_RemoveElement
  <2>4. Cardinality(Held(w)) # 0 /\ Cardinality(Held(w)) \in Nat
    BY <2>1, HeldIsFinite, FS_EmptySet
  <2>5. busy[w] = Cardinality(Held(w))
    BY DEF IInv, BusyCountsHandles
  <2>6. Released(busy[w], 1) = busy[w] - 1
    BY <2>4, <2>5 DEF Released
  <2>7. \A v \in Worker : busy'[v] = IF v = w THEN busy[v] - 1 ELSE busy[v]
    BY <1>1, <1>2, <2>6 DEF TypeOK
  <2>8. QED
    BY <2>2, <2>3, <2>5, <2>7 DEF IInv, BusyCountsHandles
<1>9. RotationDropsNothing'
  BY <1>2, <1>4 DEF IInv, RotationDropsNothing
<1>10. QED
  BY <1>6, <1>7, <1>8, <1>9 DEF IInv

-----------------------------------------------------------------------------
(* The steps of a rotation: they move one slot to another stage, and touch *)
(* no call of a handle.                                                    *)
LEMMA HandlesUntouched ==
  ASSUME IInv, UNCHANGED <<busy, status, home>>,
         \A v \in Worker, u \in Tx, op \in {"newTx", "close"} :
           Call(op, u) \in pending'[v] <=> Call(op, u) \in pending[v]
  PROVE  CallsMatchHandles' /\ BusyCountsHandles'
<1>1. \A u \in Tx : status'[u] = status[u] /\ home'[u] = home[u]
  OBVIOUS
<1>2. CallsMatchHandles'
  BY <1>1 DEF IInv, CallsMatchHandles
<1>3. BusyCountsHandles'
  BY DEF IInv, BusyCountsHandles, Held
<1>4. QED
  BY <1>2, <1>3

LEMMA StageStepKeepsIInv ==
  ASSUME IInv, TypeOK', NEW w \in Worker, NEW s,
         stage' = [stage EXCEPT ![w] = s],
         UNCHANGED <<slots, spawned, busy, status, home>>,
         stage[w] \in {"unspawned", "active"} => s = stage[w],
         \A v \in Worker, u \in Tx, op \in {"newTx", "close"} :
           Call(op, u) \in pending'[v] <=> Call(op, u) \in pending[v],
         \A v \in Worker \ {w} : pending'[v] = pending[v],
         Call("init", "rotation") \in pending'[w] => s = "initing",
         Call("shutdown", "rotation") \in pending'[w]
           => s \in {"shutdown", "discarding"},
         s \in {"shutdown", "terminating", "retired"} =>
           \A u \in Tx : home[u] = w =>
             status[u] \notin {"opening", "open", "closing"}
  PROVE  IInv'
<1>1. TypeOK
  BY DEF IInv
<1>2. \A v \in Worker : stage'[v] = IF v = w THEN s ELSE stage[v]
  BY <1>1 DEF TypeOK
<1>3. CallsMatchHandles' /\ BusyCountsHandles'
  BY HandlesUntouched
<1>4. StagesMatchCalls'
  <2>1. InSlots' = InSlots /\ InSlots \subseteq Worker
    BY <1>1 DEF InSlots, TypeOK
  <2>2. \A v \in InSlots' : stage'[v] = "active"
    BY <1>2, <2>1 DEF IInv, StagesMatchCalls
  <2>3. \A v \in Worker : v > spawned' => stage'[v] = "unspawned"
    BY <1>2 DEF IInv, StagesMatchCalls
  <2>4. \A v \in Worker :
          /\ Call("init", "rotation") \in pending'[v] => stage'[v] = "initing"
          /\ Call("shutdown", "rotation") \in pending'[v]
               => stage'[v] \in {"shutdown", "discarding"}
    BY <1>2 DEF IInv, StagesMatchCalls
  <2>5. QED
    BY <2>2, <2>3, <2>4 DEF StagesMatchCalls
<1>5. RotationDropsNothing'
  <2> SUFFICES ASSUME NEW u \in Tx, status[u] \in {"opening", "open", "closing"}
               PROVE  stage'[home[u]] \notin {"shutdown", "terminating", "retired"}
    BY DEF RotationDropsNothing
  <2>1. home[u] \in Worker
        /\ stage[home[u]] \notin {"shutdown", "terminating", "retired"}
    BY DEF IInv, CallsMatchHandles, RotationDropsNothing
  <2>2. QED
    BY <1>2, <2>1
<1>6. QED
  BY <1>3, <1>4, <1>5 DEF IInv

LEMMA ReplacementKeepsIInv ==
  ASSUME IInv, TypeOK', NEW w \in Worker,
         Online(w) \/ TooLate(w) \/ GiveUp(w)
  PROVE  IInv'
<1>1. TypeOK
  BY DEF IInv
<1> DEFINE init == Call("init", "rotation")
           shut == Call("shutdown", "rotation")
<1>2. /\ init # shut
      /\ \A u \in Tx, op \in {"newTx", "close"} :
           Call(op, u) # init /\ Call(op, u) # shut
  BY CallsDiffer
<1>3. /\ init \in pending[w] => stage[w] = "initing"
      /\ shut \in pending[w] => stage[w] \in {"shutdown", "discarding"}
  BY DEF IInv, StagesMatchCalls
<1> HIDE DEF init, shut
<1>4. CASE Online(w)
  <2>1. /\ stage[w] = "booting" /\ stage' = [stage EXCEPT ![w] = "initing"]
        /\ pending' = [pending EXCEPT ![w] = @ \cup {init}]
        /\ UNCHANGED <<slots, spawned, busy, status, home>>
    BY <1>4 DEF Online, Post, poolVars, txVars, init
  <2>2. \A v \in Worker : pending'[v] = IF v = w THEN pending[v] \cup {init}
                                                ELSE pending[v]
    BY <1>1, <2>1 DEF TypeOK
  <2>3. shut \notin pending'[w]
    BY <1>2, <1>3, <2>1, <2>2
  <2>4. /\ \A v \in Worker, u \in Tx, op \in {"newTx", "close"} :
             Call(op, u) \in pending'[v] <=> Call(op, u) \in pending[v]
        /\ \A v \in Worker \ {w} : pending'[v] = pending[v]
    BY <1>2, <2>2
  <2>5. QED
    BY <2>1, <2>3, <2>4, StageStepKeepsIInv DEF init, shut
<1>5. CASE TooLate(w)
  <2>1. /\ init \in pending[w] /\ stage' = [stage EXCEPT ![w] = "discarding"]
        /\ pending' = [pending EXCEPT ![w] = (@ \ {init}) \cup {shut}]
        /\ UNCHANGED <<slots, spawned, busy, status, home>>
    BY <1>5 DEF TooLate, Answers, poolVars, txVars, init, shut
  <2>2. \A v \in Worker :
          pending'[v] = IF v = w THEN (pending[v] \ {init}) \cup {shut}
                                 ELSE pending[v]
    BY <1>1, <2>1 DEF TypeOK
  <2>3. init \notin pending'[w]
    BY <1>2, <2>2
  <2>4. /\ \A v \in Worker, u \in Tx, op \in {"newTx", "close"} :
             Call(op, u) \in pending'[v] <=> Call(op, u) \in pending[v]
        /\ \A v \in Worker \ {w} : pending'[v] = pending[v]
    BY <1>2, <2>2
  <2>5. QED
    BY <1>3, <2>1, <2>3, <2>4, StageStepKeepsIInv DEF init, shut
<1>6. CASE GiveUp(w)
  <2>1. /\ init \in pending[w] /\ stage' = [stage EXCEPT ![w] = "failed"]
        /\ Settle(w, init)
        /\ UNCHANGED <<slots, spawned, busy, status, home>>
    BY <1>6 DEF GiveUp, Answers, poolVars, txVars, init
  <2>2. \A v \in Worker : pending'[v] = IF v = w THEN pending[v] \ {init}
                                                ELSE pending[v]
    BY <1>1, <2>1, Settled
  <2>3. init \notin pending'[w] /\ shut \notin pending'[w]
    BY <1>3, <2>1, <2>2
  <2>4. /\ \A v \in Worker, u \in Tx, op \in {"newTx", "close"} :
             Call(op, u) \in pending'[v] <=> Call(op, u) \in pending[v]
        /\ \A v \in Worker \ {w} : pending'[v] = pending[v]
    BY <1>2, <2>2
  <2>5. QED
    BY <1>3, <2>1, <2>3, <2>4, StageStepKeepsIInv DEF init, shut
<1>7. QED
  BY <1>4, <1>5, <1>6

LEMMA RetirementKeepsIInv ==
  ASSUME IInv, TypeOK', NEW w \in Worker,
         Drained(w) \/ ShutDown(w) \/ DestroyShutDown(w)
  PROVE  IInv'
<1>1. TypeOK
  BY DEF IInv
<1> DEFINE init == Call("init", "rotation")
           shut == Call("shutdown", "rotation")
           stop == Call("shutdown", "destroy")
<1>2. /\ init # shut /\ init # stop /\ shut # stop
      /\ \A u \in Tx, op \in {"newTx", "close"} :
           Call(op, u) # shut /\ Call(op, u) # stop
  BY CallsDiffer
<1>3. /\ init \in pending[w] => stage[w] = "initing"
      /\ shut \in pending[w] => stage[w] \in {"shutdown", "discarding"}
  BY DEF IInv, StagesMatchCalls
<1>4. \A u \in Tx : status[u] \in {"opening", "open", "closing"} =>
        stage[home[u]] \notin {"shutdown", "terminating", "retired"}
  BY DEF IInv, RotationDropsNothing
<1> HIDE DEF init, shut, stop
<1>5. CASE Drained(w)
  <2>1. /\ stage[w] = "draining" /\ stage' = [stage EXCEPT ![w] = "shutdown"]
        /\ pending' = [pending EXCEPT ![w] = @ \cup {shut}]
        /\ UNCHANGED <<slots, spawned, busy, status, home>>
        /\ busy[w] = 0 /\ pending[w] = {}
    BY <1>5 DEF Drained, Quiet, Post, poolVars, txVars, shut
  <2>2. \A v \in Worker : pending'[v] = IF v = w THEN pending[v] \cup {shut}
                                                ELSE pending[v]
    BY <1>1, <2>1 DEF TypeOK
  <2>3. ASSUME NEW u \in Tx, home[u] = w
        PROVE  status[u] \notin {"opening", "open", "closing"}
    <3>1. status[u] # "opening"
      BY <2>1, <2>3 DEF IInv, CallsMatchHandles
    <3>2. Held(w) = {}
      <4>1. Cardinality(Held(w)) = 0
        BY <2>1 DEF IInv, BusyCountsHandles
      <4>2. QED
        BY <4>1, HeldIsFinite, FS_EmptySet
    <3>3. QED
      BY <2>3, <3>1, <3>2 DEF Held
  <2>4. init \notin pending'[w]
    BY <1>2, <2>1, <2>2
  <2>5. /\ \A v \in Worker, u \in Tx, op \in {"newTx", "close"} :
             Call(op, u) \in pending'[v] <=> Call(op, u) \in pending[v]
        /\ \A v \in Worker \ {w} : pending'[v] = pending[v]
    BY <1>2, <2>2
  <2>6. QED
    BY <2>1, <2>3, <2>4, <2>5, StageStepKeepsIInv DEF init, shut
<1>6. CASE ShutDown(w)
  <2>1. /\ shut \in pending[w] /\ Settle(w, shut)
        /\ stage' = [stage EXCEPT ![w] = IF @ = "discarding" THEN "discarded"
                                                             ELSE "terminating"]
        /\ UNCHANGED <<slots, spawned, busy, status, home>>
    BY <1>6 DEF ShutDown, Answers, poolVars, txVars, shut
  <2>2. \A v \in Worker : pending'[v] = IF v = w THEN pending[v] \ {shut}
                                                ELSE pending[v]
    BY <1>1, <2>1, Settled
  <2>3. PICK s : /\ stage' = [stage EXCEPT ![w] = s]
                 /\ s = IF stage[w] = "discarding" THEN "discarded"
                                                   ELSE "terminating"
    BY <2>1
  <2>4. stage[w] \in {"shutdown", "discarding"}
    BY <1>3, <2>1
  <2>5. init \notin pending'[w] /\ shut \notin pending'[w]
    BY <1>3, <2>2, <2>4
  <2>6. s \in {"shutdown", "terminating", "retired"} =>
          \A u \in Tx : home[u] = w =>
            status[u] \notin {"opening", "open", "closing"}
    BY <1>4, <2>3, <2>4
  <2>7. /\ \A v \in Worker, u \in Tx, op \in {"newTx", "close"} :
             Call(op, u) \in pending'[v] <=> Call(op, u) \in pending[v]
        /\ \A v \in Worker \ {w} : pending'[v] = pending[v]
    BY <1>2, <2>2
  <2>8. QED
    BY <2>1, <2>3, <2>4, <2>5, <2>6, <2>7, StageStepKeepsIInv DEF init, shut
<1>7. CASE DestroyShutDown(w)
  <2>1. /\ Settle(w, stop)
        /\ UNCHANGED <<slots, spawned, busy, stage, status, home>>
    BY <1>7 DEF DestroyShutDown, Answers, poolVars, txVars, stop
  <2>2. \A v \in Worker : pending'[v] = IF v = w THEN pending[v] \ {stop}
                                                ELSE pending[v]
    BY <1>1, <2>1, Settled
  <2>3. stage' = [stage EXCEPT ![w] = stage[w]]
    BY <1>1, <2>1 DEF TypeOK
  <2>4. /\ \A v \in Worker, u \in Tx, op \in {"newTx", "close"} :
             Call(op, u) \in pending'[v] <=> Call(op, u) \in pending[v]
        /\ \A v \in Worker \ {w} : pending'[v] = pending[v]
    BY <1>2, <2>2
  <2>5. /\ init \in pending'[w] => stage[w] = "initing"
        /\ shut \in pending'[w] => stage[w] \in {"shutdown", "discarding"}
    BY <1>3, <2>2
  <2>6. QED
    BY <1>4, <2>1, <2>3, <2>4, <2>5, StageStepKeepsIInv DEF init, shut
<1>8. QED
  BY <1>5, <1>6, <1>7

LEMMA SwappedKeepsIInv ==
  ASSUME IInv, TypeOK', NEW w \in Worker, Swapped(w)
  PROVE  IInv'
<1>1. TypeOK
  BY DEF IInv
<1> DEFINE old == replaces[w]
           init == Call("init", "rotation")
           shut == Call("shutdown", "rotation")
<1>2. /\ init # shut
      /\ \A u \in Tx, op \in {"newTx", "close"} : Call(op, u) # init
  BY CallsDiffer
<1>3. /\ init \in pending[w] /\ Settle(w, init)
      /\ slots' = Swap(old, w) /\ old \in InSlots
      /\ stage' = [stage EXCEPT ![w] = "active", ![old] = "draining"]
      /\ UNCHANGED <<spawned, busy, status, home>>
  BY DEF Swapped, Answers, Wanted, txVars
<1>4. InSlots \subseteq Worker
  BY <1>1 DEF InSlots, TypeOK
<1>5. stage[w] = "initing" /\ stage[old] = "active" /\ old \in Worker
  BY <1>3, <1>4 DEF IInv, StagesMatchCalls
<1> HIDE DEF old, init, shut
<1>6. \A v \in Worker : stage'[v] = CASE v = old -> "draining"
                                      [] v = w -> "active"
                                      [] OTHER -> stage[v]
  BY <1>1, <1>3, <1>5 DEF TypeOK
<1>7. \A v \in Worker : pending'[v] = IF v = w THEN pending[v] \ {init}
                                               ELSE pending[v]
  BY <1>1, <1>3, Settled
<1>8. CallsMatchHandles' /\ BusyCountsHandles'
  BY <1>2, <1>3, <1>7, HandlesUntouched
<1>9. StagesMatchCalls'
  <2>1. \A v \in InSlots' : v = w \/ v \in InSlots \ {old}
    BY <1>3 DEF InSlots, Swap
  <2>2. \A v \in InSlots' : stage'[v] = "active"
    BY <1>4, <1>5, <1>6, <2>1 DEF IInv, StagesMatchCalls
  <2>3. \A v \in Worker : v > spawned' => stage'[v] = "unspawned"
    BY <1>3, <1>5, <1>6 DEF IInv, StagesMatchCalls
  <2>4. /\ init \notin pending'[w] /\ shut \notin pending'[w]
        /\ init \notin pending'[old] /\ shut \notin pending'[old]
    BY <1>5, <1>7 DEF IInv, StagesMatchCalls, init, shut
  <2>5. \A v \in Worker : /\ init \in pending'[v] => stage'[v] = "initing"
                          /\ shut \in pending'[v]
                               => stage'[v] \in {"shutdown", "discarding"}
    <3> SUFFICES ASSUME NEW v \in Worker \ {w, old}
                 PROVE  /\ init \in pending'[v] => stage'[v] = "initing"
                        /\ shut \in pending'[v]
                             => stage'[v] \in {"shutdown", "discarding"}
      BY <2>4
    <3>1. pending'[v] = pending[v] /\ stage'[v] = stage[v]
      BY <1>6, <1>7
    <3>2. QED
      BY <3>1 DEF IInv, StagesMatchCalls, init, shut
  <2>6. QED
    BY <2>2, <2>3, <2>5 DEF StagesMatchCalls, init, shut
<1>10. RotationDropsNothing'
  <2> SUFFICES ASSUME NEW u \in Tx, status[u] \in {"opening", "open", "closing"}
               PROVE  stage'[home[u]] \notin {"shutdown", "terminating", "retired"}
    BY <1>3 DEF RotationDropsNothing
  <2>1. home[u] \in Worker
        /\ stage[home[u]] \notin {"shutdown", "terminating", "retired"}
    BY DEF IInv, CallsMatchHandles, RotationDropsNothing
  <2>2. QED
    BY <1>6, <2>1
<1>11. QED
  BY <1>8, <1>9, <1>10 DEF IInv

(* 'error' and 'exit': the handles whose calls are lost leave the worker,  *)
(* and busy goes down by as many as were being closed.                     *)
LEMMA RejectPendingKeepsIInv ==
  ASSUME IInv, TypeOK', NEW w \in Worker, NEW gone \in BOOLEAN,
         RejectPending(w, gone), UNCHANGED <<slots, spawned, home>>
  PROVE  IInv'
<1>1. TypeOK
  BY DEF IInv
<1> DEFINE opening == {t \in Tx : Call("newTx", t) \in pending[w]}
           closing == {t \in Tx : Call("close", t) \in pending[w]}
<1>2. /\ pending' = [pending EXCEPT ![w] = {}]
      /\ status' = [t \in Tx |-> CASE t \in opening -> "failed"
                                    [] t \in closing -> "closed"
                                    [] OTHER -> status[t]]
      /\ busy' = [busy EXCEPT ![w] = Released(@, Cardinality(closing))]
  BY DEF RejectPending
<1>3. PICK s : /\ stage' = [stage EXCEPT ![w] = s]
               /\ stage[w] \in {"unspawned", "active"} => s = stage[w]
               /\ s \in {"shutdown", "terminating", "retired"}
                    => stage[w] \in {"shutdown", "terminating", "retired"}
  <2> DEFINE gaveUp == stage[w] = "initing" \/ (stage[w] = "booting" /\ ~gone)
             ended == IF gone THEN "retired" ELSE "terminating"
             next == CASE gaveUp -> "failed"
                       [] stage[w] = "shutdown" -> ended
                       [] stage[w] = "terminating" -> ended
                       [] stage[w] = "discarding" -> "discarded"
                       [] OTHER -> stage[w]
  <2>1. stage' = [stage EXCEPT ![w] = next]
    BY DEF RejectPending
  <2>2. stage[w] \in {"unspawned", "active"} => next = stage[w]
    OBVIOUS
  <2>3. next \in {"shutdown", "terminating", "retired"}
          => stage[w] \in {"shutdown", "terminating", "retired"}
    OBVIOUS
  <2> HIDE DEF next
  <2>4. QED
    BY <2>1, <2>2, <2>3
<1>4. /\ \A t \in opening : status[t] = "opening" /\ home[t] = w
      /\ \A t \in closing : status[t] = "closing" /\ home[t] = w
  BY DEF IInv, CallsMatchHandles
<1>5. \A v \in Worker : /\ pending'[v] = IF v = w THEN {} ELSE pending[v]
                        /\ stage'[v] = IF v = w THEN s ELSE stage[v]
  BY <1>1, <1>2, <1>3 DEF TypeOK
<1>6. \A t \in Tx : /\ t \in opening => status'[t] = "failed"
                    /\ t \in closing => status'[t] = "closed"
                    /\ t \notin opening \cup closing => status'[t] = status[t]
  BY <1>2, <1>4
<1>7. CallsMatchHandles'
  <2>1. ASSUME NEW t \in Tx, status'[t] \in {"opening", "open", "closing"}
        PROVE  /\ t \notin opening \cup closing /\ status'[t] = status[t]
               /\ home'[t] = home[t] /\ home[t] \in Worker
    BY <1>6, <2>1 DEF IInv, CallsMatchHandles
  <2>2. ASSUME NEW t \in Tx, status'[t] = "opening"
        PROVE  Call("newTx", t) \in pending'[home'[t]]
    <3>1. Call("newTx", t) \in pending[home[t]] /\ home[t] # w
      BY <2>1, <2>2 DEF IInv, CallsMatchHandles
    <3>2. QED
      BY <1>5, <2>1, <2>2, <3>1
  <2>3. ASSUME NEW v \in Worker, NEW t \in Tx, NEW op \in {"newTx", "close"},
               Call(op, t) \in pending'[v]
        PROVE  /\ home'[t] = v
               /\ op = "newTx" => status'[t] = "opening"
               /\ op = "close" => status'[t] = "closing"
    <3>1. v # w /\ Call(op, t) \in pending[v]
      BY <1>5, <2>3
    <3>2. /\ home[t] = v
          /\ op = "newTx" => status[t] = "opening"
          /\ op = "close" => status[t] = "closing"
      BY <3>1 DEF IInv, CallsMatchHandles
    <3>3. t \notin opening \cup closing
      BY <1>4, <3>1, <3>2
    <3>4. QED
      BY <1>6, <3>2, <3>3
  <2>4. QED
    BY <2>1, <2>2, <2>3 DEF CallsMatchHandles
<1>8. StagesMatchCalls'
  <2>1. InSlots' = InSlots /\ InSlots \subseteq Worker
    BY <1>1 DEF InSlots, TypeOK
  <2>2. QED
    BY <1>3, <1>5, <2>1 DEF IInv, StagesMatchCalls
<1>9. BusyCountsHandles'
  <2>1. closing \subseteq Held(w)
    BY <1>4 DEF Held
  <2>2. Held(w)' = Held(w) \ closing
    BY <1>4, <1>6 DEF Held
  <2>3. \A v \in Worker \ {w} : Held(v)' = Held(v)
    BY <1>4, <1>6 DEF Held
  <2>4. IsFiniteSet(Held(w)) /\ IsFiniteSet(closing)
    BY <2>1, HeldIsFinite, FS_Subset
  <2>5. /\ Cardinality(closing) \in Nat /\ Cardinality(Held(w)) \in Nat
        /\ Cardinality(closing) <= Cardinality(Held(w))
    BY <2>1, <2>4, FS_CardinalityType, FS_Subset
  <2>6. Cardinality(Held(w) \ closing) = Cardinality(Held(w)) - Cardinality(closing)
    <3>1. Held(w) \cap closing = closing
      BY <2>1
    <3>2. QED
      BY <2>4, <3>1, FS_Difference
  <2>7. busy[w] = Cardinality(Held(w))
    BY DEF IInv, BusyCountsHandles
  <2> HIDE DEF closing
  <2>8. Released(busy[w], Cardinality(closing)) = Cardinality(Held(w) \ closing)
    BY <2>5, <2>6, <2>7 DEF Released
  <2>9. \A v \in Worker : busy'[v] = IF v = w THEN Cardinality(Held(w) \ closing)
                                              ELSE busy[v]
    BY <1>1, <1>2, <2>8 DEF TypeOK
  <2>10. QED
    BY <2>2, <2>3, <2>9 DEF IInv, BusyCountsHandles
<1>10. RotationDropsNothing'
  <2> SUFFICES ASSUME NEW t \in Tx, status'[t] \in {"opening", "open", "closing"}
               PROVE  stage'[home[t]] \notin {"shutdown", "terminating", "retired"}
    BY DEF RotationDropsNothing
  <2>1. status[t] \in {"opening", "open", "closing"}
    BY <1>6
  <2>2. home[t] \in Worker
        /\ stage[home[t]] \notin {"shutdown", "terminating", "retired"}
    BY <2>1 DEF IInv, CallsMatchHandles, RotationDropsNothing
  <2>3. QED
    BY <1>3, <1>5, <2>2
<1>11. QED
  BY <1>7, <1>8, <1>9, <1>10 DEF IInv

LEMMA MainKeepsIInv ==
  ASSUME IInv, TypeOK', NEW w \in Worker, Main(w)
  PROVE  IInv'
<1>1. CASE Dropped(w)
  BY <1>1, UnchangedKeepsIInv DEF Dropped, ivars, poolVars, slotVars, txVars
<1>2. CASE ErrorEvent(w)
  BY <1>2, RejectPendingKeepsIInv DEF ErrorEvent
<1>3. CASE ExitEvent(w)
  BY <1>3, RejectPendingKeepsIInv DEF ExitEvent
<1>4. QED
  BY <1>1, <1>2, <1>3, OpenedKeepsIInv, CallEndsKeepsIInv, ClosedKeepsIInv,
     ReplacementKeepsIInv, SwappedKeepsIInv, RetirementKeepsIInv DEF Main

LEMMA ThreadKeepsIInv ==
  ASSUME IInv, TypeOK', NEW w \in Worker, Thread(w) \/ Crash(w)
  PROVE  IInv'
<1>1. UNCHANGED <<poolVars, slotVars, txVars>>
  BY DEF Thread, Crash, Exit, ThreadEnds, HandleInit, HandleNewTx, HandleClose,
         HandleOp, HandleShutdown
<1>2. QED
  BY <1>1, UnchangedKeepsIInv DEF ivars, poolVars, slotVars, txVars

LEMMA StepKeepsIInv ==
  ASSUME IInv, TypeOK', [Next]_vars
  PROVE  IInv'
<1>1. ASSUME NEW t \in Tx, Client(t)
      PROVE  IInv'
  BY <1>1, NewTransactionKeepsIInv, OtherClientKeepsIInv DEF Client
<1>2. CASE UNCHANGED vars
  BY <1>2, UnchangedKeepsIInv DEF vars, ivars, poolVars, slotVars, txVars
<1>3. QED
  BY <1>1, <1>2, DestroyKeepsIInv, MainKeepsIInv, ThreadKeepsIInv DEF Next

LEMMA IInvHoldsAtFirst ==
  ASSUME Init, TypeOK
  PROVE  IInv
<1>1. /\ \A t \in Tx : status[t] = "idle"
      /\ \A w \in Worker : pending[w] = {} /\ busy[w] = 0
  BY DEF Init
<1>2. \A w \in Worker : Held(w) = {}
  BY <1>1 DEF Held
<1>3. BusyCountsHandles
  BY <1>1, <1>2, FS_EmptySet DEF BusyCountsHandles
<1>4. CallsMatchHandles /\ RotationDropsNothing
  BY <1>1 DEF CallsMatchHandles, RotationDropsNothing
<1>5. StagesMatchCalls
  <2>1. \A w \in InSlots : w \in Slot /\ w \in Worker
    BY DEF Init, InSlots, TypeOK
  <2>2. \A w \in Worker : w > spawned => w \notin Slot
    BY SizeAssumption DEF Init, Slot, Worker
  <2>3. QED
    BY <1>1, <2>1, <2>2 DEF Init, StagesMatchCalls
<1>6. QED
  BY <1>3, <1>4, <1>5 DEF IInv

(* The invariant that carries the argument.                                *)
THEOREM InvariantHolds == Spec => []IInv
<1>1. Init /\ TypeOK => IInv
  BY IInvHoldsAtFirst
<1>2. IInv /\ TypeOK' /\ [Next]_vars => IInv'
  BY StepKeepsIInv
<1>3. QED
  BY <1>1, <1>2, TypeCorrect, PTL DEF Spec

(* For any number of slots, workers, requests and transactions, and        *)
(* whatever faults occur: busy is the number of handles in use.            *)
THEOREM BusyIsExact == Spec => []BusyCountsHandles
BY InvariantHolds, PTL DEF IInv

(* ... and a rotation never shuts down or terminates a worker on which a   *)
(* transaction is being opened, in use or being closed.                    *)
THEOREM RotationIsSafe == Spec => []RotationDropsNothing
BY InvariantHolds, PTL DEF IInv

-----------------------------------------------------------------------------
(***************************************************************************)
(* Who is in the pool: the slots hold initialised workers, a worker being  *)
(* rotated has one replacement under way, and no thread that runs is out   *)
(* of everyone's reach; for pools, traffic and faults of every size.  At   *)
(* the end, what the pool is like before its first handle.                 *)
(*                                                                         *)
(* None of the three is inductive.  A worker enters a slot on the word of  *)
(* its reply to init, so a reply must outlive no initialisation; a latch   *)
(* is set by one async function and cleared by another, so whatever is     *)
(* being replaced must have been in the pool itself.  Membership says all  *)
(* that with the three.                                                    *)
(***************************************************************************)

Handles == {"opening", "open", "closing"}

(* The stages of a worker that is not in the pool yet.                     *)
Coming == {"unspawned", "booting", "initing"}

(* The thread has run its init handler.                                    *)
Inited(w) == thread[w] \notin {"unspawned", "starting", "online"}

Said(w) == {outbox[w][i] : i \in DOMAIN outbox[w]}
InitOk == [call |-> Call("init", "rotation"), result |-> "ok"]

(* What a reply and a stage tell of the thread.                            *)
ThreadsMatchStages ==
  /\ \A w \in Worker : w > spawned => thread[w] = "unspawned"
  /\ \A w \in Worker : InitOk \in Said(w) => Inited(w)
  /\ \A w \in Worker : stage[w] \in {"active", "draining"} => Inited(w)

DrainingHasLeft ==
  \A w \in draining : stage[w] \in {"draining", "shutdown", "terminating"}

(* A handle in use, or about to be, has a worker that serves it.           *)
UsersAreServed ==
  \A t \in Tx : status[t] \in Handles => stage[home[t]] \in {"active", "draining"}

(* Only a worker that has been in the pool is being replaced.              *)
RotationsHaveAnOld ==
  /\ \A w \in Worker : rotating[w] => stage[w] \notin Coming
  /\ \A n \in Worker : stage[n] \in {"booting", "initing"} =>
       replaces[n] \in Worker /\ stage[replaces[n]] \notin Coming

SlotsDiffer == \A i, j \in Slot : slots[i] = slots[j] => i = j

Membership ==
  /\ ThreadsMatchStages /\ DrainingHasLeft /\ UsersAreServed
  /\ RotationsHaveAnOld /\ SlotsDiffer /\ OneReplacement /\ NoOrphanThread

MInv == IInv /\ Membership

-----------------------------------------------------------------------------
(* Facts about the parts of a step.                                        *)

LEMMA AppendAdds ==
  ASSUME NEW S, NEW s \in Seq(S), NEW m \in S
  PROVE  /\ Append(s, m) \in Seq(S)
         /\ Len(Append(s, m)) = Len(s) + 1
         /\ DOMAIN Append(s, m) = 1 .. Len(s) + 1
         /\ DOMAIN s = 1 .. Len(s) /\ Len(s) \in Nat
         /\ \A i \in DOMAIN s : Append(s, m)[i] = s[i]
         /\ Append(s, m)[Len(s) + 1] = m
         /\ {Append(s, m)[i] : i \in DOMAIN Append(s, m)} = {s[i] : i \in DOMAIN s} \cup {m}
<1> DEFINE a == Append(s, m)
<1>1. a \in Seq(S) /\ Len(a) = Len(s) + 1 /\ Len(s) \in Nat
  OBVIOUS
<1>2. /\ \A i \in 1 .. Len(s) : a[i] = s[i]
      /\ a[Len(s) + 1] = m
  OBVIOUS
<1> HIDE DEF a
<1>3. DOMAIN a = 1 .. Len(s) + 1 /\ DOMAIN s = 1 .. Len(s)
  BY <1>1
<1>4. {a[i] : i \in DOMAIN a} = {s[i] : i \in DOMAIN s} \cup {m}
  BY <1>1, <1>2, <1>3
<1>5. QED
  BY <1>1, <1>2, <1>3, <1>4 DEF a

LEMMA AnswersShrink ==
  ASSUME TypeOK, NEW w \in Worker, NEW c, NEW results, Answers(w, c, results)
  PROVE  /\ \A v \in Worker : Said(v)' \subseteq Said(v)
         /\ \E r \in results : [call |-> c, result |-> r] \in Said(w)
<1>1. /\ outbox[w] \in Seq(Replies) /\ outbox[w] # <<>>
      /\ outbox' = [outbox EXCEPT ![w] = Tail(@)]
      /\ Head(outbox[w]).call = c /\ Head(outbox[w]).result \in results
  BY DEF Answers, TypeOK
<1>2. \A v \in Worker : outbox'[v] = IF v = w THEN Tail(outbox[w]) ELSE outbox[v]
  BY <1>1 DEF TypeOK
<1>3. Said(w)' \subseteq Said(w)
  BY <1>1, <1>2 DEF Said
<1>4. Head(outbox[w]) \in Said(w) /\ Head(outbox[w]) \in Replies
  BY <1>1 DEF Said
<1>5. Head(outbox[w]) = [call |-> c, result |-> Head(outbox[w]).result]
  BY <1>1, <1>4 DEF Replies
<1>6. \A v \in Worker \ {w} : Said(v)' = Said(v)
  BY <1>2 DEF Said
<1>7. QED
  BY <1>1, <1>3, <1>4, <1>5, <1>6

LEMMA DroppedShrinks ==
  ASSUME TypeOK, NEW w \in Worker, Dropped(w)
  PROVE  \A v \in Worker : Said(v)' \subseteq Said(v)
<1>1. /\ outbox[w] \in Seq(Replies) /\ outbox[w] # <<>>
      /\ outbox' = [outbox EXCEPT ![w] = Tail(@)]
  BY DEF Dropped, TypeOK
<1>2. \A v \in Worker : outbox'[v] = IF v = w THEN Tail(outbox[w]) ELSE outbox[v]
  BY <1>1 DEF TypeOK
<1>3. QED
  BY <1>1, <1>2 DEF Said

LEMMA ReplyIsSaid ==
  ASSUME TypeOK, NEW w \in Worker, NEW c \in Calls, NEW r \in Results,
         Reply(w, c, r)
  PROVE  \A v \in Worker : Said(v)' = IF v = w
                                      THEN Said(w) \cup {[call |-> c, result |-> r]}
                                      ELSE Said(v)
<1> DEFINE m == [call |-> c, result |-> r]
<1>1. outbox[w] \in Seq(Replies) /\ m \in Replies
  BY DEF TypeOK, Replies
<1>2. \A v \in Worker : outbox'[v] = IF v = w THEN Append(outbox[w], m) ELSE outbox[v]
  BY DEF Reply, TypeOK
<1> HIDE DEF m
<1>3. Said(w)' = Said(w) \cup {m}
  <2> DEFINE a == Append(outbox[w], m)
  <2>1. {a[i] : i \in DOMAIN a} = Said(w) \cup {m}
    BY <1>1, AppendAdds DEF Said
  <2>2. outbox'[w] = a
    BY <1>2
  <2> HIDE DEF a
  <2>3. QED
    BY <2>1, <2>2 DEF Said
<1>4. QED
  BY <1>2, <1>3 DEF Said, m

LEMMA SlotsAreWorkers ==
  ASSUME TypeOK
  PROVE  InSlots \subseteq Worker /\ draining \subseteq Worker
BY DEF TypeOK, InSlots

LEMMA UnderWayIsFinite ==
  ASSUME NEW w
  PROVE  IsFiniteSet(UnderWay(w))
<1>1. IsFiniteSet(Worker)
  BY WorkersAssumption, FS_Interval DEF Worker
<1>2. QED
  BY <1>1, FS_Subset DEF UnderWay

(* What Membership speaks of besides the threads and the handles.          *)
mvars == <<slots, destroyed, draining, spawned, rotating, stage, replaces,
           stopping, terminated>>

(* A call begins or ends: only handles change, and replies are taken.      *)
LEMMA CallsKeepMembership ==
  ASSUME IInv, Membership, UNCHANGED <<mvars, thread>>,
         \A v \in Worker : Said(v)' \subseteq Said(v),
         \A t \in Tx : status'[t] \in Handles =>
           \/ status[t] \in Handles /\ home'[t] = home[t]
           \/ home'[t] \in InSlots
  PROVE  Membership'
<1> USE DEF mvars
<1>1. ThreadsMatchStages'
  BY DEF Membership, ThreadsMatchStages, Inited
<1>2. UsersAreServed'
  BY DEF Membership, UsersAreServed, IInv, StagesMatchCalls
<1>3. OneReplacement'
  BY DEF Membership, OneReplacement, UnderWay, InSlots
<1>4. NoOrphanThread'
  BY DEF Membership, NoOrphanThread, InSlots
<1>5. QED
  BY <1>1, <1>2, <1>3, <1>4
     DEF Membership, DrainingHasLeft, RotationsHaveAnOld, SlotsDiffer

LEMMA ClientKeepsMembership ==
  ASSUME MInv, NEW t \in Tx, Client(t)
  PROVE  Membership'
<1> USE DEF MInv
<1>1. TypeOK
  BY DEF IInv
<1>2. /\ UNCHANGED <<mvars, thread, outbox>>
      /\ \A u \in Tx \ {t} : status'[u] = status[u] /\ home'[u] = home[u]
      /\ status'[t] \in Handles =>
           \/ status[t] \in Handles /\ home'[t] = home[t]
           \/ home'[t] \in InSlots
  <2>1. CASE NewTransaction(t)
    <3>1. PickSlot \in InSlots
      BY <1>1, PickSlotInSlots
    <3>2. QED
      BY <1>1, <2>1, <3>1 DEF NewTransaction, TypeOK, mvars
  <2>2. CASE NewTransactionDestroyed(t)
    BY <1>1, <2>2 DEF NewTransactionDestroyed, TypeOK, mvars, poolVars, slotVars,
       threadVars, Handles
  <2>3. CASE Close(t)
    BY <1>1, <2>3 DEF Close, TypeOK, mvars, poolVars, Handles
  <2>4. ASSUME NEW kind \in OpKinds, Operate(t, kind)
        PROVE  UNCHANGED <<mvars, thread, outbox, status, home>>
    BY <2>4 DEF Operate, mvars, poolVars, txVars
  <2>5. QED
    BY <2>1, <2>2, <2>3, <2>4 DEF Client
<1>3. \A v \in Worker : Said(v)' \subseteq Said(v)
  BY <1>2 DEF Said
<1>4. QED
  BY <1>2, <1>3, CallsKeepMembership

(* The replies that end a call of a handle and start no rotation.          *)
LEMMA CallEndsKeepsMembership ==
  ASSUME MInv, NEW w \in Worker, NEW t \in Tx,
         \/ OpenFailed(w, t) \/ Closed(w, t)
         \/ Opened(w, t) /\ ~RotationDue(w)
         \/ \E kind \in OpKinds : Operated(w, t, kind)
  PROVE  Membership'
<1>1. TypeOK
  BY DEF MInv, IInv
<1>2. /\ UNCHANGED <<mvars, thread, home>>
      /\ \E c, results : Answers(w, c, results)
      /\ \/ status' = status
         \/ /\ status[t] \in Handles
            /\ \A u \in Tx \ {t} : status'[u] = status[u]
  <2>1. /\ Call("newTx", t) \in pending[w] => status[t] = "opening"
        /\ Call("close", t) \in pending[w] => status[t] = "closing"
    BY DEF MInv, IInv, CallsMatchHandles
  <2>2. CASE OpenFailed(w, t)
    BY <1>1, <2>1, <2>2 DEF OpenFailed, Answers, TypeOK, mvars, poolVars, Handles
  <2>3. CASE Closed(w, t)
    BY <1>1, <2>1, <2>3 DEF Closed, Answers, TypeOK, mvars, poolVars, Handles
  <2>4. CASE Opened(w, t) /\ ~RotationDue(w)
    BY <1>1, <2>1, <2>4 DEF Opened, Answers, TypeOK, mvars, Handles
  <2>5. ASSUME NEW kind \in OpKinds, Operated(w, t, kind)
        PROVE  /\ UNCHANGED <<mvars, thread, home, status>>
               /\ \E c, results : Answers(w, c, results)
    BY <2>5 DEF Operated, mvars, poolVars, txVars
  <2>6. QED
    BY <2>2, <2>3, <2>4, <2>5
<1>3. \A v \in Worker : Said(v)' \subseteq Said(v)
  BY <1>1, <1>2, AnswersShrink
<1>4. QED
  BY <1>2, <1>3, CallsKeepMembership DEF MInv

(* newTransaction() goes on and rotates the worker.                        *)
LEMMA RotationKeepsMembership ==
  ASSUME MInv, TypeOK', NEW w \in Worker, NEW t \in Tx,
         Opened(w, t), RotationDue(w)
  PROVE  Membership'
<1> DEFINE n == spawned + 1
<1>1. TypeOK
  BY DEF MInv, IInv
<1>2. /\ n \in Worker /\ spawned' = n
      /\ Call("newTx", t) \in pending[w]
      /\ Answers(w, Call("newTx", t), {"ok"})
      /\ rotating' = [rotating EXCEPT ![w] = TRUE]
      /\ stage' = [stage EXCEPT ![n] = "booting"]
      /\ thread' = [thread EXCEPT ![n] = "starting"]
      /\ replaces' = [replaces EXCEPT ![n] = w]
      /\ status' = [status EXCEPT ![t] = "open"]
      /\ UNCHANGED <<slots, destroyed, draining, stopping, terminated, home>>
      /\ ~rotating[w]
  BY DEF Opened, Answers, RotationDue
<1>3. n > spawned /\ spawned \in Nat
  BY <1>1, SizeAssumption, WorkersAssumption DEF TypeOK
<1>4. /\ stage[n] = "unspawned" /\ thread[n] = "unspawned"
      /\ \A v \in Worker : v > spawned' => v > spawned /\ v # n
  BY <1>2, <1>3 DEF MInv, IInv, StagesMatchCalls, Membership, ThreadsMatchStages,
     Worker
<1> HIDE DEF n
<1>5. \A v \in Worker :
        /\ rotating'[v] = IF v = w THEN TRUE ELSE rotating[v]
        /\ stage'[v] = IF v = n THEN "booting" ELSE stage[v]
        /\ thread'[v] = IF v = n THEN "starting" ELSE thread[v]
        /\ replaces'[v] = IF v = n THEN w ELSE replaces[v]
  BY <1>1, <1>2 DEF TypeOK
<1>6. status[t] = "opening" /\ home[t] = w
  BY <1>2 DEF MInv, IInv, CallsMatchHandles
<1>7. stage[w] \in {"active", "draining"} /\ w # n
  BY <1>4, <1>6 DEF MInv, Membership, UsersAreServed, Handles
<1>8. \A v \in Worker : Said(v)' \subseteq Said(v)
  BY <1>1, <1>2, AnswersShrink
<1>9. InSlots' = InSlots /\ InSlots \subseteq Worker /\ draining \subseteq Worker
  BY <1>1, <1>2, SlotsAreWorkers DEF InSlots
<1>10. \A v \in InSlots : stage[v] = "active"
  BY DEF MInv, IInv, StagesMatchCalls
<1>11. ThreadsMatchStages'
  BY <1>4, <1>5, <1>8 DEF MInv, Membership, ThreadsMatchStages, Inited
<1>12. DrainingHasLeft' /\ SlotsDiffer'
  BY <1>2, <1>4, <1>5, <1>9 DEF MInv, Membership, DrainingHasLeft, SlotsDiffer
<1>13. UsersAreServed'
  <2> SUFFICES ASSUME NEW u \in Tx, status'[u] \in Handles
               PROVE  stage'[home[u]] \in {"active", "draining"}
    BY <1>2 DEF UsersAreServed
  <2>1. status[u] \in Handles
    BY <1>1, <1>2, <1>6 DEF TypeOK, Handles
  <2>2. home[u] \in Worker /\ stage[home[u]] \in {"active", "draining"}
    BY <2>1 DEF MInv, IInv, CallsMatchHandles, Membership, UsersAreServed, Handles
  <2>3. QED
    BY <1>4, <1>5, <2>2
<1>14. RotationsHaveAnOld'
  <2>1. ASSUME NEW v \in Worker, rotating'[v]
        PROVE  stage'[v] \notin Coming
    BY <1>4, <1>5, <1>7, <2>1 DEF MInv, Membership, RotationsHaveAnOld, Coming
  <2>2. ASSUME NEW v \in Worker, stage'[v] \in {"booting", "initing"}
        PROVE  replaces'[v] \in Worker /\ stage'[replaces'[v]] \notin Coming
    <3>1. CASE v = n
      BY <1>5, <1>7, <3>1 DEF Coming
    <3>2. CASE v # n
      <4>1. replaces[v] \in Worker /\ stage[replaces[v]] \notin Coming
        BY <1>5, <2>2, <3>2 DEF MInv, Membership, RotationsHaveAnOld
      <4>2. replaces[v] # n
        BY <1>4, <4>1 DEF Coming
      <4>3. QED
        BY <1>5, <3>2, <4>1, <4>2
    <3>3. QED
      BY <3>1, <3>2
  <2>3. QED
    BY <2>1, <2>2 DEF RotationsHaveAnOld
<1>15. OneReplacement'
  <2> SUFFICES ASSUME ~destroyed, NEW v \in InSlots
               PROVE  Cardinality(UnderWay(v)') = IF rotating'[v] THEN 1 ELSE 0
    BY <1>2, <1>9 DEF OneReplacement
  <2>1. Cardinality(UnderWay(v)) = IF rotating[v] THEN 1 ELSE 0
    BY DEF MInv, Membership, OneReplacement
  <2>2. CASE v = w
    <3>1. Cardinality(UnderWay(w)) = 0
      BY <1>2, <2>1, <2>2
    <3>2. UnderWay(w) = {}
      BY <3>1, UnderWayIsFinite, FS_EmptySet
    <3>3. UnderWay(w)' = {n}
      <4>1. \A u \in Worker \ {n} : u \in UnderWay(w)' <=> u \in UnderWay(w)
        BY <1>5 DEF UnderWay
      <4>2. n \in UnderWay(w)'
        BY <1>2, <1>5 DEF UnderWay
      <4>3. UnderWay(w)' \subseteq Worker
        BY DEF UnderWay
      <4>4. QED
        BY <3>2, <4>1, <4>2, <4>3
    <3>4. QED
      BY <1>5, <2>2, <3>3, FS_Singleton
  <2>3. CASE v # w
    <3>1. UnderWay(v)' = UnderWay(v)
      BY <1>4, <1>5, <2>3 DEF UnderWay
    <3>2. QED
      BY <1>5, <1>9, <2>1, <2>3, <3>1
  <2>4. QED
    BY <2>2, <2>3
<1>16. NoOrphanThread'
  <2>1. SUFFICES ASSUME NEW v \in Worker, thread'[v] \in Running
                 PROVE  \/ ~destroyed' /\ v \in InSlots' \cup draining'
                        \/ stopping'[v] # "no" \/ v \in terminated'
                        \/ stage'[v] \in {"booting", "initing", "discarding"}
    BY DEF NoOrphanThread
  <2>2. CASE v = n
    BY <1>5, <2>2
  <2>3. CASE v # n
    <3>1. thread[v] \in Running /\ stage'[v] = stage[v]
      BY <1>5, <2>1, <2>3
    <3>2. \/ ~destroyed /\ v \in InSlots \cup draining
          \/ stopping[v] # "no" \/ v \in terminated
          \/ stage[v] \in {"booting", "initing", "discarding"}
      BY <3>1 DEF MInv, Membership, NoOrphanThread
    <3>3. QED
      BY <1>2, <1>9, <3>1, <3>2
  <2>4. QED
    BY <2>2, <2>3
<1>17. QED
  BY <1>11, <1>12, <1>13, <1>14, <1>15, <1>16 DEF Membership

-----------------------------------------------------------------------------
(* The steps that move one worker to another stage.                        *)

Accounted(w) ==
  thread[w] \in Running =>
    \/ ~destroyed /\ w \in InSlots \cup draining
    \/ stopping[w] # "no" \/ w \in terminated
    \/ stage[w] \in {"booting", "initing", "discarding"}

UnderWayStages == {"booting", "initing"}

(* What such a step may do to the worker w it moves ...                    *)
Moves(w) ==
  /\ stage[w] = "active" => stage'[w] = "active"
  /\ stage[w] = "draining" => stage'[w] \in {"draining", "shutdown"}
  /\ stage'[w] \in {"unspawned", "active", "draining"} => stage'[w] = stage[w]
  /\ stage'[w] \in UnderWayStages => stage[w] \in UnderWayStages
  /\ Inited(w) => Inited(w)'
  /\ thread[w] = "unspawned" => thread'[w] = "unspawned"
  /\ w \in draining' => stage'[w] \in {"draining", "shutdown", "terminating"}
  /\ Accounted(w)'

(* ... and to everything else.                                             *)
KeepsOthers(w) ==
  /\ UNCHANGED <<slots, destroyed, spawned, replaces, home>>
  /\ \A v \in Worker \ {w} :
       /\ UNCHANGED <<stage[v], thread[v], stopping[v]>>
       /\ v \in terminated => v \in terminated'
       /\ v \in draining' <=> v \in draining
  /\ \A v \in Worker : Said(v)' \subseteq Said(v)
  /\ \A t \in Tx : status'[t] \in Handles => status[t] \in Handles

(* A worker that is no longer under way releases the latch of the slot it  *)
(* was to replace, if that slot is still there.                            *)
Unlatches(w) ==
  \/ /\ rotating' = rotating
     /\ stage[w] \in UnderWayStages => stage'[w] \in UnderWayStages \/ ~Wanted(w)
  \/ /\ rotating' = Unlatched(w)
     /\ stage[w] \in UnderWayStages /\ stage'[w] \notin UnderWayStages

LEMMA MoveKeepsMembership ==
  ASSUME MInv, IInv', NEW w \in Worker, Moves(w), KeepsOthers(w), Unlatches(w)
  PROVE  Membership'
<1>1. TypeOK /\ TypeOK'
  BY DEF MInv, IInv
<1>2. InSlots' = InSlots /\ InSlots \subseteq Worker /\ draining' \subseteq Worker
  BY <1>1, SlotsAreWorkers DEF InSlots, KeepsOthers, TypeOK
<1>3. \A v \in Worker \ {w} : stage'[v] = stage[v] /\ thread'[v] = thread[v]
  BY DEF KeepsOthers
<1>4. ThreadsMatchStages'
  BY <1>3 DEF MInv, Membership, ThreadsMatchStages, Inited, Moves, KeepsOthers
<1>5. DrainingHasLeft' /\ SlotsDiffer'
  <2>1. DrainingHasLeft'
    BY <1>2, <1>3 DEF MInv, Membership, DrainingHasLeft, Moves, KeepsOthers
  <2>2. SlotsDiffer'
    BY DEF MInv, Membership, SlotsDiffer, KeepsOthers
  <2>3. QED
    BY <2>1, <2>2
<1>6. UsersAreServed'
  <2> SUFFICES ASSUME NEW u \in Tx, status'[u] \in Handles
               PROVE  stage'[home'[u]] \in {"active", "draining"}
    BY DEF UsersAreServed
  <2>1. status[u] \in Handles /\ home'[u] = home[u]
    BY DEF KeepsOthers
  <2>2. home[u] \in Worker /\ stage[home[u]] \in {"active", "draining"}
    BY <2>1 DEF MInv, IInv, CallsMatchHandles, Membership, UsersAreServed, Handles
  <2>3. stage'[home'[u]] # "shutdown"
    BY DEF IInv, RotationDropsNothing, Handles
  <2>4. QED
    BY <1>3, <2>1, <2>2, <2>3 DEF Moves
<1>7. rotating' \in [Worker -> BOOLEAN] /\ \A v \in Worker : rotating'[v] => rotating[v]
  BY <1>1 DEF Unlatches, Unlatched, TypeOK
<1>8. RotationsHaveAnOld'
  <2>1. ASSUME NEW v \in Worker, stage[v] \notin Coming
        PROVE  stage'[v] \notin Coming
    BY <1>3, <2>1 DEF Moves, Coming, UnderWayStages
  <2>2. ASSUME NEW v \in Worker, stage'[v] \in UnderWayStages
        PROVE  stage[v] \in UnderWayStages
    BY <1>3, <2>2 DEF Moves
  <2>3. replaces' = replaces
    BY DEF KeepsOthers
  <2>4. QED
    BY <1>7, <2>1, <2>2, <2>3
       DEF MInv, Membership, RotationsHaveAnOld, UnderWayStages
<1>9. OneReplacement'
  <2> SUFFICES ASSUME ~destroyed, NEW v \in InSlots
               PROVE  Cardinality(UnderWay(v)') = IF rotating'[v] THEN 1 ELSE 0
    BY <1>2 DEF OneReplacement, KeepsOthers
  <2>1. /\ Cardinality(UnderWay(v)) = IF rotating[v] THEN 1 ELSE 0
        /\ v \in Worker /\ replaces' = replaces
    BY <1>2 DEF MInv, Membership, OneReplacement, KeepsOthers
  <2>2. CASE rotating' = Unlatched(w) /\ v = replaces[w]
    <3>1. /\ stage[w] \in UnderWayStages /\ stage'[w] \notin UnderWayStages
          \/ rotating' = rotating
      BY <2>2 DEF Unlatches
    <3>2. CASE stage[w] \in UnderWayStages /\ stage'[w] \notin UnderWayStages
      <4>1. w \in UnderWay(v)
        BY <2>2, <3>2 DEF UnderWay, UnderWayStages
      <4>2. Cardinality(UnderWay(v)) = 1
        BY <2>1, <4>1, UnderWayIsFinite, FS_EmptySet
      <4>3. UnderWay(v) = {w}
        BY <4>1, <4>2, UnderWayIsFinite, FS_Singleton
      <4>4. UnderWay(v)' = {}
        BY <1>3, <2>1, <3>2, <4>3 DEF UnderWay, UnderWayStages
      <4>5. ~rotating'[v]
        BY <1>1, <2>1, <2>2 DEF Unlatched, TypeOK
      <4>6. QED
        BY <4>4, <4>5, FS_EmptySet
    <3>3. CASE rotating' = rotating /\ ~(stage[w] \in UnderWayStages
                                         /\ stage'[w] \notin UnderWayStages)
      <4>1. UnderWay(v)' = UnderWay(v)
        BY <1>3, <2>1, <3>3 DEF UnderWay, UnderWayStages, Moves
      <4>2. QED
        BY <2>1, <3>3, <4>1
    <3>4. QED
      BY <3>1, <3>2, <3>3
  <2>3. CASE ~(rotating' = Unlatched(w) /\ v = replaces[w])
    <3>1. rotating'[v] = rotating[v]
      BY <1>1, <2>1, <2>3 DEF Unlatches, Unlatched, TypeOK
    <3>2. \/ stage'[w] \in UnderWayStages <=> stage[w] \in UnderWayStages
          \/ v # replaces[w]
      BY <2>3 DEF Unlatches, Wanted, Moves
    <3>3. UnderWay(v)' = UnderWay(v)
      BY <1>3, <2>1, <3>2 DEF UnderWay, UnderWayStages
    <3>4. QED
      BY <2>1, <3>1, <3>3
  <2>4. QED
    BY <2>2, <2>3
<1>10. NoOrphanThread'
  BY <1>2, <1>3 DEF MInv, Membership, NoOrphanThread, Accounted, Moves, KeepsOthers
<1>11. QED
  BY <1>4, <1>5, <1>6, <1>8, <1>9, <1>10 DEF Membership

LEMMA ReplacementKeepsMembership ==
  ASSUME MInv, IInv', NEW w \in Worker,
         Online(w) \/ TooLate(w) \/ GiveUp(w)
  PROVE  Membership'
<1> DEFINE init == Call("init", "rotation")
<1>1. TypeOK /\ TypeOK'
  BY DEF MInv, IInv
<1>2. init \in pending[w] => stage[w] = "initing"
  BY DEF MInv, IInv, StagesMatchCalls
<1>3. InSlots' = InSlots \/ slots' # slots
  BY DEF InSlots
<1>4. w \in draining => stage[w] \notin UnderWayStages
  BY DEF MInv, Membership, DrainingHasLeft, UnderWayStages
<1>5. CASE Online(w)
  <2>1. /\ stage[w] = "booting" /\ stage' = [stage EXCEPT ![w] = "initing"]
        /\ thread[w] = "starting" /\ thread' = [thread EXCEPT ![w] = "online"]
        /\ UNCHANGED <<slots, destroyed, spawned, draining, rotating, replaces,
                       stopping, terminated, outbox, status, home>>
    BY <1>5 DEF Online, poolVars, txVars
  <2>2. KeepsOthers(w)
    BY <1>1, <2>1 DEF KeepsOthers, Said, TypeOK
  <2>3. Moves(w)
    BY <1>1, <1>4, <2>1 DEF Moves, TypeOK, UnderWayStages, Inited, Accounted
  <2>4. Unlatches(w)
    BY <1>1, <2>1 DEF Unlatches, TypeOK, UnderWayStages
  <2>5. QED
    BY <2>2, <2>3, <2>4, MoveKeepsMembership
<1>6. CASE TooLate(w)
  <2>1. /\ init \in pending[w] /\ stage' = [stage EXCEPT ![w] = "discarding"]
        /\ Answers(w, init, Resolving) /\ ~Wanted(w)
        /\ UNCHANGED <<slots, destroyed, spawned, draining, rotating, replaces,
                       stopping, terminated, thread, status, home>>
    BY <1>6 DEF TooLate, Answers, poolVars, txVars
  <2>2. \A v \in Worker : Said(v)' \subseteq Said(v)
    BY <1>1, <2>1, AnswersShrink
  <2>3. KeepsOthers(w)
    BY <1>1, <2>1, <2>2 DEF KeepsOthers, TypeOK
  <2>4. Moves(w)
    BY <1>1, <1>2, <1>4, <2>1 DEF Moves, TypeOK, UnderWayStages, Inited, Accounted
  <2>5. Unlatches(w)
    BY <1>1, <2>1 DEF Unlatches, TypeOK, UnderWayStages
  <2>6. QED
    BY <2>3, <2>4, <2>5, MoveKeepsMembership
<1>7. CASE GiveUp(w)
  <2>1. /\ init \in pending[w] /\ stage' = [stage EXCEPT ![w] = "failed"]
        /\ Answers(w, init, {"error"}) /\ rotating' = Unlatched(w)
        /\ terminated' = terminated \cup {w}
        /\ UNCHANGED <<slots, destroyed, spawned, draining, replaces,
                       stopping, thread, status, home>>
    BY <1>7 DEF GiveUp, Answers, poolVars, txVars
  <2>2. \A v \in Worker : Said(v)' \subseteq Said(v)
    BY <1>1, <2>1, AnswersShrink
  <2>3. KeepsOthers(w)
    BY <1>1, <2>1, <2>2 DEF KeepsOthers, TypeOK
  <2>4. Moves(w)
    BY <1>1, <1>2, <1>4, <2>1 DEF Moves, TypeOK, UnderWayStages, Inited, Accounted
  <2>5. Unlatches(w)
    BY <1>1, <1>2, <2>1 DEF Unlatches, TypeOK, UnderWayStages
  <2>6. QED
    BY <2>3, <2>4, <2>5, MoveKeepsMembership
<1>8. QED
  BY <1>5, <1>6, <1>7

LEMMA RetirementKeepsMembership ==
  ASSUME MInv, IInv', NEW w \in Worker,
         Drained(w) \/ ShutDown(w) \/ DestroyShutDown(w)
  PROVE  Membership'
<1> DEFINE shut == Call("shutdown", "rotation")
<1>1. TypeOK /\ TypeOK'
  BY DEF MInv, IInv
<1>2. shut \in pending[w] => stage[w] \in {"shutdown", "discarding"}
  BY DEF MInv, IInv, StagesMatchCalls
<1>3. w \in draining => stage[w] \in {"draining", "shutdown", "terminating"}
  BY DEF MInv, Membership, DrainingHasLeft
<1>4. Accounted(w)
  BY DEF MInv, Membership, NoOrphanThread, Accounted
<1>5. CASE Drained(w)
  <2>1. /\ stage[w] = "draining" /\ stage' = [stage EXCEPT ![w] = "shutdown"]
        /\ UNCHANGED <<slots, destroyed, spawned, draining, rotating, replaces,
                       stopping, terminated, thread, outbox, status, home>>
    BY <1>5 DEF Drained, poolVars, txVars
  <2>2. KeepsOthers(w)
    BY <1>1, <2>1 DEF KeepsOthers, Said, TypeOK
  <2>3. Moves(w)
    BY <1>1, <1>4, <2>1 DEF Moves, TypeOK, UnderWayStages, Inited, Accounted, InSlots
  <2>4. Unlatches(w)
    BY <1>1, <2>1 DEF Unlatches, TypeOK, UnderWayStages
  <2>5. QED
    BY <2>2, <2>3, <2>4, MoveKeepsMembership
<1>6. CASE ShutDown(w)
  <2>1. /\ shut \in pending[w] /\ Answers(w, shut, Results)
        /\ stage' = [stage EXCEPT ![w] = IF @ = "discarding" THEN "discarded"
                                                             ELSE "terminating"]
        /\ terminated' = terminated \cup {w}
        /\ UNCHANGED <<slots, destroyed, spawned, draining, rotating, replaces,
                       stopping, thread, status, home>>
    BY <1>6 DEF ShutDown, Answers, poolVars, txVars
  <2>2. \A v \in Worker : Said(v)' \subseteq Said(v)
    BY <1>1, <2>1, AnswersShrink
  <2>3. KeepsOthers(w)
    BY <1>1, <2>1, <2>2 DEF KeepsOthers, TypeOK
  <2>4. Moves(w)
    BY <1>1, <1>2, <1>3, <2>1 DEF Moves, TypeOK, UnderWayStages, Inited, Accounted
  <2>5. Unlatches(w)
    BY <1>1, <1>2, <2>1 DEF Unlatches, TypeOK, UnderWayStages
  <2>6. QED
    BY <2>3, <2>4, <2>5, MoveKeepsMembership
<1>7. CASE DestroyShutDown(w)
  <2>1. /\ \E c : Answers(w, c, Results)
        /\ terminated' = terminated \cup {w}
        /\ stopping' = [stopping EXCEPT ![w] = "terminating"]
        /\ UNCHANGED <<slots, destroyed, spawned, draining, rotating, replaces,
                       stage, thread, status, home>>
    BY <1>7 DEF DestroyShutDown, poolVars, txVars
  <2>2. \A v \in Worker : Said(v)' \subseteq Said(v)
    BY <1>1, <2>1, AnswersShrink
  <2>3. KeepsOthers(w)
    BY <1>1, <2>1, <2>2 DEF KeepsOthers, TypeOK
  <2>4. Moves(w)
    BY <1>1, <1>3, <2>1 DEF Moves, TypeOK, UnderWayStages, Inited, Accounted
  <2>5. Unlatches(w)
    BY <1>1, <2>1 DEF Unlatches, TypeOK, UnderWayStages
  <2>6. QED
    BY <2>3, <2>4, <2>5, MoveKeepsMembership
<1>8. QED
  BY <1>5, <1>6, <1>7

(* 'error' and 'exit'.                                                     *)
LEMMA DeathKeepsMembership ==
  ASSUME MInv, IInv', NEW w \in Worker, ErrorEvent(w) \/ ExitEvent(w)
  PROVE  Membership'
<1> DEFINE gaveUp(gone) == stage[w] = "initing" \/ (stage[w] = "booting" /\ ~gone)
           ended(s, gone) == IF gone THEN s ELSE "terminating"
           moved(gone) == CASE gaveUp(gone) -> "failed"
                            [] stage[w] = "shutdown" -> ended("retired", gone)
                            [] stage[w] = "terminating" -> ended("retired", gone)
                            [] stage[w] = "discarding" -> "discarded"
                            [] OTHER -> stage[w]
<1>1. TypeOK /\ TypeOK'
  BY DEF MInv, IInv
<1>2. PICK gone \in BOOLEAN : RejectPending(w, gone)
  BY DEF ErrorEvent, ExitEvent
<1>3. /\ UNCHANGED <<slots, destroyed, spawned, replaces, home, outbox>>
      /\ thread[w] \in {"failed", "dead"}
      /\ thread' = [thread EXCEPT ![w] = thread'[w]]
      /\ thread'[w] \in {"dead", "gone"}
  BY <1>1 DEF ErrorEvent, ExitEvent, TypeOK
<1>4. /\ stage' = [stage EXCEPT ![w] = moved(gone)]
      /\ rotating' = IF gaveUp(gone) THEN Unlatched(w) ELSE rotating
  BY <1>2 DEF RejectPending
<1>5. /\ draining' = IF stage'[w] = "retired" THEN draining \ {w} ELSE draining
      /\ terminated \subseteq terminated'
      /\ \A v \in Worker \ {w} : stopping'[v] = stopping[v]
  BY <1>1, <1>2 DEF RejectPending, Undrained, TypeOK
<1>6. stage'[w] = moved(gone) /\ \A v \in Worker \ {w} : stage'[v] = stage[v]
  BY <1>1, <1>4 DEF TypeOK
<1>7. \A t \in Tx : status'[t] \in Handles => status[t] \in Handles
  BY <1>2 DEF RejectPending, Handles
<1>8. KeepsOthers(w)
  <2>1. \A v \in Worker \ {w} : thread'[v] = thread[v]
    BY <1>1, <1>3 DEF TypeOK
  <2>2. \A v \in Worker : Said(v)' = Said(v)
    BY <1>3 DEF Said
  <2>3. QED
    BY <1>3, <1>5, <1>6, <1>7, <2>1, <2>2 DEF KeepsOthers
<1>9. w \in draining => stage[w] \in {"draining", "shutdown", "terminating"}
  BY DEF MInv, Membership, DrainingHasLeft
<1>10. Moves(w)
  BY <1>3, <1>5, <1>6, <1>9 DEF Moves, UnderWayStages, Inited, Accounted, Running
<1>11. Unlatches(w)
  BY <1>4, <1>6 DEF Unlatches, UnderWayStages
<1>12. QED
  BY <1>8, <1>10, <1>11, MoveKeepsMembership

LEMMA SwappedKeepsMembership ==
  ASSUME MInv, IInv', NEW w \in Worker, Swapped(w)
  PROVE  Membership'
<1> DEFINE old == replaces[w]
           init == Call("init", "rotation")
<1>1. TypeOK /\ TypeOK' /\ InSlots \subseteq Worker
  BY SlotsAreWorkers DEF MInv, IInv
<1>2. /\ init \in pending[w] /\ Answers(w, init, Resolving)
      /\ old \in InSlots /\ ~destroyed
      /\ slots' = [i \in Slot |-> IF slots[i] = old THEN w ELSE slots[i]]
      /\ draining' = draining \cup {old}
      /\ stage' = [stage EXCEPT ![w] = "active", ![old] = "draining"]
      /\ UNCHANGED <<destroyed, spawned, rotating, replaces, stopping,
                     terminated, thread, status, home>>
  BY DEF Swapped, Answers, Wanted, Swap, txVars
<1>3. stage[w] = "initing" /\ stage[old] = "active" /\ old \in Worker /\ w # old
  BY <1>1, <1>2 DEF MInv, IInv, StagesMatchCalls
<1>4. w \notin InSlots /\ w \notin draining
  BY <1>3 DEF MInv, IInv, StagesMatchCalls, Membership, DrainingHasLeft
<1> HIDE DEF old
<1>5. \A v \in Worker : stage'[v] = CASE v = old -> "draining"
                                      [] v = w -> "active"
                                      [] OTHER -> stage[v]
  BY <1>1, <1>2, <1>3 DEF TypeOK
<1>6. \A v \in InSlots' : v = w \/ v \in InSlots \ {old}
  BY <1>2 DEF InSlots
<1>7. w \in InSlots' /\ \A v \in InSlots : v = old \/ v \in InSlots'
  BY <1>2 DEF InSlots
<1>8. /\ \A v \in Worker : Said(v)' \subseteq Said(v)
      /\ InitOk \in Said(w)
  <2>1. TypeOK /\ Answers(w, init, Resolving)
    BY <1>1, <1>2
  <2> HIDE DEF init
  <2>2. /\ \A v \in Worker : Said(v)' \subseteq Said(v)
        /\ \E r \in Resolving : [call |-> init, result |-> r] \in Said(w)
    BY <2>1, AnswersShrink
  <2>3. QED
    BY <2>2 DEF InitOk, Resolving, init
<1>9. Inited(w) /\ Inited(old)
  BY <1>3, <1>8 DEF MInv, Membership, ThreadsMatchStages
<1>10. ThreadsMatchStages'
  BY <1>2, <1>5, <1>8, <1>9 DEF MInv, Membership, ThreadsMatchStages, Inited
<1>11. DrainingHasLeft'
  <2>1. draining \subseteq Worker
    BY <1>1, SlotsAreWorkers
  <2>2. QED
    BY <1>2, <1>3, <1>4, <1>5, <2>1 DEF MInv, Membership, DrainingHasLeft
<1>12. SlotsDiffer'
  <2>1. \A i \in Slot : slots[i] # w
    BY <1>4 DEF InSlots
  <2>2. QED
    BY <1>2, <2>1 DEF MInv, Membership, SlotsDiffer
<1>13. UsersAreServed'
  <2> SUFFICES ASSUME NEW u \in Tx, status[u] \in Handles
               PROVE  stage'[home[u]] \in {"active", "draining"}
    BY <1>2 DEF UsersAreServed
  <2>1. home[u] \in Worker /\ stage[home[u]] \in {"active", "draining"}
    BY DEF MInv, IInv, CallsMatchHandles, Membership, UsersAreServed, Handles
  <2>2. QED
    BY <1>5, <2>1
<1>14. RotationsHaveAnOld'
  <2>1. \A v \in Worker : stage[v] \notin Coming => stage'[v] \notin Coming
    BY <1>5 DEF Coming
  <2>2. \A v \in Worker : stage'[v] \in {"booting", "initing"} => stage'[v] = stage[v]
    BY <1>5
  <2>3. QED
    BY <1>2, <2>1, <2>2 DEF MInv, Membership, RotationsHaveAnOld
<1>15. OneReplacement'
  <2> SUFFICES ASSUME NEW v \in InSlots'
               PROVE  Cardinality(UnderWay(v)') = IF rotating[v] THEN 1 ELSE 0
    BY <1>2 DEF OneReplacement
  <2>0. /\ \A n \in Worker : stage'[n] \in {"booting", "initing"} <=>
                              stage[n] \in {"booting", "initing"} /\ n # w
        /\ replaces' = replaces /\ replaces[w] = old
    <3>1. ASSUME NEW n \in Worker
          PROVE  stage'[n] \in {"booting", "initing"} <=>
                   stage[n] \in {"booting", "initing"} /\ n # w
      <4>1. CASE n = old
        BY <1>3, <1>5, <4>1
      <4>2. CASE n = w
        BY <1>3, <1>5, <4>2
      <4>3. CASE n # old /\ n # w
        BY <1>5, <4>3
      <4>4. QED
        BY <4>1, <4>2, <4>3
    <3>2. QED
      BY <1>2, <3>1 DEF old
  <2>1. CASE v = w
    <3>1. ~rotating[w] /\ UnderWay(w) = {}
      BY <1>3 DEF MInv, Membership, RotationsHaveAnOld, UnderWay, Coming
    <3>2. UnderWay(w)' \subseteq UnderWay(w)
      BY <2>0 DEF UnderWay
    <3>3. QED
      BY <2>1, <3>1, <3>2, FS_EmptySet
  <2>2. CASE v \in InSlots \ {old}
    <3>1. UnderWay(v)' = UnderWay(v)
      BY <2>0, <2>2 DEF UnderWay
    <3>2. QED
      BY <1>2, <2>2, <3>1 DEF MInv, Membership, OneReplacement
  <2>3. QED
    BY <1>6, <2>1, <2>2
<1>16. NoOrphanThread'
  <2> SUFFICES ASSUME NEW v \in Worker, thread[v] \in Running
               PROVE  \/ v \in InSlots' \cup draining'
                      \/ stopping[v] # "no" \/ v \in terminated
                      \/ stage'[v] \in {"booting", "initing", "discarding"}
    BY <1>2 DEF NoOrphanThread
  <2>1. \/ v \in InSlots \cup draining
        \/ stopping[v] # "no" \/ v \in terminated
        \/ stage[v] \in {"booting", "initing", "discarding"}
    BY DEF MInv, Membership, NoOrphanThread
  <2>2. QED
    BY <1>2, <1>5, <1>7, <2>1
<1>17. QED
  BY <1>10, <1>11, <1>12, <1>13, <1>14, <1>15, <1>16 DEF Membership

LEMMA DestroyKeepsMembership ==
  ASSUME MInv, Destroy
  PROVE  Membership'
<1>1. TypeOK /\ InSlots \subseteq Worker /\ draining \subseteq Worker
  BY SlotsAreWorkers DEF MInv, IInv
<1>2. /\ ~destroyed /\ destroyed' = TRUE /\ draining' = {}
      /\ stopping' = [v \in Worker |-> IF v \in Active THEN "shutdown"
                                                       ELSE stopping[v]]
      /\ UNCHANGED <<slots, spawned, rotating, stage, replaces, terminated,
                     thread, outbox, status, home>>
  BY DEF Destroy, txVars
<1>3. ThreadsMatchStages' /\ RotationsHaveAnOld' /\ UsersAreServed'
  BY <1>2 DEF MInv, Membership, ThreadsMatchStages, Inited, Said,
     RotationsHaveAnOld, UsersAreServed
<1>4. DrainingHasLeft' /\ SlotsDiffer' /\ OneReplacement'
  BY <1>2 DEF MInv, Membership, DrainingHasLeft, SlotsDiffer, OneReplacement
<1>5. NoOrphanThread'
  BY <1>2 DEF MInv, Membership, NoOrphanThread, Active
<1>6. QED
  BY <1>3, <1>4, <1>5 DEF Membership

-----------------------------------------------------------------------------
(* The steps of a thread: it starts to serve, or stops for good.           *)
ThreadsAdvance ==
  \A v \in Worker :
    /\ Inited(v) => Inited(v)'
    /\ thread[v] = "unspawned" => thread'[v] = "unspawned"
    /\ thread'[v] \in Running => thread[v] \in Running
    /\ InitOk \in Said(v)' => InitOk \in Said(v) \/ Inited(v)'

LEMMA ThreadMoves ==
  ASSUME TypeOK, NEW w \in Worker, Thread(w) \/ Crash(w)
  PROVE  UNCHANGED <<poolVars, slotVars, txVars>> /\ ThreadsAdvance
<1>1. UNCHANGED <<poolVars, slotVars, txVars>>
  BY DEF Thread, Crash, Exit, ThreadEnds, HandleInit, HandleNewTx, HandleClose,
         HandleOp, HandleShutdown
<1>2. ASSUME NEW c \in Calls, NEW r \in Results, Reply(w, c, r),
             \/ thread' = thread
             \/ thread' = [thread EXCEPT ![w] = "serving"]
             \/ thread' = [thread EXCEPT ![w] = "closed"],
             c = Call("init", "rotation") /\ r = "ok" => thread'[w] = "serving"
      PROVE  ThreadsAdvance
  <2>1. \A v \in Worker : Said(v)' = IF v = w
                                     THEN Said(w) \cup {[call |-> c, result |-> r]}
                                     ELSE Said(v)
    BY <1>2, ReplyIsSaid
  <2>2. InitOk = [call |-> c, result |-> r] => thread'[w] = "serving"
    BY <1>2 DEF InitOk
  <2>3. /\ thread[w] \in {"online", "serving"}
        /\ thread'[w] \in {thread[w], "serving", "closed"}
        /\ \A v \in Worker \ {w} : thread'[v] = thread[v]
    BY <1>2 DEF TypeOK, Reply
  <2>4. QED
    BY <2>1, <2>2, <2>3 DEF ThreadsAdvance, Inited, Running
<1>3. ASSUME NEW to \in {"dead", "failed"}, ThreadEnds(w, to),
             thread[w] \in Running \cup {"closed"}
      PROVE  ThreadsAdvance
  <2>1. /\ \A v \in Worker : thread'[v] = IF v = w THEN to ELSE thread[v]
        /\ outbox' = outbox
    BY <1>3 DEF ThreadEnds, TypeOK
  <2>2. QED
    BY <1>3, <2>1 DEF ThreadsAdvance, Inited, Running, Said
<1>4. CASE HandleInit(w)
  <2>1. Call("init", "rotation") \in Calls /\ {"ok", "error"} \subseteq Results
    BY DEF Call, Calls, Results
  <2>2. CASE Reply(w, Call("init", "rotation"), "error") /\ thread' = thread
    BY <1>1, <1>2, <2>1, <2>2
  <2>3. CASE /\ Reply(w, Call("init", "rotation"), "ok")
             /\ thread' = [thread EXCEPT ![w] = "serving"]
    <3>1. thread'[w] = "serving"
      BY <2>3 DEF TypeOK
    <3>2. QED
      BY <1>1, <1>2, <2>1, <2>3, <3>1
  <2>4. QED
    BY <1>4, <2>2, <2>3 DEF HandleInit
<1>5. ASSUME NEW t \in Tx, HandleNewTx(w, t)
      PROVE  ThreadsAdvance
  <2>1. /\ Call("newTx", t) \in Calls /\ {"ok", "error"} \subseteq Results
        /\ Call("newTx", t) # Call("init", "rotation")
    BY CallsDiffer DEF Call, Calls, Results
  <2>2. QED
    BY <1>2, <1>5, <2>1 DEF HandleNewTx
<1>6. ASSUME NEW t \in Tx, HandleClose(w, t)
      PROVE  ThreadsAdvance
  <2>1. /\ Call("close", t) \in Calls /\ {"ok", "error"} \subseteq Results
        /\ Call("close", t) # Call("init", "rotation")
    BY CallsDiffer DEF Call, Calls, Results
  <2>2. QED
    BY <1>2, <1>6, <2>1 DEF HandleClose
<1>7. ASSUME NEW t \in Tx, NEW kind \in OpKinds, HandleOp(w, t, kind)
      PROVE  ThreadsAdvance
  <2>1. /\ Call(kind, t) \in Calls /\ {"ok", "unknown tx"} \subseteq Results
        /\ Call(kind, t) # Call("init", "rotation")
    BY CallsDiffer DEF Call, Calls, Results, OpKinds
  <2>2. QED
    BY <1>2, <1>7, <2>1 DEF HandleOp
<1>8. ASSUME NEW by \in {"rotation", "destroy"}, HandleShutdown(w, by)
      PROVE  ThreadsAdvance
  <2>1. /\ Call("shutdown", by) \in Calls /\ {"ok", "error"} \subseteq Results
        /\ Call("shutdown", by) # Call("init", "rotation")
    BY CallsDiffer DEF Call, Calls, Results
  <2>2. QED
    BY <1>2, <1>8, <2>1 DEF HandleShutdown
<1>9. CASE Exit(w) \/ Crash(w)
  BY <1>1, <1>3, <1>9 DEF Exit, Crash
<1>10. ThreadsAdvance
  BY <1>4, <1>5, <1>6, <1>7, <1>8, <1>9 DEF Thread
<1>11. QED
  BY <1>1, <1>10

LEMMA ThreadKeepsMembership ==
  ASSUME MInv, NEW w \in Worker, Thread(w) \/ Crash(w)
  PROVE  Membership'
<1>1. TypeOK
  BY DEF MInv, IInv
<1>2. /\ UNCHANGED <<mvars, status, home>>
      /\ ThreadsAdvance
  BY <1>1, ThreadMoves DEF mvars, poolVars, slotVars, txVars
<1>3. ThreadsMatchStages'
  BY <1>2 DEF MInv, Membership, ThreadsMatchStages, ThreadsAdvance, mvars
<1>4. NoOrphanThread'
  BY <1>2 DEF MInv, Membership, NoOrphanThread, ThreadsAdvance, InSlots, mvars
<1>5. OneReplacement'
  BY <1>2 DEF MInv, Membership, OneReplacement, UnderWay, InSlots, mvars
<1>6. QED
  BY <1>2, <1>3, <1>4, <1>5 DEF MInv, Membership, DrainingHasLeft,
     UsersAreServed, RotationsHaveAnOld, SlotsDiffer, mvars

-----------------------------------------------------------------------------

LEMMA MembershipAtFirst ==
  ASSUME Init, TypeOK
  PROVE  Membership
<1>1. /\ slots = [i \in Slot |-> i] /\ draining = {} /\ spawned = Size
      /\ ~destroyed
      /\ \A w \in Worker : /\ ~rotating[w] /\ outbox[w] = <<>>
                           /\ stage[w] = IF w \in Slot THEN "active" ELSE "unspawned"
                           /\ thread[w] = IF w \in Slot THEN "serving" ELSE "unspawned"
      /\ \A t \in Tx : status[t] = "idle"
  BY DEF Init
<1>2. InSlots = Slot /\ Slot \subseteq Worker
  <2>1. InSlots = Slot
    BY <1>1 DEF InSlots
  <2>2. QED
    BY <2>1, SlotsAreWorkers
<1>3. ThreadsMatchStages
  <2>1. \A w \in Worker : w > spawned => w \notin Slot
    BY <1>1, SizeAssumption DEF Slot, Worker
  <2>2. QED
    BY <1>1, <2>1 DEF ThreadsMatchStages, Inited, Said
<1>4. DrainingHasLeft /\ UsersAreServed /\ RotationsHaveAnOld /\ SlotsDiffer
  BY <1>1 DEF DrainingHasLeft, UsersAreServed, Handles, RotationsHaveAnOld,
     SlotsDiffer
<1>5. OneReplacement
  <2>1. \A w \in Worker : UnderWay(w) = {}
    BY <1>1 DEF UnderWay
  <2>2. QED
    BY <1>1, <1>2, <2>1, FS_EmptySet DEF OneReplacement
<1>6. NoOrphanThread
  BY <1>1, <1>2 DEF NoOrphanThread, Running
<1>7. QED
  BY <1>3, <1>4, <1>5, <1>6 DEF Membership

LEMMA StepKeepsMembership ==
  ASSUME MInv, IInv', [Next]_vars
  PROVE  Membership'
<1>1. TypeOK'
  BY DEF IInv
<1>2. CASE UNCHANGED vars
  <2>1. UNCHANGED <<mvars, thread, outbox, status, home>>
    BY <1>2 DEF vars, mvars, poolVars, slotVars, threadVars, txVars
  <2>2. \A v \in Worker : Said(v)' \subseteq Said(v)
    BY <2>1 DEF Said
  <2>3. QED
    BY <2>1, <2>2, CallsKeepMembership DEF MInv
<1>3. ASSUME NEW w \in Worker, Main(w)
      PROVE  Membership'
  <2>1. ASSUME Dropped(w)
        PROVE  Membership'
    <3>1. UNCHANGED <<mvars, thread, status, home>>
      BY <2>1 DEF Dropped, mvars, poolVars, slotVars, txVars
    <3>2. \A v \in Worker : Said(v)' \subseteq Said(v)
      BY <2>1, DroppedShrinks DEF MInv, IInv
    <3>3. QED
      BY <3>1, <3>2, CallsKeepMembership DEF MInv
  <2>2. QED
    BY <1>1, <1>3, <2>1, CallEndsKeepsMembership, RotationKeepsMembership,
       ReplacementKeepsMembership, RetirementKeepsMembership,
       DeathKeepsMembership, SwappedKeepsMembership DEF Main
<1>4. QED
  BY <1>2, <1>3, ClientKeepsMembership, DestroyKeepsMembership,
     ThreadKeepsMembership DEF Next

(* The invariant that carries the argument.                                *)
THEOREM MembershipHolds == Spec => []MInv
<1>1. Init /\ TypeOK => Membership
  BY MembershipAtFirst
<1>2. IInv /\ Membership /\ IInv' /\ [Next]_vars => Membership'
  BY StepKeepsMembership DEF MInv
<1>3. QED
  BY <1>1, <1>2, InvariantHolds, TypeCorrect, PTL DEF Spec, MInv

(* For pools, traffic and faults of every size: the slots hold different   *)
(* workers, each past its init and none of them being drained, although a  *)
(* replacement enters a slot on its word alone.                            *)
THEOREM SlotsAreAlwaysReady == Spec => []SlotsAreInitialised
<1>1. MInv => SlotsAreInitialised
  <2> SUFFICES ASSUME MInv PROVE SlotsAreInitialised
    OBVIOUS
  <2>1. \A w \in InSlots : w \in Worker /\ stage[w] = "active"
    BY SlotsAreWorkers DEF MInv, IInv, StagesMatchCalls
  <2>2. \A w \in InSlots : w \notin draining /\ Inited(w)
    BY <2>1 DEF MInv, Membership, DrainingHasLeft, ThreadsMatchStages
  <2>3. QED
    BY <2>1, <2>2 DEF SlotsAreInitialised, Inited, MInv, Membership, SlotsDiffer
<1>2. QED
  BY <1>1, MembershipHolds, PTL

(* The rotation latch neither sticks nor lets a second rotation of the     *)
(* same worker start, whichever way the replacement ends.                  *)
THEOREM RotationIsSingle == Spec => []OneReplacement
BY MembershipHolds, PTL DEF MInv, Membership

(* No thread that runs is out of the reach of destroy() or of a rotation.  *)
THEOREM ThreadsAreAccounted == Spec => []NoOrphanThread
BY MembershipHolds, PTL DEF MInv, Membership

-----------------------------------------------------------------------------
(***************************************************************************)
(* The pool before its first handle.  Until a call of newTransaction() has *)
(* been answered the pool is the one create() made: nothing is busy, so    *)
(* each call takes the slot whose turn it is.                              *)
(***************************************************************************)

Unopened == \A t \in Tx : status[t] \in {"idle", "opening"}

FirstCalls ==
  Unopened =>
    /\ slots = [i \in Slot |-> i]
    /\ \A w \in Worker : stage[w] \in {"active", "unspawned"}
    /\ Cardinality(Opening) < Size => rr = Cardinality(Opening)
    /\ Cardinality(Opening) <= Size =>
         {home[t] : t \in Opening} = 1 .. Cardinality(Opening)

LEMMA SameFirstCalls ==
  ASSUME FirstCalls, UNCHANGED <<slots, rr, stage, status, home>>
  PROVE  FirstCalls'
BY DEF FirstCalls, Unopened, Opening

(* The k-th call goes to the k-th slot.                                    *)
LEMMA CallTakesItsTurn ==
  ASSUME IInv, FirstCalls, NEW t \in Tx, NewTransaction(t)
  PROVE  FirstCalls'
<1> DEFINE k == Cardinality(Opening)
<1>1. TypeOK
  BY DEF IInv
<1>2. IsFiniteSet(Opening) /\ k \in Nat
  <2>1. Opening \subseteq Tx
    BY DEF Opening
  <2>2. QED
    BY <2>1, TxAssumption, FS_Subset, FS_CardinalityType
<1>3. /\ status[t] = "idle" /\ status' = [status EXCEPT ![t] = "opening"]
      /\ home' = [home EXCEPT ![t] = PickSlot] /\ rr' = (rr + 1) % Size
      /\ UNCHANGED <<slots, stage>>
  BY DEF NewTransaction, NextTurn
<1>4. Opening' = Opening \cup {t} /\ t \notin Opening
  BY <1>1, <1>3 DEF Opening, TypeOK
<1>5. Cardinality(Opening)' = k + 1
  BY <1>2, <1>4, FS_AddElement
<1>6. Unopened' => Unopened
  BY <1>1, <1>3 DEF Unopened, TypeOK
<1>7. ASSUME Unopened, k < Size
      PROVE  PickSlot = k + 1
  <2>1. slots = [i \in Slot |-> i] /\ rr = k
    BY <1>7 DEF FirstCalls
  <2>2. \A w \in Worker : busy[w] = 0
    <3>1. \A w \in Worker : Held(w) = {}
      BY <1>7 DEF Held, Unopened
    <3>2. Cardinality({}) = 0
      BY FS_EmptySet
    <3>3. QED
      BY <3>1, <3>2 DEF IInv, BusyCountsHandles
  <2>3. \A i \in Slot : slots[i] = i /\ i \in Worker
    BY <1>1, <2>1 DEF TypeOK
  <2>4. k + 1 \in Slot
    BY <1>2, <1>7, SizeAssumption DEF Slot
  <2>5. k + 1 \in {i \in Slot : \A j \in Slot : busy[slots[i]] <= busy[slots[j]]}
    BY <2>2, <2>3, <2>4
  <2>6. QED
    BY <2>1, <2>3, <2>4, <2>5 DEF PickSlot
<1>8. ASSUME Unopened, k + 1 < Size
      PROVE  rr' = k + 1
  <2>1. rr = k
    BY <1>2, <1>8, SizeAssumption DEF FirstCalls
  <2>2. (k + 1) % Size = k + 1
    BY <1>2, <1>8, SizeAssumption
  <2>3. QED
    BY <1>3, <2>1, <2>2
<1>9. ASSUME Unopened, k + 1 <= Size
      PROVE  {home'[u] : u \in Opening'} = 1 .. k + 1
  <2>1. {home[u] : u \in Opening} = 1 .. k
    BY <1>2, <1>9, SizeAssumption DEF FirstCalls
  <2>2. PickSlot = k + 1
    BY <1>2, <1>7, <1>9, SizeAssumption
  <2>3. home'[t] = k + 1 /\ \A u \in Opening : home'[u] = home[u]
    BY <1>1, <1>3, <1>4, <2>2 DEF TypeOK, Opening
  <2>4. {home'[u] : u \in Opening'} = {home[u] : u \in Opening} \cup {k + 1}
    BY <1>4, <2>3
  <2>5. 1 .. k + 1 = (1 .. k) \cup {k + 1}
    BY <1>2
  <2>6. QED
    BY <2>1, <2>4, <2>5
<1> HIDE DEF k
<1>10. QED
  BY <1>3, <1>5, <1>6, <1>8, <1>9 DEF FirstCalls

(* A step that answers a call gives out a handle or refuses one.           *)
LEMMA StepKeepsFirstCalls ==
  ASSUME IInv, FirstCalls, [Next]_vars
  PROVE  FirstCalls'
<1>1. TypeOK
  BY DEF IInv
<1>2. ASSUME NEW t \in Tx, Client(t)
      PROVE  FirstCalls'
  <2>1. CASE NewTransactionDestroyed(t) \/ Close(t)
    <3>1. status'[t] \in {"failed", "closing"}
      BY <1>1, <2>1 DEF NewTransactionDestroyed, Close, TypeOK
    <3>2. QED
      BY <3>1 DEF FirstCalls, Unopened
  <2>2. ASSUME NEW kind \in OpKinds, Operate(t, kind)
        PROVE  FirstCalls'
    BY <2>2, SameFirstCalls DEF Operate, poolVars, txVars
  <2>3. QED
    BY <1>2, <2>1, <2>2, CallTakesItsTurn DEF Client
<1>3. CASE Destroy
  BY <1>3, SameFirstCalls DEF Destroy, txVars
<1>4. ASSUME NEW w \in Worker, Thread(w) \/ Crash(w)
      PROVE  FirstCalls'
  <2>1. UNCHANGED <<slots, rr, stage, status, home>>
    BY <1>4 DEF Thread, Crash, HandleInit, HandleNewTx, HandleClose, HandleOp,
       HandleShutdown, Exit, ThreadEnds, poolVars, slotVars, txVars
  <2>2. QED
    BY <2>1, SameFirstCalls
<1>5. ASSUME NEW w \in Worker, Main(w)
      PROVE  FirstCalls'
  <2>1. ASSUME NEW t \in Tx, Opened(w, t) \/ OpenFailed(w, t) \/ Closed(w, t)
        PROVE  FirstCalls'
    <3>1. status'[t] \in {"open", "failed", "closed"}
      BY <1>1, <2>1 DEF Opened, OpenFailed, Closed, TypeOK
    <3>2. QED
      BY <3>1 DEF FirstCalls, Unopened
  <2>2. ASSUME \/ \E t \in Tx, kind \in OpKinds : Operated(w, t, kind)
               \/ Dropped(w) \/ DestroyShutDown(w)
        PROVE  UNCHANGED <<slots, rr, stage, status, home>>
    BY <2>2 DEF Operated, Dropped, DestroyShutDown, poolVars, slotVars, txVars
  <2>3. ASSUME \/ Online(w) \/ Swapped(w) \/ TooLate(w) \/ GiveUp(w)
               \/ Drained(w) \/ ShutDown(w)
        PROVE  FirstCalls'
    <3>1. stage[w] \notin {"active", "unspawned"}
      BY <2>3 DEF Online, Swapped, TooLate, GiveUp, Drained, ShutDown, Answers,
         IInv, StagesMatchCalls
    <3>2. status' = status
      BY <2>3 DEF Online, Swapped, TooLate, GiveUp, Drained, ShutDown, txVars
    <3>3. QED
      BY <3>1, <3>2 DEF FirstCalls, Unopened
  <2>4. ASSUME ErrorEvent(w) \/ ExitEvent(w)
        PROVE  FirstCalls'
    <3>1. PICK gone \in BOOLEAN : RejectPending(w, gone)
      BY <2>4 DEF ErrorEvent, ExitEvent
    <3>2. UNCHANGED <<slots, rr, home>>
      BY <2>4 DEF ErrorEvent, ExitEvent
    <3>3. \A t \in Tx : status'[t] # status[t] => status'[t] \in {"failed", "closed"}
      BY <3>1 DEF RejectPending
    <3>4. status' \in [Tx -> Statuses] /\ status \in [Tx -> Statuses]
      BY <1>1, <3>1, RejectPendingTypes DEF TypeOK
    <3>5. Unopened' => status' = status
      BY <3>3, <3>4 DEF Unopened
    <3>6. stage[w] \in {"active", "unspawned"} => stage' = stage
      BY <1>1, <3>1 DEF RejectPending, TypeOK
    <3>7. QED
      BY <3>2, <3>5, <3>6, SameFirstCalls DEF FirstCalls, Unopened
  <2>5. QED
    BY <1>5, <2>1, <2>2, <2>3, <2>4, SameFirstCalls DEF Main
<1>6. CASE UNCHANGED vars
  BY <1>6, SameFirstCalls DEF vars, poolVars, slotVars, txVars
<1>7. QED
  BY <1>2, <1>3, <1>4, <1>5, <1>6 DEF Next

LEMMA FirstCallsAtFirst ==
  ASSUME Init
  PROVE  FirstCalls
<1>1. Opening = {} /\ Cardinality(Opening) = 0
  BY FS_EmptySet DEF Init, Opening
<1>2. {home[t] : t \in Opening} = 1 .. 0
  BY <1>1
<1>3. QED
  BY <1>1, <1>2, SizeAssumption DEF FirstCalls, Init

(* PrewarmReachesEveryWorker: as many concurrent calls as the pool has     *)
(* slots reach every worker, for pools of every size, although busy is     *)
(* still 0 everywhere.                                                     *)
THEOREM PrewarmIsComplete == Spec => []PrewarmReachesEveryWorker
<1>1. FirstCalls => PrewarmReachesEveryWorker
  <2> SUFFICES ASSUME FirstCalls, Unopened, Cardinality(Opening) = Size
               PROVE  {home[t] : t \in Opening} = InSlots
    BY DEF PrewarmReachesEveryWorker, Unopened
  <2>1. {home[t] : t \in Opening} = 1 .. Size
    BY SizeAssumption DEF FirstCalls
  <2>2. InSlots = {i : i \in Slot}
    BY DEF FirstCalls, InSlots
  <2>3. QED
    BY <2>1, <2>2 DEF Slot
<1>2. Init => FirstCalls
  BY FirstCallsAtFirst
<1>3. IInv /\ FirstCalls /\ [Next]_vars => FirstCalls'
  BY StepKeepsFirstCalls
<1>4. QED
  BY <1>1, <1>2, <1>3, InvariantHolds, PTL DEF Spec
=============================================================================
