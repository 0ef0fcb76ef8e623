------------------------------- MODULE WAFPool -------------------------------
(***************************************************************************)
(* The worker pool of @coraza/core: packages/core/src/pool.ts on the main  *)
(* thread and packages/core/src/pool-worker.ts in every worker thread,     *)
(* from the moment create() has its first slots until every thread is      *)
(* gone.                                                                   *)
(*                                                                         *)
(* One action is one JavaScript macrotask: a call by the program that uses *)
(* the pool, one event of a worker delivered to the main thread with all   *)
(* the promise continuations it releases, one 5 ms poll of waitForDrain,   *)
(* or one message taken by a worker.  A MessagePort is a FIFO queue in     *)
(* each direction.                                                         *)
(*                                                                         *)
(* A worker and the WorkerSlot that wraps it are one member of Worker,     *)
(* numbered in the order in which they are spawned.  A member of Tx is one *)
(* call of newTransaction() together with the WorkerTransaction it yields  *)
(* and, in the worker, the Transaction registered under its txId.          *)
(***************************************************************************)
EXTENDS Integers, FiniteSets, Sequences

CONSTANTS
  Tx,           (* newTransaction() calls; the bound on the pool's traffic *)
  Size,         (* number of slots                                         *)
  MaxWorkers,   (* bound on the workers ever spawned                       *)
  MaxRequests,  (* maxRequestsPerWorker; 0 stands for Infinity             *)
  OpTx,         (* the handles on which other methods are called too       *)
  Faults        (* what may go wrong in a worker: see FaultKinds           *)

(* "init", "newTx", "shutdown": the handler of that message throws;        *)
(* "logging", "destroyTx": in the handler of close, tx.processLogging()    *)
(* throws, tx.close() does (a trap of tx_destroy); "exit": the thread ends *)
(* on its own (process.exit); "error": it dies of an uncaught exception.   *)
FaultKinds == {"init", "newTx", "logging", "destroyTx", "shutdown", "exit",
               "error"}

ASSUME SizeAssumption == Size \in Nat \ {0}
ASSUME RequestsAssumption == MaxRequests \in Nat
ASSUME TxAssumption == IsFiniteSet(Tx)
(* Every rotation is triggered by the reply to another newTransaction(),   *)
(* so this many workers never run out.                                     *)
ASSUME WorkersAssumption ==
  MaxWorkers \in Nat /\ MaxWorkers >= Size + Cardinality(Tx)
ASSUME KindsAssumption ==
  OpTx \subseteq Tx /\ Faults \subseteq FaultKinds

Worker == 1 .. MaxWorkers
Slot == 1 .. Size

VARIABLES
  (* The WAFPool object.                                                   *)
  slots,       (* #slots                                                   *)
  rr,          (* #rr, modulo the number of slots                          *)
  destroyed,   (* #destroyed                                               *)
  draining,    (* #draining                                                *)
  spawned,     (* how many workers spawnSlot() has made                    *)
  (* Each WorkerSlot, and how far the async functions that hold it are.    *)
  busy, requests, rotating,
  pending,     (* the calls in its pending map                             *)
  stage,       (* its life: see Stages                                     *)
  replaces,    (* the slot it was spawned to replace, or 0                 *)
  stopping,    (* where destroy() is with it                               *)
  terminated,  (* the workers on which terminate() was called              *)
  (* Each worker thread and its two queues.                                *)
  thread, inbox, outbox,
  txs,         (* the transactions in its txs map                          *)
  spent,       (* those whose tx.close() has thrown: #closed is set in the *)
               (* worker, although nothing took them out of the map        *)
  (* Each transaction handle.                                              *)
  status, home

poolVars   == <<slots, rr, destroyed, draining, spawned>>
slotVars   == <<busy, requests, rotating, pending, stage, replaces,
                stopping, terminated>>
threadVars == <<thread, inbox, outbox, txs, spent>>
txVars     == <<status, home>>
vars       == <<poolVars, slotVars, threadVars, txVars>>

-----------------------------------------------------------------------------
(* The life of a slot, as the functions of pool.ts that hold it see it:    *)
(*   booting     #scheduleRotation awaits slot.ready                       *)
(*   initing     ... awaits the reply to init                              *)
(*   failed      ... has given it up and terminated it                     *)
(*   active      in #slots                                                 *)
(*   draining    replaced; waitForDrain polls it                           *)
(*   shutdown    drained; the reply to shutdown is awaited                 *)
(*   terminating worker.terminate() is awaited                             *)
(*   retired     the rotation is complete                                  *)
(*   discarding  a replacement that came too late: shutdown is awaited     *)
(*   discarded   ... and terminate() was called                            *)
Stages == {"unspawned", "booting", "initing", "failed", "active", "draining",
           "shutdown", "terminating", "retired", "discarding", "discarded"}

(* A thread: starting (not online), online (waf is null), serving (waf is  *)
(* set), closed (parentPort.close() was called), failed (an uncaught       *)
(* exception, 'error' not yet delivered), dead ('exit' not yet delivered), *)
(* gone ('exit' was delivered).                                            *)
Running == {"starting", "online", "serving"}
Threads == Running \cup {"unspawned", "closed", "failed", "dead", "gone"}

(* A handle: idle (no call yet), opening (newTx in flight), open, closing  *)
(* (close() called: #closed is set), closed, failed (newTransaction()      *)
(* rejected).                                                              *)
Statuses == {"idle", "opening", "open", "closing", "closed", "failed"}

Call(op, of) == [op |-> op, of |-> of]
Calls == [op : {"newTx", "close", "proc", "reset"}, of : Tx]
           \cup [op : {"init", "shutdown"}, of : {"rotation", "destroy"}]
Results == {"ok", "unknown tx", "error"}
Replies == [call : Calls, result : Results]

InSlots == {slots[i] : i \in Slot}
Answered(w) == {outbox[w][i].call : i \in DOMAIN outbox[w]}

(* callSlot(): the call is pending, and its message is queued unless the   *)
(* port has nobody left to read it.                                        *)
Post(w, c) ==
  /\ pending' = [pending EXCEPT ![w] = @ \cup {c}]
  /\ inbox' = IF thread[w] \in Running
              THEN [inbox EXCEPT ![w] = Append(@, c)]
              ELSE inbox

(* The finally of close(), k times: Math.max(0, busy - 1).                 *)
ReleasedNever(n, k) == n
Released(n, k) == IF n >= k THEN n - k ELSE 0

-----------------------------------------------------------------------------
(* The slots hold Size initialised workers: create() at `new WAFPool`.     *)
Init ==
  /\ slots = [i \in Slot |-> i]
  /\ rr = 0 /\ destroyed = FALSE /\ draining = {} /\ spawned = Size
  /\ busy = [w \in Worker |-> 0]
  /\ requests = [w \in Worker |-> 0]
  /\ rotating = [w \in Worker |-> FALSE]
  /\ pending = [w \in Worker |-> {}]
  /\ stage = [w \in Worker |-> IF w \in Slot THEN "active" ELSE "unspawned"]
  /\ replaces = [w \in Worker |-> 0]
  /\ stopping = [w \in Worker |-> "no"]
  /\ terminated = {}
  /\ thread = [w \in Worker |-> IF w \in Slot THEN "serving" ELSE "unspawned"]
  /\ inbox = [w \in Worker |-> <<>>]
  /\ outbox = [w \in Worker |-> <<>>]
  /\ txs = [w \in Worker |-> {}]
  /\ spent = {}
  /\ status = [t \in Tx |-> "idle"]
  /\ home = [t \in Tx |-> 0]

-----------------------------------------------------------------------------
(* The program that uses the pool.                                         *)

(* #pickSlot: the slot whose turn it is unless another is strictly less    *)
(* busy, then the first of the least busy.                                 *)
PickSlot ==
  LET least == {i \in Slot : \A j \in Slot : busy[slots[i]] <= busy[slots[j]]}
  IN  IF rr + 1 \in least
      THEN slots[rr + 1]
      ELSE slots[CHOOSE i \in least : \A j \in least : i <= j]

(* this.#rr++, which indexes #slots modulo its length.                     *)
NoNextTurn == rr
NextTurnUnwrapped == rr + 1
NextTurn == (rr + 1) % Size

AcceptingAlways == TRUE
Accepting == ~destroyed

NewTransaction(t) ==
  /\ status[t] = "idle"
  /\ Accepting
  /\ LET w == PickSlot IN
       /\ requests' = [requests EXCEPT ![w] = @ + 1]
       /\ rr' = NextTurn
       /\ Post(w, Call("newTx", t))
       /\ home' = [home EXCEPT ![t] = w]
  /\ status' = [status EXCEPT ![t] = "opening"]
  /\ UNCHANGED <<slots, destroyed, draining, spawned, busy, rotating, stage,
                 replaces, stopping, terminated, thread, outbox, txs, spent>>

NewTransactionDestroyed(t) ==
  /\ status[t] = "idle"
  /\ destroyed
  /\ status' = [status EXCEPT ![t] = "failed"]
  /\ UNCHANGED <<poolVars, slotVars, threadVars, home>>

(* Any other method of the handle: reset() and processLogging() ("reset")  *)
(* test #closed and post only before close(), the others ("proc") post     *)
(* after it too.  Bound: a handle has at most one such call under way.     *)
OpKinds == {"proc", "reset"}
OperableClosed(kind) == {"open", "closing", "closed"}
Operable(kind) == IF kind = "reset" THEN {"open"}
                                    ELSE {"open", "closing", "closed"}

Operate(t, kind) ==
  LET w == home[t] IN
  /\ t \in OpTx
  /\ status[t] \in Operable(kind)
  /\ \A k \in OpKinds : Call(k, t) \notin pending[w] \cup Answered(w)
  /\ Post(w, Call(kind, t))
  /\ UNCHANGED <<poolVars, busy, requests, rotating, stage, replaces,
                 stopping, terminated, thread, outbox, txs, spent, txVars>>

(* close(): the first call; every later one returns at once.               *)
Close(t) ==
  /\ status[t] = "open"
  /\ status' = [status EXCEPT ![t] = "closing"]
  /\ Post(home[t], Call("close", t))
  /\ UNCHANGED <<poolVars, busy, requests, rotating, stage, replaces,
                 stopping, terminated, thread, outbox, txs, spent, home>>

(* [...this.#slots, ...this.#draining]                                     *)
ActiveInSlots == InSlots
Active == InSlots \cup draining

Destroy ==
  LET c == Call("shutdown", "destroy") IN
  /\ ~destroyed
  /\ destroyed' = TRUE
  /\ draining' = {}
  /\ pending' = [w \in Worker |-> IF w \in Active THEN pending[w] \cup {c}
                                                  ELSE pending[w]]
  /\ inbox' = [w \in Worker |-> IF w \in Active /\ thread[w] \in Running
                                THEN Append(inbox[w], c) ELSE inbox[w]]
  /\ stopping' = [w \in Worker |-> IF w \in Active THEN "shutdown"
                                                   ELSE stopping[w]]
  /\ UNCHANGED <<slots, rr, spawned, busy, requests, rotating, stage,
                 replaces, terminated, thread, outbox, txs, spent, txVars>>

-----------------------------------------------------------------------------
(* Worker events on the main thread.                                       *)

(* The next message of w answers the pending call c with one of results.   *)
Answers(w, c, results) ==
  /\ outbox[w] # <<>>
  /\ Head(outbox[w]).call = c /\ Head(outbox[w]).result \in results
  /\ c \in pending[w]
  /\ outbox' = [outbox EXCEPT ![w] = Tail(@)]

Settle(w, c) == pending' = [pending EXCEPT ![w] = @ \ {c}]

(* The threshold test after the handoff.                                   *)
RotationDueAgain(w) == MaxRequests # 0 /\ requests[w] >= MaxRequests
RotationDuePast(w) ==
  ~rotating[w] /\ MaxRequests # 0 /\ requests[w] > MaxRequests
RotationDue(w) ==
  ~rotating[w] /\ MaxRequests # 0 /\ requests[w] >= MaxRequests

(* newTransaction() goes on: the handle exists, and the slot is rotated    *)
(* out when it has had its share of requests.                              *)
Opened(w, t) ==
  /\ Answers(w, Call("newTx", t), {"ok"})
  /\ Settle(w, Call("newTx", t))
  /\ status' = [status EXCEPT ![t] = "open"]
  /\ busy' = [busy EXCEPT ![w] = @ + 1]
  /\ IF RotationDue(w)
     THEN LET n == spawned + 1 IN
          /\ n \in Worker
          /\ rotating' = [rotating EXCEPT ![w] = TRUE]
          /\ spawned' = n
          /\ stage' = [stage EXCEPT ![n] = "booting"]
          /\ thread' = [thread EXCEPT ![n] = "starting"]
          /\ replaces' = [replaces EXCEPT ![n] = w]
     ELSE UNCHANGED <<rotating, spawned, stage, thread, replaces>>
  /\ UNCHANGED <<slots, rr, destroyed, draining, requests, stopping,
                 terminated, inbox, txs, spent, home>>

OpenFailed(w, t) ==
  /\ Answers(w, Call("newTx", t), {"error"})
  /\ Settle(w, Call("newTx", t))
  /\ status' = [status EXCEPT ![t] = "failed"]
  /\ UNCHANGED <<poolVars, busy, requests, rotating, stage, replaces,
                 stopping, terminated, thread, inbox, txs, spent, home>>

Operated(w, t, kind) ==
  /\ Answers(w, Call(kind, t), Results)
  /\ Settle(w, Call(kind, t))
  /\ UNCHANGED <<poolVars, busy, requests, rotating, stage, replaces,
                 stopping, terminated, thread, inbox, txs, spent, txVars>>

(* The finally of close(): whatever the worker answered.                   *)
Closed(w, t) ==
  /\ Answers(w, Call("close", t), Results)
  /\ Settle(w, Call("close", t))
  /\ status' = [status EXCEPT ![t] = "closed"]
  /\ busy' = [busy EXCEPT ![w] = Released(@, 1)]
  /\ UNCHANGED <<poolVars, requests, rotating, stage, replaces, stopping,
                 terminated, thread, inbox, txs, spent, home>>

(* A reply nobody waits for: 'error' has rejected its call already.        *)
Dropped(w) ==
  /\ outbox[w] # <<>> /\ Head(outbox[w]).call \notin pending[w]
  /\ outbox' = [outbox EXCEPT ![w] = Tail(@)]
  /\ UNCHANGED <<poolVars, slotVars, thread, inbox, txs, spent, txVars>>

(* 'online' resolves slot.ready; the rotation posts init.                  *)
Online(w) ==
  /\ thread[w] = "starting" /\ stage[w] = "booting"
  /\ thread' = [thread EXCEPT ![w] = "online"]
  /\ stage' = [stage EXCEPT ![w] = "initing"]
  /\ Post(w, Call("init", "rotation"))
  /\ UNCHANGED <<poolVars, busy, requests, rotating, replaces, stopping,
                 terminated, outbox, txs, spent, txVars>>

(* Is the replacement w still wanted when its init is acknowledged?        *)
WantedAlways(w) == replaces[w] \in InSlots
Wanted(w) == replaces[w] \in InSlots /\ ~destroyed

(* this.#slots[idx] = replacement                                          *)
SwapFirst(old, w) == [slots EXCEPT ![1] = w]
Swap(old, w) == [i \in Slot |-> IF slots[i] = old THEN w ELSE slots[i]]

(* The answers that resolve the promise of callSlot.                       *)
AnyAnswer == Results
Resolving == {"ok"}

(* The replacement is initialised: swap it in and drain the old slot, or   *)
(* get rid of it when the pool was destroyed in the meantime.              *)
Swapped(w) ==
  LET old == replaces[w] IN
  /\ Answers(w, Call("init", "rotation"), Resolving)
  /\ Wanted(w)
  /\ Settle(w, Call("init", "rotation"))
  /\ slots' = Swap(old, w)
  /\ draining' = draining \cup {old}
  /\ stage' = [stage EXCEPT ![w] = "active", ![old] = "draining"]
  /\ UNCHANGED <<rr, destroyed, spawned, busy, requests, rotating, replaces,
                 stopping, terminated, thread, inbox, txs, spent, txVars>>

TooLate(w) ==
  /\ Answers(w, Call("init", "rotation"), Resolving)
  /\ ~Wanted(w)
  /\ pending' = [pending EXCEPT ![w] = (@ \ {Call("init", "rotation")})
                                         \cup {Call("shutdown", "rotation")}]
  /\ inbox' = IF thread[w] \in Running
              THEN [inbox EXCEPT ![w] = Append(@, Call("shutdown", "rotation"))]
              ELSE inbox
  /\ stage' = [stage EXCEPT ![w] = "discarding"]
  /\ UNCHANGED <<poolVars, busy, requests, rotating, replaces, stopping,
                 terminated, thread, txs, spent, txVars>>

(* old.rotating = false                                                    *)
LatchedStill(w) == rotating
Unlatched(w) == [rotating EXCEPT ![replaces[w]] = FALSE]

(* The replacement failed: the old worker stays, and may be rotated again. *)
GiveUp(w) ==
  /\ Answers(w, Call("init", "rotation"), {"error"})
  /\ Settle(w, Call("init", "rotation"))
  /\ rotating' = Unlatched(w)
  /\ stage' = [stage EXCEPT ![w] = "failed"]
  /\ terminated' = terminated \cup {w}
  /\ UNCHANGED <<poolVars, busy, requests, replaces, stopping, thread, inbox,
                 txs, spent, txVars>>

(* The condition waitForDrain polls for.                                   *)
QuietBusy(w) == busy[w] = 0
QuietPending(w) == pending[w] = {}
Quiet(w) == busy[w] = 0 /\ pending[w] = {}

(* waitForDrain's poll finds the slot quiet, and shutdown is posted.       *)
Drained(w) ==
  /\ stage[w] = "draining" /\ Quiet(w)
  /\ stage' = [stage EXCEPT ![w] = "shutdown"]
  /\ Post(w, Call("shutdown", "rotation"))
  /\ UNCHANGED <<poolVars, busy, requests, rotating, replaces, stopping,
                 terminated, thread, outbox, txs, spent, txVars>>

(* The rotation's shutdown was answered, of the old slot or of a           *)
(* replacement that came too late: terminate.                              *)
ShutDown(w) ==
  /\ Answers(w, Call("shutdown", "rotation"), Results)
  /\ Settle(w, Call("shutdown", "rotation"))
  /\ terminated' = terminated \cup {w}
  /\ stage' = [stage EXCEPT ![w] = IF @ = "discarding" THEN "discarded"
                                                       ELSE "terminating"]
  /\ UNCHANGED <<poolVars, busy, requests, rotating, replaces, stopping,
                 thread, inbox, txs, spent, txVars>>

(* destroy()'s shutdown was answered.                                      *)
DestroyShutDown(w) ==
  /\ Answers(w, Call("shutdown", "destroy"), Results)
  /\ Settle(w, Call("shutdown", "destroy"))
  /\ terminated' = terminated \cup {w}
  /\ stopping' = [stopping EXCEPT ![w] = "terminating"]
  /\ UNCHANGED <<poolVars, busy, requests, rotating, stage, replaces, thread,
                 inbox, txs, spent, txVars>>

(* this.#draining.delete(old)                                              *)
NotUndrained(w) == draining
Undrained(w) == draining \ {w}

(* The listeners of 'error' and 'exit': every pending call is rejected,    *)
(* and what awaited one of them goes on.  After 'exit' (gone) terminate()  *)
(* has nothing to wait for, and what waited for it goes on too.            *)
RejectPending(w, gone) ==
  LET lost(op) == {t \in Tx : Call(op, t) \in pending[w]}
      gaveUp == stage[w] = "initing" \/ (stage[w] = "booting" /\ ~gone)
      ended(s) == IF gone THEN s ELSE "terminating"
  IN
  /\ pending' = [pending EXCEPT ![w] = {}]
  /\ status' = [t \in Tx |-> CASE t \in lost("newTx") -> "failed"
                               [] t \in lost("close") -> "closed"
                               [] OTHER -> status[t]]
  /\ busy' = [busy EXCEPT ![w] = Released(@, Cardinality(lost("close")))]
  /\ rotating' = IF gaveUp THEN Unlatched(w) ELSE rotating
  /\ stage' = [stage EXCEPT ![w] =
                 CASE gaveUp -> "failed"
                   [] @ = "shutdown" -> ended("retired")
                   [] @ = "terminating" -> ended("retired")
                   [] @ = "discarding" -> "discarded"
                   [] OTHER -> @]
  /\ draining' = IF stage'[w] = "retired" THEN Undrained(w) ELSE draining
  /\ stopping' = [stopping EXCEPT ![w] =
                    IF @ \in {"shutdown", "terminating"} THEN ended("done")
                                                         ELSE @]
  /\ terminated' = IF \/ stage'[w] \in {"failed", "terminating", "discarded"}
                      \/ stopping'[w] = "terminating"
                   THEN terminated \cup {w} ELSE terminated

ErrorEvent(w) ==
  /\ thread[w] = "failed"
  /\ thread' = [thread EXCEPT ![w] = "dead"]
  /\ RejectPending(w, FALSE)
  /\ UNCHANGED <<slots, rr, destroyed, spawned, requests, replaces, inbox,
                 outbox, txs, spent, home>>

(* Node delivers what the thread posted before it delivers 'exit'.         *)
ExitEvent(w) ==
  /\ thread[w] = "dead" /\ outbox[w] = <<>>
  /\ thread' = [thread EXCEPT ![w] = "gone"]
  /\ RejectPending(w, TRUE)
  /\ UNCHANGED <<slots, rr, destroyed, spawned, requests, replaces, inbox,
                 outbox, txs, spent, home>>

-----------------------------------------------------------------------------
(* The worker thread: parentPort.on('message').                            *)

(* w takes its next message, c, and posts the reply.                       *)
Reply(w, c, result) ==
  /\ thread[w] \in {"online", "serving"}
  /\ inbox[w] # <<>> /\ Head(inbox[w]) = c
  /\ outbox' = [outbox EXCEPT ![w] = Append(@, [call |-> c, result |-> result])]
Take(w) == inbox' = [inbox EXCEPT ![w] = Tail(@)]

HandleInit(w) ==
  /\ \/ /\ Reply(w, Call("init", "rotation"), "ok")
        /\ thread' = [thread EXCEPT ![w] = "serving"]
     \/ /\ "init" \in Faults
        /\ Reply(w, Call("init", "rotation"), "error")
        /\ UNCHANGED thread
  /\ Take(w)
  /\ UNCHANGED <<poolVars, slotVars, txs, spent, txVars>>

HandleNewTx(w, t) ==
  /\ \/ /\ thread[w] = "serving"
        /\ Reply(w, Call("newTx", t), "ok")
        /\ txs' = [txs EXCEPT ![w] = @ \cup {t}]
     \/ /\ thread[w] = "online" \/ "newTx" \in Faults
        /\ Reply(w, Call("newTx", t), "error")
        /\ UNCHANGED txs
  /\ Take(w)
  /\ UNCHANGED <<poolVars, slotVars, thread, spent, txVars>>

(* proc, pred, get and reset; "ok" also stands for the error the           *)
(* transaction itself may throw, which changes nothing in the pool.        *)
HandleOp(w, t, kind) ==
  /\ \/ t \in txs[w] /\ Reply(w, Call(kind, t), "ok")
     \/ t \notin txs[w] /\ Reply(w, Call(kind, t), "unknown tx")
  /\ Take(w)
  /\ UNCHANGED <<poolVars, slotVars, thread, txs, spent, txVars>>

(* The finally of the handler of close, which runs whatever                *)
(* tx.processLogging() does ("unlogged": it threw): tx.close(), and then   *)
(* txs.delete(), which a tx.close() that throws ("trapped") skips.         *)
NotForgotten(w, t, outcome) == txs[w]
KeptOnError(w, t, outcome) == IF outcome = "ok" THEN txs[w] \ {t} ELSE txs[w]
Forgotten(w, t, outcome) ==
  IF outcome = "trapped" THEN txs[w] ELSE txs[w] \ {t}

HandleClose(w, t) ==
  /\ \E outcome \in {"ok", "unlogged", "trapped"} :
       /\ outcome = "unlogged" => t \in txs[w] /\ "logging" \in Faults
       /\ outcome = "trapped" => t \in txs[w] /\ "destroyTx" \in Faults
       /\ Reply(w, Call("close", t), IF outcome = "ok" THEN "ok" ELSE "error")
       /\ txs' = [txs EXCEPT ![w] = Forgotten(w, t, outcome)]
       /\ spent' = IF outcome = "trapped" THEN spent \cup {t} ELSE spent
  /\ Take(w)
  /\ UNCHANGED <<poolVars, slotVars, thread, txVars>>

(* parentPort.close(): what is still queued is never read.  The port stays *)
(* open when waf.destroy() throws.                                         *)
HandleShutdown(w, by) ==
  /\ txs' = [txs EXCEPT ![w] = {}]
  /\ \/ /\ Reply(w, Call("shutdown", by), "ok")
        /\ inbox' = [inbox EXCEPT ![w] = <<>>]
        /\ thread' = [thread EXCEPT ![w] = "closed"]
     \/ /\ "shutdown" \in Faults
        /\ Reply(w, Call("shutdown", by), "error")
        /\ Take(w)
        /\ UNCHANGED thread
  /\ UNCHANGED <<poolVars, slotVars, spent, txVars>>

(* The thread stops: terminate() was called, or nothing keeps it alive.    *)
ThreadEnds(w, to) ==
  /\ thread' = [thread EXCEPT ![w] = to]
  /\ inbox' = [inbox EXCEPT ![w] = <<>>]
  /\ txs' = [txs EXCEPT ![w] = {}]
  /\ UNCHANGED <<poolVars, slotVars, outbox, spent, txVars>>

Exit(w) ==
  /\ \/ thread[w] = "closed"
     \/ thread[w] \in Running /\ w \in terminated
  /\ ThreadEnds(w, "dead")

Crash(w) ==
  /\ thread[w] \in Running
  /\ \/ "exit" \in Faults /\ ThreadEnds(w, "dead")
     \/ "error" \in Faults /\ ThreadEnds(w, "failed")

-----------------------------------------------------------------------------
Client(t) == \/ NewTransaction(t) \/ NewTransactionDestroyed(t) \/ Close(t)
             \/ \E kind \in OpKinds : Operate(t, kind)

Main(w) ==
  \/ \E t \in Tx : \/ Opened(w, t) \/ OpenFailed(w, t) \/ Closed(w, t)
                   \/ \E kind \in OpKinds : Operated(w, t, kind)
  \/ Dropped(w) \/ Online(w) \/ Swapped(w) \/ TooLate(w) \/ GiveUp(w)
  \/ Drained(w) \/ ShutDown(w) \/ DestroyShutDown(w)
  \/ ErrorEvent(w) \/ ExitEvent(w)

Thread(w) ==
  \/ HandleInit(w)
  \/ \E t \in Tx : \/ HandleNewTx(w, t) \/ HandleClose(w, t)
                   \/ \E kind \in OpKinds : HandleOp(w, t, kind)
  \/ \E by \in {"rotation", "destroy"} : HandleShutdown(w, by)
  \/ Exit(w)

Next ==
  \/ \E t \in Tx : Client(t)
  \/ Destroy
  \/ \E w \in Worker : Main(w) \/ Thread(w) \/ Crash(w)

(* The event loop delivers what is queued, every thread runs, and whoever  *)
(* holds a handle closes it.  Nothing forces a call of newTransaction(),   *)
(* of another method or of destroy(), and nothing forces a fault.          *)
Fairness == /\ \A w \in Worker : WF_vars(Main(w)) /\ WF_vars(Thread(w))
            /\ \A t \in Tx : WF_vars(Close(t))

Spec == Init /\ [][Next]_vars
FairSpec == Spec /\ Fairness

-----------------------------------------------------------------------------
TypeOK ==
  /\ slots \in [Slot -> Worker] /\ rr \in 0 .. Size - 1
  /\ destroyed \in BOOLEAN /\ draining \subseteq Worker
  /\ spawned \in Size .. MaxWorkers
  /\ busy \in [Worker -> Nat] /\ requests \in [Worker -> Nat]
  /\ rotating \in [Worker -> BOOLEAN]
  /\ pending \in [Worker -> SUBSET Calls]
  /\ stage \in [Worker -> Stages]
  /\ replaces \in [Worker -> 0 .. MaxWorkers]
  /\ stopping \in [Worker -> {"no", "shutdown", "terminating", "done"}]
  /\ terminated \subseteq Worker
  /\ thread \in [Worker -> Threads]
  /\ inbox \in [Worker -> Seq(Calls)]
  /\ outbox \in [Worker -> Seq(Replies)]
  /\ txs \in [Worker -> SUBSET Tx] /\ spent \subseteq Tx
  /\ status \in [Tx -> Statuses]
  /\ home \in [Tx -> 0 .. MaxWorkers]

(* The handles that keep their worker in use: those newTransaction() has   *)
(* returned and close() has not finished with.                             *)
Held(w) == {t \in Tx : home[t] = w /\ status[t] \in {"open", "closing"}}

(* busy is exactly the number of handles in use on the worker, although it *)
(* is raised by one async function and lowered by another.                 *)
BusyCountsHandles == \A w \in Worker : busy[w] = Cardinality(Held(w))

(* "This must not drop any in-flight request": a rotation asks a worker to *)
(* shut down, or terminates it, only when no transaction is being opened,  *)
(* in use or being closed on it, whatever faults, swaps and destroy() came *)
(* before.                                                                 *)
RotationDropsNothing ==
  \A t \in Tx : status[t] \in {"opening", "open", "closing"} =>
    stage[home[t]] \notin {"shutdown", "terminating", "retired"}

(* The handles and the workers' maps agree: a worker keeps no transaction  *)
(* of a handle that was never handed out, none of a closed handle unless   *)
(* tx.close() itself threw on it, not even when processLogging() did, and  *)
(* the transaction of an open handle exists as long as its worker runs and *)
(* destroy() was not called.                                               *)
HandlesMatchWorkers ==
  /\ \A w \in Worker : \A t \in txs[w] :
       /\ home[t] = w
       /\ \/ status[t] \in {"opening", "open", "closing"}
          \/ status[t] = "closed" /\ t \in spent
  /\ \A t \in Tx : status[t] = "open" /\ thread[home[t]] = "serving"
                    /\ ~destroyed => t \in txs[home[t]]

(* reset() and processLogging() test #closed before they post: before      *)
(* destroy() no such call is ever answered "unknown tx", even when close() *)
(* was called while it was in flight.                                      *)
GuardedCallsFindTheirTx ==
  \A w \in Worker : \A i \in DOMAIN outbox[w] :
    outbox[w][i].call.op = "reset" /\ outbox[w][i].result = "unknown tx"
      => destroyed

(* The pool never shrinks and never serves from a worker that is not       *)
(* initialised: the slots hold Size different workers, all past init and   *)
(* none of them being drained, so no newTx meets a null waf.               *)
SlotsAreInitialised ==
  /\ \A i, j \in Slot : slots[i] = slots[j] => i = j
  /\ \A w \in InSlots : /\ stage[w] = "active" /\ w \notin draining
                        /\ thread[w] \notin {"unspawned", "starting", "online"}

(* A worker that is being rotated has exactly one replacement under way,   *)
(* and only a worker being rotated has one: the latch neither sticks after *)
(* a rotation that failed nor lets a second one start.                     *)
UnderWay(w) == {n \in Worker : /\ replaces[n] = w
                              /\ stage[n] \in {"booting", "initing"}}
OneReplacement ==
  ~destroyed => \A w \in InSlots :
    Cardinality(UnderWay(w)) = IF rotating[w] THEN 1 ELSE 0

(* No worker thread is leaked: every thread that runs is in a slot or in   *)
(* #draining where destroy() finds it, or some rotation still holds it, or *)
(* it was told to stop.                                                    *)
NoOrphanThread ==
  \A w \in Worker : thread[w] \in Running =>
    \/ ~destroyed /\ w \in InSlots \cup draining
    \/ stopping[w] # "no" \/ w \in terminated
    \/ stage[w] \in {"booting", "initing", "discarding"}

(* create() pre-warms by Size concurrent calls: they reach every worker,   *)
(* although busy is still 0 everywhere.                                    *)
Opening == {t \in Tx : status[t] = "opening"}
PrewarmReachesEveryWorker ==
  /\ \A t \in Tx : status[t] \in {"idle", "opening"}
  /\ Cardinality(Opening) = Size
  => {home[t] : t \in Opening} = InSlots

(* Whatever fails and whichever thread ends, the accounting, the rotations *)
(* and the membership of the pool hold all the same, and a worker keeps    *)
(* nothing of a closed handle but what tx.close() threw on.                *)
SurvivesFaults ==
  /\ BusyCountsHandles /\ RotationDropsNothing /\ HandlesMatchWorkers
  /\ SlotsAreInitialised /\ OneReplacement /\ NoOrphanThread

-----------------------------------------------------------------------------
(* Liveness, under FairSpec.                                               *)

(* Every newTransaction() is settled, also one that destroy() overtakes.   *)
NewTransactionSettles ==
  \A t \in Tx : status[t] = "opening" ~> status[t] # "opening"

(* Every close() returns, in a pool that is not destroyed.                 *)
CloseReturns ==
  \A t \in Tx : status[t] = "closing" ~> (status[t] = "closed" \/ destroyed)

(* destroy() resolves.                                                     *)
DestroyReturns ==
  destroyed ~> \A w \in Worker : stopping[w] \in {"no", "done"}

(* Every call of the pool and of its handles is settled.                   *)
CallsReturn == NewTransactionSettles /\ CloseReturns /\ DestroyReturns

(* A worker that has had its share of requests leaves the pool, and one    *)
(* that is being drained is shut down and terminated ("drained"), unless   *)
(* destroy() overtakes the rotation.                                       *)
WornOut(w) == w \in InSlots /\ MaxRequests # 0 /\ requests[w] >= MaxRequests
RotationsComplete ==
  \A w \in Worker :
    /\ WornOut(w) ~> (w \notin InSlots \/ destroyed)
    /\ stage[w] = "draining" ~> (stage[w] = "retired" \/ destroyed)

(* After destroy() every worker thread ends, and none is spawned for good: *)
(* not the replacement a rotation was booting, and not the one a           *)
(* newTransaction() still in flight asks for afterwards.                   *)
DestroyStopsEveryThread ==
  destroyed ~> [](\A w \in Worker : thread[w] \in {"unspawned", "gone"})

-----------------------------------------------------------------------------
(* The pool keeps the promise of TxService, with the transactions of all   *)
(* workers' maps for those that exist and the spent ones for those left    *)
(* over; a run without thread deaths shows that rotation alone never loses *)
(* one.                                                                    *)
Service == INSTANCE TxService WITH
             held <- UNION {txs[w] : w \in Worker},
             left <- spent,
             MayCrash <- Faults \cap {"exit", "error"} # {},
             MayLeave <- "destroyTx" \in Faults
ImplementsService == Service!Spec
=============================================================================
