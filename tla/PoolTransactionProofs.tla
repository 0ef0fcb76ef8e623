------------------------ MODULE PoolTransactionProofs ------------------------
(***************************************************************************)
(* What the pool promises to its users, for pools, traffic and faults of   *)
(* every size: the handles and the workers' maps agree, a guarded call     *)
(* finds its transaction, and the pool implements TxService.               *)
(*                                                                         *)
(* Handle and transaction meet only through two queues.  The argument      *)
(* follows a call through them (Queues): a call that is queued is pending  *)
(* and not answered yet, and is queued once; what has been answered tells  *)
(* where its handle is (AnswersMatchHandles).  Then the maps can be read   *)
(* off the queues (Maps), but for a transaction on which tx.close() threw: *)
(* it stays, and its close is never queued again (SpentFits).              *)
(***************************************************************************)
EXTENDS WAFPoolProofs

Sent(w) == {inbox[w][i] : i \in DOMAIN inbox[w]}

InitCall == Call("init", "rotation")
Shut == Call("shutdown", "rotation")
Stop == Call("shutdown", "destroy")

(* The queues of one worker.                                               *)
QueueFits(w) ==
  /\ thread[w] \notin Running => inbox[w] = <<>>
  /\ Sent(w) \subseteq pending[w] /\ Sent(w) \cap Answered(w) = {}
  /\ \A i, j \in DOMAIN inbox[w] : inbox[w][i] = inbox[w][j] => i = j

Queues == \A w \in Worker : QueueFits(w)

(* The stages of a worker to which shutdown was never posted by a rotation.*)
Early == {"unspawned", "booting", "initing", "active", "draining"}

AnswersMatchHandles ==
  /\ \A w \in Worker, t \in Tx :
       /\ Call("newTx", t) \in Answered(w) => home[t] = w /\ status[t] # "idle"
       /\ Call("close", t) \in Answered(w)
            => home[t] = w /\ status[t] \in {"closing", "closed"}
  /\ \A w \in Worker :
       /\ InitCall \in Answered(w) => stage[w] \notin {"unspawned", "booting"}
       /\ Shut \in Answered(w) => stage[w] \notin Early
       /\ Stop \in Answered(w) \cup pending[w] => destroyed

QInv == MInv /\ Queues /\ AnswersMatchHandles

-----------------------------------------------------------------------------
(* Facts about the queues of one worker.                                   *)

LEMMA AnsweredIsSaid ==
  ASSUME NEW w
  PROVE  Answered(w) = {m.call : m \in Said(w)}
BY DEF Answered, Said

LEMMA AnsweredShrinks ==
  ASSUME NEW w, Said(w)' \subseteq Said(w)
  PROVE  Answered(w)' \subseteq Answered(w)
<1>1. Answered(w) = {m.call : m \in Said(w)}
  BY DEF Answered, Said
<1>2. Answered(w)' = {m.call : m \in Said(w)'}
  BY DEF Answered, Said
<1>3. QED
  BY <1>1, <1>2

LEMMA CallNames ==
  /\ InitCall \in Calls /\ Shut \in Calls /\ Stop \in Calls
  /\ InitCall # Shut /\ InitCall # Stop /\ Shut # Stop
  /\ \A t \in Tx, op \in {"newTx", "close", "proc", "reset"} :
       /\ Call(op, t) \in Calls
       /\ Call(op, t) \notin {InitCall, Shut, Stop}
BY DEF Call, Calls, InitCall, Shut, Stop

(* A call that is neither pending nor answered joins the queue.            *)
LEMMA PostKeepsQueue ==
  ASSUME TypeOK, NEW w \in Worker, NEW c \in Calls, QueueFits(w),
         c \notin pending[w] \cup Answered(w),
         inbox'[w] = IF thread[w] \in Running THEN Append(inbox[w], c) ELSE inbox[w],
         Sent(w) \cup {c} \subseteq pending'[w],
         Answered(w)' \subseteq Answered(w),
         thread'[w] \notin Running => thread[w] \notin Running
  PROVE  QueueFits(w)' /\ Sent(w)' \subseteq Sent(w) \cup {c}
<1>1. inbox[w] \in Seq(Calls) /\ c \notin Sent(w)
  BY DEF TypeOK, QueueFits
<1>2. CASE thread[w] \in Running
  <2> DEFINE a == Append(inbox[w], c)
  <2>1. /\ {a[i] : i \in DOMAIN a} = Sent(w) \cup {c}
        /\ DOMAIN a = 1 .. Len(inbox[w]) + 1
        /\ DOMAIN inbox[w] = 1 .. Len(inbox[w]) /\ Len(inbox[w]) \in Nat
        /\ \A i \in DOMAIN inbox[w] : a[i] = inbox[w][i]
        /\ a[Len(inbox[w]) + 1] = c
    BY <1>1, AppendAdds DEF Sent
  <2>2. inbox'[w] = a
    BY <1>2
  <2> HIDE DEF a
  <2>3. Sent(w)' = Sent(w) \cup {c}
    BY <2>1, <2>2 DEF Sent
  <2>4. ASSUME NEW i \in DOMAIN a, NEW j \in DOMAIN a, a[i] = a[j]
        PROVE  i = j
    <3>1. CASE i \in DOMAIN inbox[w] /\ j \in DOMAIN inbox[w]
      BY <2>1, <2>4, <3>1 DEF QueueFits
    <3>2. CASE i = Len(inbox[w]) + 1 /\ j \in DOMAIN inbox[w]
      BY <1>1, <2>1, <2>4, <3>2 DEF Sent
    <3>3. CASE j = Len(inbox[w]) + 1 /\ i \in DOMAIN inbox[w]
      BY <1>1, <2>1, <2>4, <3>3 DEF Sent
    <3>4. CASE j = Len(inbox[w]) + 1 /\ i = Len(inbox[w]) + 1
      BY <3>4
    <3>5. QED
      BY <2>1, <3>1, <3>2, <3>3, <3>4
  <2>5. QED
    BY <1>2, <2>2, <2>3, <2>4 DEF QueueFits
<1>3. CASE thread[w] \notin Running
  <2>1. inbox'[w] = inbox[w] /\ Sent(w)' = Sent(w)
    BY <1>3 DEF Sent
  <2>2. QED
    BY <1>3, <2>1 DEF QueueFits
<1>4. QED
  BY <1>2, <1>3

(* No call joins or leaves the queue.                                      *)
LEMMA IdleQueue ==
  ASSUME NEW w \in Worker, QueueFits(w),
         inbox'[w] = inbox[w], Sent(w) \subseteq pending'[w],
         Answered(w)' \subseteq Answered(w),
         thread'[w] \notin Running => thread[w] \notin Running
  PROVE  QueueFits(w)' /\ Sent(w)' = Sent(w)
<1>1. Sent(w)' = Sent(w)
  BY DEF Sent
<1>2. QED
  BY <1>1 DEF QueueFits

(* The thread answers the first call of the queue.                         *)
LEMMA TakeKeepsQueue ==
  ASSUME TypeOK, NEW w \in Worker, QueueFits(w),
         NEW c \in Calls, NEW r \in Results, Reply(w, c, r),
         pending' = pending,
         \/ /\ inbox'[w] = Tail(inbox[w])
            /\ thread'[w] \in Running
         \/ inbox'[w] = <<>>
  PROVE  /\ QueueFits(w)' /\ c \in Sent(w) /\ Sent(w)' \subseteq Sent(w) \ {c}
         /\ Answered(w)' = Answered(w) \cup {c}
<1>1. /\ inbox[w] \in Seq(Calls) /\ inbox[w] # <<>> /\ Head(inbox[w]) = c
  BY DEF TypeOK, Reply
<1>2. Said(w)' = Said(w) \cup {[call |-> c, result |-> r]}
  BY ReplyIsSaid
<1>3. Answered(w)' = Answered(w) \cup {c}
  <2> DEFINE n == [call |-> c, result |-> r]
  <2>1. Answered(w)' = {m.call : m \in Said(w)'}
    BY DEF Answered, Said
  <2>2. Said(w)' = Said(w) \cup {n} /\ n.call = c
    BY <1>2
  <2> HIDE DEF n
  <2>3. QED
    BY <2>1, <2>2, AnsweredIsSaid
<1>4. c \in Sent(w)
  BY <1>1 DEF Sent
<1>5. CASE inbox'[w] = <<>>
  <2>1. Sent(w)' = {}
    BY <1>5 DEF Sent
  <2>2. QED
    BY <1>3, <1>4, <1>5, <2>1 DEF QueueFits
<1>6. CASE inbox'[w] = Tail(inbox[w]) /\ thread'[w] \in Running
  <2> DEFINE q == inbox[w]
             p == Tail(q)
  <2>1. /\ p \in Seq(Calls) /\ Len(q) \in Nat \ {0} /\ Len(p) = Len(q) - 1
        /\ DOMAIN q = 1 .. Len(q) /\ q[1] = c
        /\ \A i \in 1 .. Len(p) : p[i] = q[i + 1]
    BY <1>1
  <2>2. DOMAIN p = 1 .. Len(p)
    BY <2>1
  <2>3. \A i, j \in 1 .. Len(q) : q[i] = q[j] => i = j
    BY <2>1 DEF QueueFits
  <2>4. inbox'[w] = p
    BY <1>6
  <2> HIDE DEF p
  <2>5. \A i \in 1 .. Len(p) : i + 1 \in 1 .. Len(q) /\ i + 1 # 1
    BY <2>1
  <2>6. Sent(w)' \subseteq Sent(w) \ {c}
    <3> SUFFICES ASSUME NEW i \in 1 .. Len(p)
                 PROVE  p[i] \in Sent(w) \ {c}
      BY <2>2, <2>4 DEF Sent
    <3>1. p[i] = q[i + 1] /\ i + 1 \in DOMAIN q /\ 1 \in DOMAIN q /\ i + 1 # 1
      BY <2>1, <2>5
    <3>2. QED
      BY <2>1, <2>3, <3>1 DEF Sent
  <2>7. ASSUME NEW i \in 1 .. Len(p), NEW j \in 1 .. Len(p), p[i] = p[j]
        PROVE  i = j
    <3>1. i + 1 = j + 1
      BY <2>1, <2>3, <2>5, <2>7
    <3>2. QED
      BY <3>1
  <2>8. QED
    BY <1>3, <1>4, <1>6, <2>2, <2>4, <2>6, <2>7 DEF QueueFits
<1>7. QED
  BY <1>5, <1>6

-----------------------------------------------------------------------------
(* The calls of the program.                                               *)

(* t posts the call c to its worker w, which it may have chosen just now.  *)
LEMMA PostingKeepsQueues ==
  ASSUME QInv, NEW w \in Worker, NEW c \in Calls, Post(w, c),
         c \notin pending[w] \cup Answered(w), UNCHANGED <<thread, outbox>>
  PROVE  /\ Queues'
         /\ \A v \in Worker : /\ Answered(v)' = Answered(v)
                              /\ Sent(v)' \subseteq Sent(v) \cup {c}
                              /\ pending'[v] \subseteq pending[v] \cup {c}
<1>1. TypeOK
  BY DEF QInv, MInv, IInv
<1>2. \A v \in Worker :
        /\ pending'[v] = IF v = w THEN pending[v] \cup {c} ELSE pending[v]
        /\ inbox'[v] = IF v = w /\ thread[w] \in Running THEN Append(inbox[v], c)
                                                         ELSE inbox[v]
        /\ Answered(v)' = Answered(v)
  <2>1. pending \in [Worker -> SUBSET Calls] /\ inbox \in [Worker -> Seq(Calls)]
    BY <1>1 DEF TypeOK
  <2>2. \A v \in Worker :
          pending'[v] = IF v = w THEN pending[v] \cup {c} ELSE pending[v]
    BY <2>1 DEF Post
  <2>3. \A v \in Worker :
          inbox'[v] = IF v = w /\ thread[w] \in Running THEN Append(inbox[v], c)
                                                         ELSE inbox[v]
    BY <2>1 DEF Post
  <2>4. QED
    BY <2>2, <2>3 DEF Answered
<1>3. ASSUME NEW v \in Worker
      PROVE  QueueFits(v)' /\ Sent(v)' \subseteq Sent(v) \cup {c}
  <2>1. QueueFits(v)
    BY DEF QInv, Queues
  <2>2. Sent(v) \subseteq pending[v] /\ pending[v] \subseteq pending'[v]
    BY <1>2, <2>1 DEF QueueFits
  <2>3. CASE v = w
    <3>1. inbox'[w] = IF thread[w] \in Running THEN Append(inbox[w], c) ELSE inbox[w]
      BY <1>2
    <3>2. Sent(w) \cup {c} \subseteq pending'[w] /\ Answered(w)' \subseteq Answered(w)
      BY <1>2, <2>2, <2>3
    <3>3. QueueFits(w)' /\ Sent(w)' \subseteq Sent(w) \cup {c}
      BY <1>1, <2>1, <2>3, <3>1, <3>2, PostKeepsQueue
    <3>4. QED
      BY <2>3, <3>3
  <2>4. CASE v # w
    BY <1>2, <2>1, <2>2, <2>4, IdleQueue
  <2>5. QED
    BY <2>3, <2>4
<1>4. QED
  BY <1>2, <1>3 DEF Queues

LEMMA SameQueues ==
  ASSUME Queues, UNCHANGED <<thread, inbox, outbox, pending>>
  PROVE  Queues' /\ \A v \in Worker : Answered(v)' = Answered(v)
<1>1. \A v \in Worker : Sent(v)' = Sent(v) /\ Answered(v)' = Answered(v)
  BY DEF Sent, Answered
<1>2. ASSUME NEW v \in Worker
      PROVE  QueueFits(v)'
  BY <1>1 DEF Queues, QueueFits
<1>3. QED
  BY <1>1, <1>2 DEF Queues

(* Only the handle t changes, and nothing of it was answered falsely.      *)
LEMMA HandleKeepsAnswers ==
  ASSUME QInv, NEW t \in Tx,
         UNCHANGED <<stage, destroyed>>,
         \A v \in Worker : /\ Answered(v)' = Answered(v)
                           /\ Stop \in pending'[v] => Stop \in pending[v],
         \A u \in Tx \ {t} : status'[u] = status[u] /\ home'[u] = home[u],
         \/ status[t] = "idle"
         \/ /\ status[t] \notin {"closing", "closed"}
            /\ status'[t] # "idle" /\ home'[t] = home[t]
         \/ status'[t] = status[t] /\ home'[t] = home[t]
  PROVE  AnswersMatchHandles'
<1>1. \A w \in Worker, u \in Tx :
        /\ Call("newTx", u) \in Answered(w)' => home'[u] = w /\ status'[u] # "idle"
        /\ Call("close", u) \in Answered(w)'
             => home'[u] = w /\ status'[u] \in {"closing", "closed"}
  BY DEF QInv, AnswersMatchHandles
<1>2. QED
  BY <1>1 DEF QInv, AnswersMatchHandles

LEMMA ClientKeepsQueues ==
  ASSUME QInv, NEW t \in Tx, Client(t)
  PROVE  Queues' /\ AnswersMatchHandles'
<1>1. TypeOK
  BY DEF QInv, MInv, IInv
<1>2. CASE NewTransaction(t)
  <2> DEFINE w == PickSlot
             c == Call("newTx", t)
  <2>1. w \in Worker
    BY <1>1, PickSlotInSlots, SlotsAreWorkers
  <2>2. /\ status[t] = "idle" /\ Post(w, c)
        /\ UNCHANGED <<thread, outbox, stage, destroyed>>
        /\ \A u \in Tx \ {t} : status'[u] = status[u] /\ home'[u] = home[u]
    BY <1>1, <1>2 DEF NewTransaction, TypeOK
  <2> HIDE DEF w
  <2>3. c \in Calls /\ c \notin pending[w] \cup Answered(w) /\ c # Stop
    BY <2>1, <2>2, CallNames DEF QInv, AnswersMatchHandles, MInv, IInv,
       CallsMatchHandles
  <2>4. /\ Queues'
        /\ \A v \in Worker : /\ Answered(v)' = Answered(v)
                             /\ pending'[v] \subseteq pending[v] \cup {c}
    BY <2>1, <2>2, <2>3, PostingKeepsQueues
  <2>5. QED
    BY <2>2, <2>3, <2>4, HandleKeepsAnswers
<1>3. CASE NewTransactionDestroyed(t)
  <2>1. /\ status[t] = "idle"
        /\ UNCHANGED <<thread, inbox, outbox, pending, stage, destroyed>>
        /\ \A u \in Tx \ {t} : status'[u] = status[u] /\ home'[u] = home[u]
    BY <1>1, <1>3 DEF NewTransactionDestroyed, poolVars, slotVars, threadVars, TypeOK
  <2>2. Queues' /\ \A v \in Worker : Answered(v)' = Answered(v)
    BY <2>1, SameQueues DEF QInv
  <2>3. QED
    BY <2>1, <2>2, HandleKeepsAnswers
<1>4. CASE Close(t)
  <2> DEFINE w == home[t]
             c == Call("close", t)
  <2>1. /\ status[t] = "open" /\ status'[t] = "closing" /\ Post(w, c)
        /\ UNCHANGED <<thread, outbox, stage, destroyed, home>>
        /\ \A u \in Tx \ {t} : status'[u] = status[u]
    BY <1>1, <1>4 DEF Close, poolVars, TypeOK
  <2>2. w \in Worker
    BY <2>1 DEF QInv, MInv, IInv, CallsMatchHandles
  <2>3. c \in Calls /\ c \notin pending[w] \cup Answered(w) /\ c # Stop
    BY <2>1, <2>2, CallNames DEF QInv, AnswersMatchHandles, MInv, IInv,
       CallsMatchHandles
  <2>4. /\ Queues'
        /\ \A v \in Worker : /\ Answered(v)' = Answered(v)
                             /\ pending'[v] \subseteq pending[v] \cup {c}
    BY <2>1, <2>2, <2>3, PostingKeepsQueues
  <2>5. QED
    BY <2>1, <2>3, <2>4, HandleKeepsAnswers
<1>5. ASSUME NEW kind \in OpKinds, Operate(t, kind)
      PROVE  Queues' /\ AnswersMatchHandles'
  <2> DEFINE w == home[t]
             c == Call(kind, t)
  <2>1. /\ status[t] \in {"open", "closing", "closed"} /\ Post(w, c)
        /\ c \notin pending[w] \cup Answered(w)
        /\ UNCHANGED <<thread, outbox, stage, destroyed, status, home>>
    BY <1>5 DEF Operate, Operable, poolVars, txVars
  <2>2. c \in Calls /\ c # Stop
    BY CallNames DEF OpKinds
  <2>3. CASE w \in Worker
    <3>1. /\ Queues'
          /\ \A v \in Worker : /\ Answered(v)' = Answered(v)
                               /\ pending'[v] \subseteq pending[v] \cup {c}
      BY <2>1, <2>2, <2>3, PostingKeepsQueues
    <3>2. QED
      BY <2>1, <2>2, <3>1, HandleKeepsAnswers
  <2>4. CASE w \notin Worker
    <3>1. UNCHANGED <<inbox, pending>>
      BY <1>1, <2>1, <2>4 DEF Post, TypeOK
    <3>2. Queues' /\ \A v \in Worker : Answered(v)' = Answered(v)
      BY <2>1, <3>1, SameQueues DEF QInv
    <3>3. QED
      BY <2>1, <3>1, <3>2, HandleKeepsAnswers
  <2>5. QED
    BY <2>3, <2>4
<1>6. QED
  BY <1>2, <1>3, <1>4, <1>5 DEF Client

-----------------------------------------------------------------------------
(* The events on the main thread.                                          *)

(* They take replies, move calls and workers forward, and post init or     *)
(* shutdown at most.                                                       *)
Forward ==
  /\ UNCHANGED <<home, destroyed, txs, spent>>
  /\ \A v \in Worker :
       /\ Said(v)' \subseteq Said(v)
       /\ Stop \in pending'[v] => Stop \in pending[v]
       /\ stage'[v] \in {"unspawned", "booting"} => stage[v] \in {"unspawned", "booting"}
       /\ stage'[v] \in Early => stage[v] \in Early
  /\ \A t \in Tx :
       /\ status[t] # "idle" => status'[t] # "idle"
       /\ status[t] \in {"closing", "closed"} => status'[t] \in {"closing", "closed"}

LEMMA ForwardKeepsAnswers ==
  ASSUME QInv, Forward
  PROVE  AnswersMatchHandles'
<1>1. \A v \in Worker : Answered(v)' \subseteq Answered(v)
  BY AnsweredShrinks DEF Forward
<1>2. QED
  BY <1>1 DEF QInv, AnswersMatchHandles, Forward

(* No call is posted, and those that are no longer pending were answered.  *)
LEMMA SettlingKeepsQueues ==
  ASSUME QInv, UNCHANGED inbox,
         \A v \in Worker :
           /\ Said(v)' \subseteq Said(v)
           /\ thread'[v] \notin Running => thread[v] \notin Running
           /\ \/ pending[v] \ Answered(v) \subseteq pending'[v]
              \/ thread[v] \notin Running
  PROVE  Queues'
<1>1. ASSUME NEW v \in Worker
      PROVE  QueueFits(v)'
  <2>1. QueueFits(v)
    BY DEF QInv, Queues
  <2>2. Sent(v) \subseteq pending'[v]
    <3>1. thread[v] \notin Running => Sent(v) = {}
      BY <2>1 DEF QueueFits, Sent
    <3>2. QED
      BY <2>1, <3>1 DEF QueueFits
  <2>3. QED
    BY <2>1, <2>2, AnsweredShrinks, IdleQueue
<1>2. QED
  BY <1>1 DEF Queues

LEMMA SettledAnswer ==
  ASSUME TypeOK, NEW w \in Worker, NEW c, NEW results,
         Answers(w, c, results), Settle(w, c)
  PROVE  \A v \in Worker : /\ Said(v)' \subseteq Said(v)
                           /\ pending[v] \ Answered(v) \subseteq pending'[v]
                           /\ pending'[v] \subseteq pending[v]
<1>1. c \in Answered(w)
  <2>1. outbox[w] \in Seq(Replies) /\ outbox[w] # <<>> /\ Head(outbox[w]).call = c
    BY DEF Answers, TypeOK
  <2>2. 1 \in DOMAIN outbox[w] /\ outbox[w][1] = Head(outbox[w])
    BY <2>1
  <2>3. QED
    BY <2>1, <2>2 DEF Answered
<1>2. \A v \in Worker : Said(v)' \subseteq Said(v)
  BY AnswersShrink
<1>3. \A v \in Worker : pending'[v] = IF v = w THEN pending[v] \ {c} ELSE pending[v]
  BY Settled
<1>4. QED
  BY <1>1, <1>2, <1>3

LEMMA CallEndsKeepsQueues ==
  ASSUME QInv, NEW w \in Worker, NEW t \in Tx,
         \/ Opened(w, t) \/ OpenFailed(w, t) \/ Closed(w, t)
         \/ \E kind \in OpKinds : Operated(w, t, kind)
  PROVE  Queues' /\ Forward
<1>1. TypeOK
  BY DEF QInv, MInv, IInv
<1>2. PICK c, results : Answers(w, c, results) /\ Settle(w, c)
  BY DEF Opened, OpenFailed, Closed, Operated
<1>3. \A v \in Worker : /\ Said(v)' \subseteq Said(v)
                        /\ pending[v] \ Answered(v) \subseteq pending'[v]
                        /\ pending'[v] \subseteq pending[v]
  BY <1>1, <1>2, SettledAnswer
<1>4. /\ UNCHANGED <<home, destroyed, inbox, txs, spent>>
      /\ \A u \in Tx \ {t} : status'[u] = status[u]
  BY <1>1 DEF Opened, OpenFailed, Closed, Operated, poolVars, txVars, TypeOK
<1>5. /\ status[t] # "idle" => status'[t] # "idle"
      /\ status[t] \in {"closing", "closed"} => status'[t] \in {"closing", "closed"}
  <2>1. /\ Call("newTx", t) \in pending[w] => status[t] = "opening"
        /\ Call("close", t) \in pending[w] => status[t] = "closing"
    BY DEF QInv, MInv, IInv, CallsMatchHandles
  <2>2. CASE Opened(w, t) \/ OpenFailed(w, t)
    BY <1>1, <2>1, <2>2 DEF Opened, OpenFailed, Answers, TypeOK
  <2>3. CASE Closed(w, t)
    BY <1>1, <2>1, <2>3 DEF Closed, Answers, TypeOK
  <2>4. CASE \E kind \in OpKinds : Operated(w, t, kind)
    BY <2>4 DEF Operated, txVars
  <2>5. QED
    BY <2>2, <2>3, <2>4
<1>6. \A v \in Worker :
        /\ stage'[v] # stage[v] => stage[v] = "unspawned" /\ stage'[v] = "booting"
        /\ thread'[v] # thread[v] => thread'[v] \in Running
  <2>1. CASE Opened(w, t) /\ RotationDue(w)
    <3> DEFINE n == spawned + 1
    <3>1. /\ n \in Worker /\ stage' = [stage EXCEPT ![n] = "booting"]
          /\ thread' = [thread EXCEPT ![n] = "starting"]
      BY <2>1 DEF Opened
    <3>2. n > spawned
      BY <1>1, SizeAssumption, WorkersAssumption DEF TypeOK
    <3>3. stage[n] = "unspawned"
      BY <3>1, <3>2 DEF QInv, MInv, IInv, StagesMatchCalls
    <3> HIDE DEF n
    <3>4. QED
      BY <1>1, <3>1, <3>3 DEF TypeOK, Running
  <2>2. CASE ~(Opened(w, t) /\ RotationDue(w))
    BY <2>2 DEF Opened, OpenFailed, Closed, Operated
  <2>3. QED
    BY <2>1, <2>2
<1>7. Queues'
  BY <1>3, <1>4, <1>6, SettlingKeepsQueues
<1>8. Forward
  BY <1>3, <1>4, <1>5, <1>6 DEF Forward, Early
<1>9. QED
  BY <1>7, <1>8

(* The steps of a rotation that post nothing.                              *)
LEMMA SettlingStepsKeepQueues ==
  ASSUME QInv, NEW w \in Worker,
         Swapped(w) \/ GiveUp(w) \/ ShutDown(w) \/ DestroyShutDown(w)
  PROVE  Queues' /\ Forward
<1>1. TypeOK /\ InSlots \subseteq Worker
  BY SlotsAreWorkers DEF QInv, MInv, IInv
<1>2. PICK c, results : Answers(w, c, results) /\ Settle(w, c)
  BY DEF Swapped, GiveUp, ShutDown, DestroyShutDown
<1>3. \A v \in Worker : /\ Said(v)' \subseteq Said(v)
                        /\ pending[v] \ Answered(v) \subseteq pending'[v]
                        /\ pending'[v] \subseteq pending[v]
  BY <1>1, <1>2, SettledAnswer
<1>4. UNCHANGED <<home, destroyed, inbox, txs, spent, status, thread>>
  BY DEF Swapped, GiveUp, ShutDown, DestroyShutDown, poolVars, txVars
<1>5. \A v \in Worker :
        /\ stage'[v] \in {"unspawned", "booting"} => stage[v] \in {"unspawned", "booting"}
        /\ stage'[v] \in Early => stage[v] \in Early
  <2>1. CASE Swapped(w)
    <3>1. /\ stage' = [stage EXCEPT ![w] = "active", ![replaces[w]] = "draining"]
          /\ InitCall \in pending[w] /\ replaces[w] \in InSlots
      BY <2>1 DEF Swapped, Answers, Wanted, InitCall
    <3>2. stage[w] = "initing" /\ stage[replaces[w]] = "active"
      BY <3>1 DEF QInv, MInv, IInv, StagesMatchCalls, InitCall
    <3>3. QED
      BY <1>1, <3>1, <3>2 DEF TypeOK, Early
  <2>2. CASE GiveUp(w)
    BY <1>1, <2>2 DEF GiveUp, TypeOK, Early
  <2>3. CASE ShutDown(w)
    BY <1>1, <2>3 DEF ShutDown, TypeOK, Early
  <2>4. CASE DestroyShutDown(w)
    BY <2>4 DEF DestroyShutDown
  <2>5. QED
    BY <2>1, <2>2, <2>3, <2>4
<1>6. Queues'
  BY <1>3, <1>4, SettlingKeepsQueues
<1>7. Forward
  BY <1>3, <1>4, <1>5 DEF Forward
<1>8. QED
  BY <1>6, <1>7

(* ... and those that post init or shutdown.                               *)
LEMMA PostingStepsKeepQueues ==
  ASSUME QInv, NEW w \in Worker, Online(w) \/ TooLate(w) \/ Drained(w)
  PROVE  /\ Queues' /\ Forward
         /\ \A v \in Worker : Sent(v)' \subseteq Sent(v) \cup {InitCall, Shut}
<1>1. TypeOK
  BY DEF QInv, MInv, IInv
<1> DEFINE c == IF Online(w) THEN InitCall ELSE Shut
<1>2. /\ \A v \in Worker \ {w} : UNCHANGED <<pending[v], inbox[v], thread[v], stage[v]>>
      /\ UNCHANGED <<home, destroyed, status, txs, spent>>
  BY <1>1 DEF Online, TooLate, Drained, Post, poolVars, txVars, TypeOK
<1>3. /\ inbox'[w] = IF thread[w] \in Running THEN Append(inbox[w], c) ELSE inbox[w]
      /\ thread'[w] \in Running <=> thread[w] \in Running
  <2>1. CASE Online(w)
    BY <1>1, <2>1 DEF Online, Post, TypeOK, InitCall, Running
  <2>2. CASE ~Online(w)
    BY <1>1, <2>2 DEF TooLate, Drained, Post, TypeOK, Shut
  <2>3. QED
    BY <2>1, <2>2
<1>4. /\ c \notin pending[w] \cup Answered(w)
      /\ pending[w] \ Answered(w) \subseteq pending'[w]
      /\ pending'[w] \subseteq pending[w] \cup {c} /\ c \in pending'[w]
      /\ stage[w] = "booting" => stage'[w] = "initing"
      /\ stage[w] # "unspawned" /\ stage'[w] \notin {"unspawned", "booting"}
      /\ stage'[w] \in Early => stage[w] \in Early
      /\ \A v \in Worker : Said(v)' \subseteq Said(v)
  <2>1. /\ InitCall \in pending[w] => stage[w] = "initing"
        /\ Shut \in pending[w] => stage[w] \in {"shutdown", "discarding"}
        /\ InitCall \in Answered(w) => stage[w] \notin {"unspawned", "booting"}
        /\ Shut \in Answered(w) => stage[w] \notin Early
    BY DEF QInv, MInv, IInv, StagesMatchCalls, AnswersMatchHandles, InitCall, Shut
  <2>2. CASE Online(w)
    <3>1. /\ stage[w] = "booting" /\ stage'[w] = "initing" /\ outbox' = outbox
          /\ pending'[w] = pending[w] \cup {InitCall}
      BY <1>1, <2>2 DEF Online, Post, TypeOK, InitCall
    <3>2. QED
      BY <2>1, <2>2, <3>1 DEF Early, Said
  <2>3. CASE TooLate(w) /\ ~Online(w)
    <3>1. /\ Answers(w, InitCall, Resolving) /\ InitCall \in pending[w]
          /\ stage'[w] = "discarding"
          /\ pending'[w] = (pending[w] \ {InitCall}) \cup {Shut}
      BY <1>1, <2>3 DEF TooLate, Answers, TypeOK, InitCall, Shut
    <3>2. /\ \A v \in Worker : Said(v)' \subseteq Said(v)
          /\ InitCall \in Answered(w)
      <4>1. outbox[w] \in Seq(Replies) /\ outbox[w] # <<>>
            /\ Head(outbox[w]).call = InitCall
        BY <1>1, <3>1 DEF Answers, TypeOK
      <4>2. 1 \in DOMAIN outbox[w] /\ outbox[w][1] = Head(outbox[w])
        BY <4>1
      <4>3. QED
        BY <1>1, <3>1, <4>1, <4>2, AnswersShrink DEF Answered
    <3>3. QED
      BY <2>1, <2>3, <3>1, <3>2 DEF Early
  <2>4. CASE Drained(w) /\ ~Online(w)
    <3>1. /\ stage[w] = "draining" /\ stage'[w] = "shutdown" /\ outbox' = outbox
          /\ pending'[w] = pending[w] \cup {Shut}
      BY <1>1, <2>4 DEF Drained, Post, TypeOK, Shut
    <3>2. QED
      BY <2>1, <2>4, <3>1 DEF Early, Said
  <2>5. QED
    BY <2>2, <2>3, <2>4
<1>5. c \in {InitCall, Shut} /\ c \in Calls /\ c # Stop
  BY CallNames
<1> HIDE DEF c
<1>6. ASSUME NEW v \in Worker
      PROVE  QueueFits(v)' /\ Sent(v)' \subseteq Sent(v) \cup {c}
  <2>1. QueueFits(v) /\ Answered(v)' \subseteq Answered(v)
    BY <1>4, AnsweredShrinks DEF QInv, Queues
  <2>2. CASE v = w
    <3>1. Sent(w) \cup {c} \subseteq pending'[w]
      BY <1>4, <2>1, <2>2 DEF QueueFits
    <3>2. QED
      BY <1>1, <1>3, <1>4, <1>5, <2>1, <2>2, <3>1, PostKeepsQueue
  <2>3. CASE v # w
    <3>1. Sent(v) \subseteq pending'[v]
      BY <1>2, <2>1, <2>3 DEF QueueFits
    <3>2. QED
      BY <1>2, <2>1, <2>3, <3>1, IdleQueue
  <2>4. QED
    BY <2>2, <2>3
<1>7. Forward
  BY <1>2, <1>4, <1>5 DEF Forward
<1>8. QED
  BY <1>5, <1>6, <1>7 DEF Queues

(* 'error' and 'exit'.                                                     *)
LEMMA DeathKeepsQueues ==
  ASSUME QInv, NEW w \in Worker, ErrorEvent(w) \/ ExitEvent(w)
  PROVE  Queues' /\ Forward
<1>1. TypeOK
  BY DEF QInv, MInv, IInv
<1>2. PICK gone \in BOOLEAN : RejectPending(w, gone)
  BY DEF ErrorEvent, ExitEvent
<1>3. /\ UNCHANGED <<home, destroyed, inbox, outbox, txs, spent>>
      /\ thread[w] \in {"failed", "dead"}
      /\ \A v \in Worker \ {w} : thread'[v] = thread[v]
  BY <1>1 DEF ErrorEvent, ExitEvent, TypeOK
<1>4. \A v \in Worker : pending'[v] = IF v = w THEN {} ELSE pending[v]
  BY <1>1, <1>2 DEF RejectPending, TypeOK
<1>5. \A v \in Worker : Said(v)' = Said(v)
  BY <1>3 DEF Said
<1>6. Queues'
  <2>1. thread[w] \notin Running
    BY <1>3 DEF Running
  <2>2. QED
    BY <1>3, <1>4, <1>5, <2>1, SettlingKeepsQueues
<1>7. \A t \in Tx :
        /\ status[t] # "idle" => status'[t] # "idle"
        /\ status[t] \in {"closing", "closed"} => status'[t] \in {"closing", "closed"}
  <2>1. \A t \in Tx : Call("newTx", t) \in pending[w] => status[t] = "opening"
    BY DEF QInv, MInv, IInv, CallsMatchHandles
  <2>2. QED
    BY <1>2, <2>1 DEF RejectPending
<1>8. \A v \in Worker :
        \/ stage'[v] = stage[v]
        \/ stage'[v] \in {"failed", "terminating", "retired", "discarded"}
  BY <1>1, <1>2 DEF RejectPending, TypeOK
<1>9. Forward
  BY <1>3, <1>4, <1>5, <1>7, <1>8 DEF Forward, Early
<1>10. QED
  BY <1>6, <1>9

LEMMA MainKeepsQueues ==
  ASSUME QInv, NEW w \in Worker, Main(w)
  PROVE  /\ Queues' /\ AnswersMatchHandles' /\ Forward
         /\ \A v \in Worker : Sent(v)' \subseteq Sent(v) \cup {InitCall, Shut}
<1>1. /\ Queues' /\ Forward
      /\ \/ \A v \in Worker : Sent(v)' \subseteq Sent(v) \cup {InitCall, Shut}
         \/ inbox' = inbox
  <2>1. CASE Dropped(w)
    <3>1. UNCHANGED <<inbox, pending, stage, status, home, destroyed, txs, spent,
                     thread>>
      BY <2>1 DEF Dropped, poolVars, slotVars, txVars
    <3>2. \A v \in Worker : Said(v)' \subseteq Said(v)
      BY <2>1, DroppedShrinks DEF QInv, MInv, IInv
    <3>3. Queues'
      BY <3>1, <3>2, SettlingKeepsQueues
    <3>4. QED
      BY <3>1, <3>2, <3>3 DEF Forward
  <2>2. ASSUME NEW t \in Tx,
               \/ Opened(w, t) \/ OpenFailed(w, t) \/ Closed(w, t)
               \/ \E kind \in OpKinds : Operated(w, t, kind)
        PROVE  Queues' /\ Forward /\ inbox' = inbox
    BY <2>2, CallEndsKeepsQueues DEF Opened, OpenFailed, Closed, Operated
  <2>3. ASSUME Swapped(w) \/ GiveUp(w) \/ ShutDown(w) \/ DestroyShutDown(w)
        PROVE  Queues' /\ Forward /\ inbox' = inbox
    BY <2>3, SettlingStepsKeepQueues DEF Swapped, GiveUp, ShutDown, DestroyShutDown
  <2>4. ASSUME ErrorEvent(w) \/ ExitEvent(w)
        PROVE  Queues' /\ Forward /\ inbox' = inbox
    BY <2>4, DeathKeepsQueues DEF ErrorEvent, ExitEvent
  <2>5. QED
    BY <2>1, <2>2, <2>3, <2>4, PostingStepsKeepQueues DEF Main
<1>2. inbox' = inbox => \A v \in Worker : Sent(v)' = Sent(v)
  BY DEF Sent
<1>3. QED
  BY <1>1, <1>2, ForwardKeepsAnswers

LEMMA DestroyKeepsQueues ==
  ASSUME QInv, Destroy
  PROVE  /\ Queues' /\ AnswersMatchHandles'
         /\ \A v \in Worker : /\ Sent(v)' \subseteq Sent(v) \cup {Stop}
                              /\ Said(v)' = Said(v)
<1>1. TypeOK
  BY DEF QInv, MInv, IInv
<1>2. /\ ~destroyed /\ destroyed'
      /\ UNCHANGED <<thread, outbox, stage, status, home>>
      /\ \A v \in Worker :
           /\ pending'[v] = IF v \in Active THEN pending[v] \cup {Stop} ELSE pending[v]
           /\ inbox'[v] = IF v \in Active /\ thread[v] \in Running
                          THEN Append(inbox[v], Stop) ELSE inbox[v]
  BY DEF Destroy, txVars, Stop
<1>3. \A v \in Worker : Said(v)' = Said(v) /\ Answered(v)' = Answered(v)
  BY <1>2 DEF Said, Answered
<1>4. \A v \in Worker : Stop \notin pending[v] \cup Answered(v)
  BY <1>2 DEF QInv, AnswersMatchHandles
<1>5. ASSUME NEW v \in Worker
      PROVE  QueueFits(v)' /\ Sent(v)' \subseteq Sent(v) \cup {Stop}
  <2>1. QueueFits(v) /\ Stop \in Calls
    BY CallNames DEF QInv, Queues
  <2>2. Sent(v) \subseteq pending'[v]
    BY <1>2, <2>1 DEF QueueFits
  <2>3. CASE v \in Active
    <3>1. Sent(v) \cup {Stop} \subseteq pending'[v]
      BY <1>2, <2>2, <2>3
    <3>2. QED
      BY <1>1, <1>2, <1>3, <1>4, <2>1, <2>3, <3>1, PostKeepsQueue
  <2>4. CASE v \notin Active
    BY <1>2, <1>3, <2>1, <2>2, <2>4, IdleQueue
  <2>5. QED
    BY <2>3, <2>4
<1>6. AnswersMatchHandles'
  BY <1>2, <1>3 DEF QInv, AnswersMatchHandles
<1>7. QED
  BY <1>3, <1>5, <1>6 DEF Queues

-----------------------------------------------------------------------------
(* The thread.                                                             *)

(* w answers c, the first call of its queue.                               *)
TakesFirst(w, c, r) ==
  /\ Reply(w, c, r)
  /\ \/ /\ Take(w)
        /\ thread'[w] \in Running
     \/ inbox' = [inbox EXCEPT ![w] = <<>>]
  /\ UNCHANGED <<poolVars, slotVars, txVars>>
  /\ \A v \in Worker \ {w} : thread'[v] = thread[v]

LEMMA HandlingKeepsQueues ==
  ASSUME QInv, NEW w \in Worker, NEW c \in Calls, NEW r \in Results,
         TakesFirst(w, c, r)
  PROVE  /\ Queues' /\ AnswersMatchHandles'
         /\ c \in Sent(w) /\ Sent(w)' \subseteq Sent(w) \ {c}
         /\ \A v \in Worker \ {w} : Sent(v)' = Sent(v)
<1>1. TypeOK /\ QueueFits(w)
  BY DEF QInv, MInv, IInv, Queues
<1>2. /\ UNCHANGED <<pending, status, home, stage, destroyed>>
      /\ Reply(w, c, r)
      /\ \A v \in Worker \ {w} : UNCHANGED <<inbox[v], outbox[v], thread[v]>>
  BY <1>1 DEF TakesFirst, Reply, Take, poolVars, slotVars, txVars, TypeOK
<1>3. \/ inbox'[w] = Tail(inbox[w]) /\ thread'[w] \in Running
      \/ inbox'[w] = <<>>
  BY <1>1 DEF TakesFirst, Take, TypeOK
<1>4. /\ QueueFits(w)' /\ c \in Sent(w) /\ Sent(w)' \subseteq Sent(w) \ {c}
      /\ Answered(w)' = Answered(w) \cup {c}
  BY <1>1, <1>2, <1>3, TakeKeepsQueue
<1>5. ASSUME NEW v \in Worker \ {w}
      PROVE  QueueFits(v)' /\ Sent(v)' = Sent(v) /\ Answered(v)' = Answered(v)
  <2>1. Answered(v)' = Answered(v)
    BY <1>2, <1>5 DEF Answered
  <2>2. QueueFits(v)
    BY DEF QInv, Queues
  <2>3. QED
    BY <1>2, <2>1, <2>2, IdleQueue DEF QueueFits
<1>6. c \in pending[w]
  BY <1>1, <1>4 DEF QueueFits
<1>7. /\ c = InitCall => stage[w] = "initing"
      /\ c = Shut => stage[w] \in {"shutdown", "discarding"}
      /\ c = Stop => destroyed
      /\ \A t \in Tx : /\ c = Call("newTx", t) => status[t] = "opening" /\ home[t] = w
                       /\ c = Call("close", t) => status[t] = "closing" /\ home[t] = w
  BY <1>6 DEF QInv, MInv, IInv, StagesMatchCalls, CallsMatchHandles,
     AnswersMatchHandles, InitCall, Shut
<1>8. AnswersMatchHandles'
  BY <1>2, <1>4, <1>5, <1>7 DEF QInv, AnswersMatchHandles, Early
<1>9. QED
  BY <1>4, <1>5, <1>8 DEF Queues

LEMMA EndingKeepsQueues ==
  ASSUME QInv, NEW w \in Worker, NEW to, ThreadEnds(w, to)
  PROVE  /\ Queues' /\ AnswersMatchHandles'
         /\ \A v \in Worker : Sent(v)' \subseteq Sent(v)
<1>1. TypeOK
  BY DEF QInv, MInv, IInv
<1>2. /\ UNCHANGED <<pending, outbox, status, home, stage, destroyed>>
      /\ inbox'[w] = <<>>
      /\ \A v \in Worker \ {w} : UNCHANGED <<inbox[v], thread[v]>>
  BY <1>1 DEF ThreadEnds, poolVars, slotVars, txVars, TypeOK
<1>3. \A v \in Worker : Answered(v)' = Answered(v)
  BY <1>2 DEF Answered
<1>4. QueueFits(w)' /\ Sent(w)' = {}
  <2>1. Sent(w)' = {}
    BY <1>2 DEF Sent
  <2>2. QED
    BY <1>2, <2>1 DEF QueueFits
<1>5. ASSUME NEW v \in Worker \ {w}
      PROVE  QueueFits(v)' /\ Sent(v)' = Sent(v)
  <2>1. QueueFits(v)
    BY DEF QInv, Queues
  <2>2. QED
    BY <1>2, <1>3, <2>1, IdleQueue DEF QueueFits
<1>6. AnswersMatchHandles'
  BY <1>2, <1>3 DEF QInv, AnswersMatchHandles
<1>7. QED
  BY <1>4, <1>5, <1>6 DEF Queues

LEMMA HandlersHandle ==
  ASSUME TypeOK, NEW w \in Worker
  PROVE  /\ HandleInit(w) => \E r \in {"ok", "error"} : TakesFirst(w, InitCall, r)
         /\ \A t \in Tx :
              /\ HandleNewTx(w, t) =>
                   \E r \in {"ok", "error"} : TakesFirst(w, Call("newTx", t), r)
              /\ HandleClose(w, t) =>
                   \E r \in {"ok", "error"} : TakesFirst(w, Call("close", t), r)
              /\ \A kind \in OpKinds : HandleOp(w, t, kind) =>
                   \E r \in {"ok", "unknown tx"} : TakesFirst(w, Call(kind, t), r)
         /\ \A by \in {"rotation", "destroy"} : HandleShutdown(w, by) =>
              \E r \in {"ok", "error"} : TakesFirst(w, Call("shutdown", by), r)
<1>1. \A c, r : Reply(w, c, r) => thread[w] \in Running
  BY DEF Reply, Running
<1>2. HandleInit(w) => \E r \in {"ok", "error"} : TakesFirst(w, InitCall, r)
  <2>1. thread' = [thread EXCEPT ![w] = "serving"] =>
          /\ thread'[w] \in Running
          /\ \A v \in Worker \ {w} : thread'[v] = thread[v]
    BY DEF TypeOK, Running
  <2>2. QED
    BY <1>1, <2>1 DEF HandleInit, TakesFirst, InitCall
<1>3. ASSUME NEW t \in Tx, HandleNewTx(w, t)
      PROVE  \E r \in {"ok", "error"} : TakesFirst(w, Call("newTx", t), r)
  BY <1>1, <1>3 DEF HandleNewTx, TakesFirst
<1>4. ASSUME NEW t \in Tx, HandleClose(w, t)
      PROVE  \E r \in {"ok", "error"} : TakesFirst(w, Call("close", t), r)
  BY <1>1, <1>4 DEF HandleClose, TakesFirst
<1>5. ASSUME NEW t \in Tx, NEW kind \in OpKinds, HandleOp(w, t, kind)
      PROVE  \E r \in {"ok", "unknown tx"} : TakesFirst(w, Call(kind, t), r)
  BY <1>1, <1>5 DEF HandleOp, TakesFirst
<1>6. ASSUME NEW by \in {"rotation", "destroy"}, HandleShutdown(w, by)
      PROVE  \E r \in {"ok", "error"} : TakesFirst(w, Call("shutdown", by), r)
  <2>1. thread' = [thread EXCEPT ![w] = "closed"] =>
          \A v \in Worker \ {w} : thread'[v] = thread[v]
    BY DEF TypeOK
  <2>2. QED
    BY <1>1, <1>6, <2>1 DEF HandleShutdown, TakesFirst
<1>7. QED
  BY <1>2, <1>3, <1>4, <1>5, <1>6

LEMMA ThreadKeepsQueues ==
  ASSUME QInv, NEW w \in Worker, Thread(w) \/ Crash(w)
  PROVE  Queues' /\ AnswersMatchHandles'
<1>1. TypeOK
  BY DEF QInv, MInv, IInv
<1>2. /\ {"ok", "error", "unknown tx"} \subseteq Results
      /\ InitCall \in Calls
      /\ \A t \in Tx, op \in {"newTx", "close"} \cup OpKinds : Call(op, t) \in Calls
      /\ \A by \in {"rotation", "destroy"} : Call("shutdown", by) \in Calls
  BY CallNames DEF Results, OpKinds, Shut, Stop
<1>3. CASE HandleInit(w)
  <2>1. PICK r \in {"ok", "error"} : TakesFirst(w, InitCall, r)
    BY <1>1, <1>3, HandlersHandle
  <2>2. InitCall \in Calls /\ r \in Results
    BY <1>2
  <2>3. QED
    BY <2>1, <2>2, HandlingKeepsQueues
<1>4. ASSUME NEW t \in Tx, HandleNewTx(w, t) \/ HandleClose(w, t)
      PROVE  Queues' /\ AnswersMatchHandles'
  <2>1. PICK op \in {"newTx", "close"} :
          \E r \in {"ok", "error"} : TakesFirst(w, Call(op, t), r)
    BY <1>1, <1>4, HandlersHandle
  <2>2. PICK r \in {"ok", "error"} : TakesFirst(w, Call(op, t), r)
    BY <2>1
  <2>3. Call(op, t) \in Calls /\ r \in Results
    BY <1>2
  <2>4. QED
    BY <2>2, <2>3, HandlingKeepsQueues
<1>5. ASSUME NEW t \in Tx, NEW kind \in OpKinds, HandleOp(w, t, kind)
      PROVE  Queues' /\ AnswersMatchHandles'
  <2>1. PICK r \in {"ok", "unknown tx"} : TakesFirst(w, Call(kind, t), r)
    BY <1>1, <1>5, HandlersHandle
  <2>2. Call(kind, t) \in Calls /\ r \in Results
    BY <1>2
  <2>3. QED
    BY <2>1, <2>2, HandlingKeepsQueues
<1>6. ASSUME NEW by \in {"rotation", "destroy"}, HandleShutdown(w, by)
      PROVE  Queues' /\ AnswersMatchHandles'
  <2>1. PICK r \in {"ok", "error"} : TakesFirst(w, Call("shutdown", by), r)
    BY <1>1, <1>6, HandlersHandle
  <2>2. Call("shutdown", by) \in Calls /\ r \in Results
    BY <1>2
  <2>3. QED
    BY <2>1, <2>2, HandlingKeepsQueues
<1>7. CASE Exit(w) \/ Crash(w)
  <2>1. PICK to \in {"dead", "failed"} : ThreadEnds(w, to)
    BY <1>7 DEF Exit, Crash
  <2>2. QED
    BY <2>1, EndingKeepsQueues
<1>8. QED
  BY <1>3, <1>4, <1>5, <1>6, <1>7 DEF Thread

LEMMA StepKeepsQueues ==
  ASSUME QInv, [Next]_vars
  PROVE  Queues' /\ AnswersMatchHandles'
<1>1. CASE UNCHANGED vars
  <2>1. UNCHANGED <<thread, inbox, outbox, pending, stage, status, home, destroyed>>
    BY <1>1 DEF vars, poolVars, slotVars, threadVars, txVars
  <2>2. Queues' /\ \A v \in Worker : Answered(v)' = Answered(v)
    BY <2>1, SameQueues DEF QInv
  <2>3. QED
    BY <2>1, <2>2 DEF QInv, AnswersMatchHandles
<1>2. ASSUME NEW t \in Tx, Client(t)
      PROVE  Queues' /\ AnswersMatchHandles'
  BY <1>2, ClientKeepsQueues
<1>3. ASSUME NEW w \in Worker, Main(w)
      PROVE  Queues' /\ AnswersMatchHandles'
  BY <1>3, MainKeepsQueues
<1>4. ASSUME NEW w \in Worker, Thread(w) \/ Crash(w)
      PROVE  Queues' /\ AnswersMatchHandles'
  BY <1>4, ThreadKeepsQueues
<1>5. QED
  BY <1>1, <1>2, <1>3, <1>4, DestroyKeepsQueues DEF Next

LEMMA QueuesAtFirst ==
  ASSUME Init
  PROVE  Queues /\ AnswersMatchHandles
<1>1. \A w \in Worker : /\ inbox[w] = <<>> /\ outbox[w] = <<>> /\ pending[w] = {}
                        /\ Sent(w) = {} /\ Answered(w) = {}
  BY DEF Init, Sent, Answered
<1>2. QED
  BY <1>1 DEF Queues, QueueFits, AnswersMatchHandles

(* The invariant that carries the argument.                                *)
THEOREM QueuesHold == Spec => []QInv
<1>1. Init => Queues /\ AnswersMatchHandles
  BY QueuesAtFirst
<1>2. /\ MInv /\ Queues /\ AnswersMatchHandles /\ [Next]_vars
      => Queues' /\ AnswersMatchHandles'
  BY StepKeepsQueues DEF QInv
<1>3. QED
  BY <1>1, <1>2, MembershipHolds, PTL DEF Spec, QInv

-----------------------------------------------------------------------------
(* What tx.close() has thrown on.  Its handle has called close(), and the  *)
(* call is no longer queued: the worker tries it once.                     *)

SpentFits ==
  \A t \in spent : /\ status[t] \in {"closing", "closed"}
                   /\ \A w \in Worker : Call("close", t) \notin Sent(w)

LEMMA PostSends ==
  ASSUME TypeOK, NEW w, NEW c \in Calls, Post(w, c), NEW v \in Worker
  PROVE  Sent(v)' \subseteq Sent(v) \cup {c}
<1>1. inbox[v] \in Seq(Calls) /\ (inbox'[v] = inbox[v] \/ inbox'[v] = Append(inbox[v], c))
  BY DEF Post, TypeOK
<1>2. CASE inbox'[v] = inbox[v]
  BY <1>2 DEF Sent
<1>3. CASE inbox'[v] = Append(inbox[v], c)
  BY <1>1, <1>3, AppendAdds DEF Sent
<1>4. QED
  BY <1>1, <1>2, <1>3

LEMMA ClientKeepsSpent ==
  ASSUME QInv, SpentFits, NEW t \in Tx, Client(t)
  PROVE  SpentFits'
<1>1. TypeOK
  BY DEF QInv, MInv, IInv
<1>2. spent' = spent /\ spent \subseteq Tx
  BY <1>1 DEF Client, NewTransaction, NewTransactionDestroyed, Close, Operate, threadVars,
     TypeOK
<1>3. \A u \in Tx \ {t} : status'[u] = status[u]
  BY <1>1 DEF Client, NewTransaction, NewTransactionDestroyed, Close, Operate, txVars, TypeOK
<1>4. CASE NewTransactionDestroyed(t)
  <2>1. status[t] = "idle" /\ \A v \in Worker : Sent(v)' = Sent(v)
    BY <1>4 DEF NewTransactionDestroyed, threadVars, Sent
  <2>2. QED
    BY <1>2, <1>3, <2>1 DEF SpentFits
<1>5. ASSUME NEW op \in {"newTx", "close", "proc", "reset"}, NEW w, Post(w, Call(op, t)),
             \/ status[t] \notin {"closing", "closed"}
             \/ status'[t] = status[t] /\ op # "close"
      PROVE  SpentFits'
  <2>1. Call(op, t) \in Calls
    BY CallNames
  <2>2. \A v \in Worker : Sent(v)' \subseteq Sent(v) \cup {Call(op, t)}
    BY <1>1, <1>5, <2>1, PostSends
  <2>3. \A u \in spent : status'[u] = status[u] /\ Call(op, t) # Call("close", u)
    BY <1>2, <1>3, <1>5, CallsDiffer DEF SpentFits
  <2>4. QED
    BY <1>2, <2>2, <2>3 DEF SpentFits
<1>6. CASE NewTransaction(t)
  BY <1>5, <1>6 DEF NewTransaction
<1>7. CASE Close(t)
  BY <1>5, <1>7 DEF Close
<1>8. ASSUME NEW kind \in OpKinds, Operate(t, kind)
      PROVE  SpentFits'
  BY <1>5, <1>8 DEF Operate, OpKinds, txVars
<1>9. QED
  BY <1>4, <1>6, <1>7, <1>8 DEF Client

LEMMA ThreadKeepsSpent ==
  ASSUME QInv, SpentFits, NEW w \in Worker, Thread(w) \/ Crash(w)
  PROVE  SpentFits'
<1>1. TypeOK /\ spent \subseteq Tx
  BY DEF QInv, MInv, IInv, TypeOK
<1>2. status' = status
  BY DEF Thread, Crash, HandleInit, HandleNewTx, HandleClose, HandleOp, HandleShutdown,
     Exit, ThreadEnds, txVars
<1>3. ASSUME NEW c \in Calls, NEW r \in Results, TakesFirst(w, c, r)
      PROVE  /\ c \in pending[w]
             /\ \A v \in Worker : Sent(v)' \subseteq Sent(v)
             /\ c \notin Sent(w)'
  <2>1. /\ c \in Sent(w) /\ Sent(w)' \subseteq Sent(w) \ {c}
        /\ \A v \in Worker \ {w} : Sent(v)' = Sent(v)
    BY <1>3, HandlingKeepsQueues
  <2>2. QED
    BY <2>1 DEF QInv, Queues, QueueFits
<1>4. ASSUME NEW t \in Tx, HandleClose(w, t)
      PROVE  SpentFits'
  <2>1. PICK r \in {"ok", "error"} : TakesFirst(w, Call("close", t), r)
    BY <1>1, <1>4, HandlersHandle
  <2>2. Call("close", t) \in Calls /\ r \in Results
    BY CallNames DEF Results
  <2>3. /\ Call("close", t) \in pending[w] /\ Call("close", t) \notin Sent(w)'
        /\ \A v \in Worker : Sent(v)' \subseteq Sent(v)
    BY <1>3, <2>1, <2>2
  <2>4. status[t] = "closing" /\ home[t] = w
    BY <2>3 DEF QInv, MInv, IInv, CallsMatchHandles
  <2>5. \A v \in Worker : v # w => Call("close", t) \notin Sent(v)
    BY <2>4 DEF QInv, Queues, QueueFits, MInv, IInv, CallsMatchHandles
  <2>6. spent' = spent \/ spent' = spent \cup {t}
    BY <1>4 DEF HandleClose
  <2>7. QED
    BY <1>2, <2>3, <2>4, <2>5, <2>6 DEF SpentFits
<1>5. ASSUME ~\E t \in Tx : HandleClose(w, t)
      PROVE  SpentFits'
  <2>1. spent' = spent
    BY <1>5 DEF Thread, Crash, HandleInit, HandleNewTx, HandleOp, HandleShutdown, Exit,
       ThreadEnds
  <2>2. \A v \in Worker : Sent(v)' \subseteq Sent(v)
    <3>1. ASSUME NEW c \in Calls, \E r \in Results : TakesFirst(w, c, r)
          PROVE  \A v \in Worker : Sent(v)' \subseteq Sent(v)
      BY <1>3, <3>1
    <3>2. CASE HandleInit(w)
      BY <1>1, <3>1, <3>2, HandlersHandle, CallNames DEF Results
    <3>3. ASSUME NEW t \in Tx, HandleNewTx(w, t)
          PROVE  \A v \in Worker : Sent(v)' \subseteq Sent(v)
      <4>1. Call("newTx", t) \in Calls /\ {"ok", "error"} \subseteq Results
        BY CallNames DEF Results
      <4>2. PICK r \in {"ok", "error"} : TakesFirst(w, Call("newTx", t), r)
        BY <1>1, <3>3, HandlersHandle
      <4>3. QED
        BY <3>1, <4>1, <4>2
    <3>4. ASSUME NEW t \in Tx, NEW kind \in OpKinds, HandleOp(w, t, kind)
          PROVE  \A v \in Worker : Sent(v)' \subseteq Sent(v)
      <4>1. Call(kind, t) \in Calls
        BY CallNames DEF OpKinds
      <4>2. PICK r \in {"ok", "unknown tx"} : TakesFirst(w, Call(kind, t), r)
        BY <1>1, <3>4, HandlersHandle
      <4>3. r \in Results
        BY DEF Results
      <4>4. QED
        BY <3>1, <4>1, <4>2, <4>3
    <3>5. ASSUME NEW by \in {"rotation", "destroy"}, HandleShutdown(w, by)
          PROVE  \A v \in Worker : Sent(v)' \subseteq Sent(v)
      <4>1. Call("shutdown", by) \in Calls
        BY CallNames DEF Shut, Stop
      <4>2. \E r \in Results : TakesFirst(w, Call("shutdown", by), r)
        BY <1>1, <3>5, HandlersHandle DEF Results
      <4>3. QED
        BY <3>1, <4>1, <4>2
    <3>6. CASE Exit(w) \/ Crash(w)
      BY <3>6, EndingKeepsQueues DEF Exit, Crash
    <3>7. QED
      BY <1>5, <3>2, <3>3, <3>4, <3>5, <3>6 DEF Thread
  <2>3. QED
    BY <1>2, <2>1, <2>2 DEF SpentFits
<1>6. QED
  BY <1>4, <1>5

LEMMA StepKeepsSpent ==
  ASSUME QInv, SpentFits, [Next]_vars
  PROVE  SpentFits'
<1>1. spent \subseteq Tx
  BY DEF QInv, MInv, IInv, TypeOK
<1>2. CASE UNCHANGED vars
  <2>1. UNCHANGED <<spent, status, inbox>>
    BY <1>2 DEF vars, threadVars, txVars
  <2>2. \A w \in Worker : Sent(w)' = Sent(w)
    BY <2>1 DEF Sent
  <2>3. QED
    BY <2>1, <2>2 DEF SpentFits
<1>3. CASE Destroy
  <2>1. UNCHANGED <<spent, status>>
    BY <1>3 DEF Destroy, txVars
  <2>2. \A w \in Worker : Sent(w)' \subseteq Sent(w) \cup {Stop}
    BY <1>3, DestroyKeepsQueues
  <2>3. QED
    BY <1>1, <2>1, <2>2, CallNames DEF SpentFits
<1>4. ASSUME NEW w \in Worker, Main(w)
      PROVE  SpentFits'
  <2>1. Forward /\ \A v \in Worker : Sent(v)' \subseteq Sent(v) \cup {InitCall, Shut}
    BY <1>4, MainKeepsQueues
  <2>2. spent' = spent /\ \A t \in spent : status'[t] \in {"closing", "closed"}
    BY <1>1, <2>1 DEF Forward, SpentFits
  <2>3. QED
    BY <1>1, <2>1, <2>2, CallNames DEF SpentFits
<1>5. QED
  BY <1>2, <1>3, <1>4, ClientKeepsSpent, ThreadKeepsSpent DEF Next

(* Whatever tx.close() has thrown on belongs to a handle that has called   *)
(* close(), and is not closed a second time.                               *)
THEOREM SpentHolds == Spec => [](QInv /\ SpentFits)
<1>1. Init => SpentFits
  BY DEF Init, SpentFits
<1>2. QInv /\ SpentFits /\ [Next]_vars => SpentFits'
  BY StepKeepsSpent
<1>3. QED
  BY <1>1, <1>2, QueuesHold, PTL DEF Spec

-----------------------------------------------------------------------------
(***************************************************************************)
(* The maps.  A transaction is in a worker's map from the answer to newTx  *)
(* to the answer to close, and longer when tx.close() has thrown on it.    *)
(***************************************************************************)

Refusal(t) == [call |-> Call("newTx", t), result |-> "error"]
Grant(t) == [call |-> Call("newTx", t), result |-> "ok"]

(* A transaction whose handle is closed although tx.close() has thrown.    *)
LeftOver(t) == status[t] = "closed" /\ t \in spent

(* The transactions of w, its replies and its queue.                       *)
MapFits(w) ==
  /\ thread[w] \notin Running => txs[w] = {}
  /\ \A t \in txs[w] : home[t] = w /\ (status[t] \in Handles \/ LeftOver(t))
  /\ \A t \in Tx :
       /\ t \in txs[w] => /\ t \in spent \/ Call("close", t) \notin Answered(w)
                          /\ Call("newTx", t) \notin Sent(w)
                          /\ Refusal(t) \notin Said(w)
       /\ Grant(t) \in Said(w) /\ thread[w] = "serving" /\ ~destroyed
            /\ status[t] = "opening" => t \in txs[w]
       /\ home[t] = w /\ status[t] = "open" /\ thread[w] = "serving"
            /\ ~destroyed => t \in txs[w]

(* A guarded call in the queue comes before the close of its handle.       *)
ResetFirst(q, t) ==
  \A i, j \in DOMAIN q : q[i] = Call("reset", t) /\ q[j] = Call("close", t) => i < j

ResetsFit(w) ==
  ~destroyed => \A t \in Tx :
    /\ Call("reset", t) \in Sent(w)
         => home[t] = w /\ status[t] \in {"open", "closing"} /\ t \in txs[w] \ spent
    /\ ResetFirst(inbox[w], t)

Maps == \A w \in Worker : MapFits(w) /\ ResetsFit(w)

TInv == QInv /\ SpentFits /\ Maps /\ GuardedCallsFindTheirTx

LEMMA ResetFirstMoves ==
  ASSUME NEW q \in Seq(Calls), NEW t \in Tx, NEW c \in Calls
  PROVE  /\ ResetFirst(<<>>, t)
         /\ ResetFirst(q, t) /\ q # <<>> => ResetFirst(Tail(q), t)
         /\ ResetFirst(q, t) /\ c # Call("reset", t) => ResetFirst(Append(q, c), t)
         /\ (\A i \in DOMAIN q : q[i] # Call("close", t)) => ResetFirst(Append(q, c), t)
         /\ ResetFirst(q, t) /\ q # <<>> /\ Head(q) = Call("close", t)
              => \A i \in DOMAIN q : q[i] # Call("reset", t)
<1>1. ResetFirst(<<>>, t)
  BY DEF ResetFirst
<1>2. ASSUME ResetFirst(q, t), q # <<>>
      PROVE  ResetFirst(Tail(q), t)
  <2> DEFINE p == Tail(q)
  <2>1. /\ p \in Seq(Calls) /\ Len(q) \in Nat \ {0} /\ Len(p) = Len(q) - 1
        /\ DOMAIN q = 1 .. Len(q)
        /\ \A i \in 1 .. Len(p) : p[i] = q[i + 1]
    BY <1>2
  <2>2. DOMAIN p = 1 .. Len(p)
    BY <2>1
  <2> HIDE DEF p
  <2>3. ASSUME NEW i \in 1 .. Len(p), NEW j \in 1 .. Len(p),
               p[i] = Call("reset", t), p[j] = Call("close", t)
        PROVE  i < j
    <3>1. /\ q[i + 1] = Call("reset", t) /\ q[j + 1] = Call("close", t)
          /\ i + 1 \in 1 .. Len(q) /\ j + 1 \in 1 .. Len(q)
      BY <2>1, <2>3
    <3>2. i + 1 < j + 1
      BY <1>2, <2>1, <3>1 DEF ResetFirst
    <3>3. QED
      BY <3>2
  <2>4. ResetFirst(p, t)
    BY <2>2, <2>3 DEF ResetFirst
  <2>5. QED
    BY <2>4 DEF p
<1>3. ASSUME \/ ResetFirst(q, t) /\ c # Call("reset", t)
             \/ \A i \in DOMAIN q : q[i] # Call("close", t)
      PROVE  ResetFirst(Append(q, c), t)
  <2> DEFINE a == Append(q, c)
  <2>1. /\ DOMAIN a = 1 .. Len(q) + 1 /\ DOMAIN q = 1 .. Len(q) /\ Len(q) \in Nat
        /\ \A i \in DOMAIN q : a[i] = q[i]
        /\ a[Len(q) + 1] = c
    BY AppendAdds
  <2> HIDE DEF a
  <2>2. Call("reset", t) # Call("close", t)
    BY CallsDiffer
  <2>3. ResetFirst(a, t)
    BY <1>3, <2>1, <2>2 DEF ResetFirst
  <2>4. QED
    BY <2>3 DEF a
<1>4. ASSUME ResetFirst(q, t), q # <<>>, Head(q) = Call("close", t)
      PROVE  \A i \in DOMAIN q : q[i] # Call("reset", t)
  <2>1. DOMAIN q = 1 .. Len(q) /\ 1 \in DOMAIN q /\ q[1] = Call("close", t)
    BY <1>4
  <2>2. QED
    BY <1>4, <2>1 DEF ResetFirst
<1>5. QED
  BY <1>1, <1>2, <1>3, <1>4

LEMMA GuardedAsSaid ==
  /\ GuardedCallsFindTheirTx <=>
       \A w \in Worker : \A m \in Said(w) :
         m.call.op = "reset" /\ m.result = "unknown tx" => destroyed
  /\ GuardedCallsFindTheirTx' <=>
       \A w \in Worker : \A m \in Said(w)' :
         m.call.op = "reset" /\ m.result = "unknown tx" => destroyed'
BY DEF GuardedCallsFindTheirTx, Said

(* What a reply in the outbox says of its handle.                          *)
LEMMA RepliesTell ==
  ASSUME QInv, NEW w \in Worker, NEW t \in Tx,
         Refusal(t) \in Said(w) \/ Grant(t) \in Said(w)
  PROVE  /\ Call("newTx", t) \in Answered(w) /\ Call("newTx", t) \notin Sent(w)
         /\ home[t] = w /\ status[t] # "idle"
<1>1. Refusal(t).call = Call("newTx", t) /\ Grant(t).call = Call("newTx", t)
  BY DEF Refusal, Grant
<1>2. Call("newTx", t) \in Answered(w)
  BY <1>1, AnsweredIsSaid
<1>3. QED
  BY <1>2 DEF QInv, Queues, QueueFits, AnswersMatchHandles

(* A handle that ends has no transaction unless one is left over, one that *)
(* opens has one.                                                          *)
StatusFits ==
  \A t \in Tx :
    \/ status'[t] = status[t]
    \/ /\ status[t] = "opening" /\ status'[t] = "open"
       /\ Grant(t) \in Said(home[t])
    \/ /\ status'[t] \notin Handles
       /\ \A v \in Worker : t \in txs[v] => status'[t] = "closed" /\ t \in spent

(* The events on the main thread keep the maps.                            *)
LEMMA ForwardKeepsMaps ==
  ASSUME TInv, Forward, StatusFits,
         \A v \in Worker :
           /\ thread'[v] \notin Running => thread[v] \notin Running
           /\ thread'[v] = "serving" => thread[v] = "serving"
           /\ Sent(v)' \subseteq Sent(v) \cup {InitCall, Shut}
           /\ \/ inbox'[v] = inbox[v]
              \/ \E c \in {InitCall, Shut} : inbox'[v] = Append(inbox[v], c)
  PROVE  Maps' /\ GuardedCallsFindTheirTx'
<1>1. TypeOK /\ UNCHANGED <<txs, spent, home, destroyed>>
  BY DEF TInv, QInv, MInv, IInv, Forward
<1>2. \A v \in Worker : Said(v)' \subseteq Said(v) /\ Answered(v)' \subseteq Answered(v)
  BY AnsweredShrinks DEF Forward
<1>3. ASSUME NEW v \in Worker
      PROVE  MapFits(v)'
  <2>1. MapFits(v)
    BY DEF TInv, Maps
  <2>2. \A t \in Tx : Call("newTx", t) \in Sent(v)' => Call("newTx", t) \in Sent(v)
    BY CallNames
  <2>3. txs[v] \subseteq Tx
    BY <1>1 DEF TypeOK
  <2>4. \A t \in txs[v] : status'[t] \in Handles \/ LeftOver(t)'
    BY <1>1, <2>1, <2>3 DEF StatusFits, MapFits, LeftOver, Handles
  <2>5. ASSUME NEW t \in Tx, Grant(t) \in Said(v)', thread'[v] = "serving",
               ~destroyed, status'[t] = "opening"
        PROVE  t \in txs[v]
    BY <1>2, <2>1, <2>5 DEF StatusFits, MapFits, Handles
  <2>6. ASSUME NEW t \in Tx, home[t] = v, status'[t] = "open",
               thread'[v] = "serving", ~destroyed
        PROVE  t \in txs[v]
    BY <2>1, <2>6 DEF StatusFits, MapFits, Handles
  <2>7. QED
    BY <1>1, <1>2, <2>1, <2>2, <2>3, <2>4, <2>5, <2>6 DEF MapFits
<1>4. ASSUME NEW v \in Worker
      PROVE  ResetsFit(v)'
  <2> SUFFICES ASSUME ~destroyed, NEW t \in Tx
               PROVE  /\ Call("reset", t) \in Sent(v)' =>
                           /\ home[t] = v /\ status'[t] \in {"open", "closing"}
                           /\ t \in txs[v] \ spent
                      /\ ResetFirst(inbox'[v], t)
    BY <1>1 DEF ResetsFit
  <2>1. /\ Call("reset", t) \in Sent(v)
             => home[t] = v /\ status[t] \in {"open", "closing"} /\ t \in txs[v] \ spent
        /\ ResetFirst(inbox[v], t)
    BY DEF TInv, Maps, ResetsFit
  <2>2. Call("reset", t) \in Sent(v)' => Call("reset", t) \in Sent(v)
    BY CallNames
  <2>3. ResetFirst(inbox'[v], t)
    <3>1. inbox[v] \in Seq(Calls)
      BY <1>1 DEF TypeOK
    <3>2. CASE inbox'[v] = inbox[v]
      BY <2>1, <3>2
    <3>3. ASSUME NEW c \in {InitCall, Shut}, inbox'[v] = Append(inbox[v], c)
          PROVE  ResetFirst(inbox'[v], t)
      <4>1. c \in Calls /\ c # Call("reset", t)
        BY CallNames
      <4>2. ResetFirst(Append(inbox[v], c), t)
        BY <2>1, <3>1, <4>1, ResetFirstMoves
      <4>3. QED
        BY <3>3, <4>2
    <3>4. QED
      BY <3>2, <3>3
  <2>4. QED
    BY <2>1, <2>2, <2>3 DEF StatusFits, Handles
<1>5. GuardedCallsFindTheirTx'
  BY <1>1, <1>2, GuardedAsSaid DEF TInv
<1>6. QED
  BY <1>3, <1>4, <1>5 DEF Maps

LEMMA AnswerIsSaid ==
  ASSUME TypeOK, NEW w \in Worker, NEW c, NEW results, Answers(w, c, results)
  PROVE  /\ c \in Answered(w) /\ c \in pending[w]
         /\ \A r : results = {r} => [call |-> c, result |-> r] \in Said(w)
<1> DEFINE m == Head(outbox[w])
<1>1. outbox[w] \in Seq(Replies) /\ outbox[w] # <<>> /\ m.call = c
  BY DEF Answers, TypeOK
<1>2. m \in Said(w) /\ m \in Replies
  <2>1. 1 \in DOMAIN outbox[w] /\ outbox[w][1] = m /\ m \in Replies
    BY <1>1
  <2>2. QED
    BY <2>1 DEF Said
<1>3. m.result \in results /\ c \in pending[w]
  BY DEF Answers
<1> HIDE DEF m
<1>4. m = [call |-> c, result |-> m.result]
  BY <1>1, <1>2 DEF Replies
<1>5. QED
  BY <1>1, <1>2, <1>3, <1>4, AnsweredIsSaid

LEMMA MainShape ==
  ASSUME QInv, NEW w \in Worker, Main(w), NEW v \in Worker
  PROVE  /\ thread'[v] \notin Running => thread[v] \notin Running
         /\ thread'[v] = "serving" => thread[v] = "serving"
         /\ \/ inbox'[v] = inbox[v]
            \/ \E c \in {InitCall, Shut} : inbox'[v] = Append(inbox[v], c)
<1>1. TypeOK
  BY DEF QInv, MInv, IInv
<1>2. ASSUME NEW t \in Tx, Opened(w, t)
      PROVE  /\ thread'[v] \notin Running => thread[v] \notin Running
             /\ thread'[v] = "serving" => thread[v] = "serving"
             /\ inbox'[v] = inbox[v]
  <2>1. inbox' = inbox /\ (thread'[v] = thread[v] \/ thread'[v] = "starting")
    BY <1>1, <1>2 DEF Opened, TypeOK
  <2>2. QED
    BY <2>1 DEF Running
<1>3. CASE Online(w)
  <2>1. \/ inbox'[v] = inbox[v]
        \/ inbox'[v] = Append(inbox[v], InitCall)
    BY <1>1, <1>3 DEF Online, Post, InitCall, TypeOK
  <2>2. thread'[v] = thread[v] \/ thread'[v] = "online"
    BY <1>1, <1>3 DEF Online, TypeOK
  <2>3. QED
    BY <2>1, <2>2 DEF Running
<1>4. CASE TooLate(w) \/ Drained(w)
  <2>1. \/ inbox'[v] = inbox[v]
        \/ inbox'[v] = Append(inbox[v], Shut)
    BY <1>1, <1>4 DEF TooLate, Drained, Post, Shut, TypeOK
  <2>2. thread' = thread
    BY <1>4 DEF TooLate, Drained
  <2>3. QED
    BY <2>1, <2>2
<1>5. CASE ErrorEvent(w) \/ ExitEvent(w)
  <2>1. /\ inbox' = inbox
        /\ thread'[v] = thread[v] \/ v = w
        /\ thread[w] \notin Running /\ thread'[w] # "serving"
    BY <1>1, <1>5 DEF ErrorEvent, ExitEvent, TypeOK, Running
  <2>2. QED
    BY <2>1
<1>6. ASSUME NEW t \in Tx,
             \/ OpenFailed(w, t) \/ Closed(w, t)
             \/ \E kind \in OpKinds : Operated(w, t, kind)
      PROVE  thread' = thread /\ inbox' = inbox
  BY <1>6 DEF OpenFailed, Closed, Operated
<1>7. CASE Dropped(w) \/ Swapped(w) \/ GiveUp(w) \/ ShutDown(w) \/ DestroyShutDown(w)
  <2>1. thread' = thread /\ inbox' = inbox
    BY <1>7 DEF Dropped, Swapped, GiveUp, ShutDown, DestroyShutDown
  <2>2. QED
    BY <2>1
<1>8. QED
  BY <1>2, <1>3, <1>4, <1>5, <1>6, <1>7 DEF Main

LEMMA MainStatusFits ==
  ASSUME TInv, NEW w \in Worker, Main(w)
  PROVE  StatusFits
<1>1. TypeOK
  BY DEF TInv, QInv, MInv, IInv
<1>2. \A t \in Tx :
        /\ Call("newTx", t) \in pending[w] => status[t] = "opening" /\ home[t] = w
        /\ Call("close", t) \in pending[w] => home[t] = w
  BY DEF TInv, QInv, MInv, IInv, CallsMatchHandles
<1>3. \A v \in Worker, t \in Tx :
        /\ t \in txs[v] => home[t] = v
        /\ t \in txs[v] => /\ t \in spent \/ Call("close", t) \notin Answered(v)
                           /\ Refusal(t) \notin Said(v)
        /\ thread[v] \notin Running => txs[v] = {}
  BY DEF TInv, Maps, MapFits
<1>4. ASSUME NEW t \in Tx, Opened(w, t)
      PROVE  StatusFits
  <2>1. Answers(w, Call("newTx", t), {"ok"}) /\ status' = [status EXCEPT ![t] = "open"]
    BY <1>4 DEF Opened
  <2>2. Grant(t) \in Said(w) /\ Call("newTx", t) \in pending[w]
    <3>1. Grant(t) \in Said(w)
      BY <1>1, <2>1, AnswerIsSaid DEF Grant
    <3>2. Call("newTx", t) \in pending[w]
      BY <2>1 DEF Answers
    <3>3. QED
      BY <3>1, <3>2
  <2>3. QED
    BY <1>1, <1>2, <2>1, <2>2 DEF StatusFits, TypeOK
<1>5. ASSUME NEW t \in Tx, OpenFailed(w, t)
      PROVE  StatusFits
  <2>1. /\ Answers(w, Call("newTx", t), {"error"})
        /\ status' = [status EXCEPT ![t] = "failed"]
    BY <1>5 DEF OpenFailed
  <2>2. Refusal(t) \in Said(w) /\ Call("newTx", t) \in pending[w]
    <3>1. Refusal(t) \in Said(w)
      BY <1>1, <2>1, AnswerIsSaid DEF Refusal
    <3>2. Call("newTx", t) \in pending[w]
      BY <2>1 DEF Answers
    <3>3. QED
      BY <3>1, <3>2
  <2>3. \A v \in Worker : t \notin txs[v]
    BY <1>2, <1>3, <2>2
  <2>4. QED
    BY <1>1, <2>1, <2>3 DEF StatusFits, TypeOK, Handles
<1>6. ASSUME NEW t \in Tx, Closed(w, t)
      PROVE  StatusFits
  <2>1. /\ Answers(w, Call("close", t), Results)
        /\ status' = [status EXCEPT ![t] = "closed"]
    BY <1>6 DEF Closed
  <2>2. Call("close", t) \in Answered(w) /\ Call("close", t) \in pending[w]
    BY <1>1, <2>1, AnswerIsSaid
  <2>3. \A v \in Worker : t \in txs[v] => t \in spent
    BY <1>2, <1>3, <2>2
  <2>4. QED
    BY <1>1, <2>1, <2>3 DEF StatusFits, TypeOK, Handles
<1>7. ASSUME ErrorEvent(w) \/ ExitEvent(w)
      PROVE  StatusFits
  <2>1. PICK gone \in BOOLEAN : RejectPending(w, gone)
    BY <1>7 DEF ErrorEvent, ExitEvent
  <2>2. txs[w] = {}
    <3>1. thread[w] \notin Running
      BY <1>7 DEF ErrorEvent, ExitEvent, Running
    <3>2. MapFits(w)
      BY DEF TInv, Maps
    <3>3. QED
      BY <3>1, <3>2 DEF MapFits
  <2>3. ASSUME NEW t \in Tx, status'[t] # status[t]
        PROVE  status'[t] \notin Handles /\ \A v \in Worker : t \notin txs[v]
    <3>1. /\ status'[t] \in {"failed", "closed"}
          /\ Call("newTx", t) \in pending[w] \/ Call("close", t) \in pending[w]
      BY <2>1, <2>3 DEF RejectPending
    <3>2. home[t] = w
      BY <1>2, <3>1
    <3>3. QED
      BY <1>3, <2>2, <3>1, <3>2 DEF Handles
  <2>4. QED
    BY <2>3 DEF StatusFits
<1>8. ASSUME \/ \E t \in Tx, kind \in OpKinds : Operated(w, t, kind)
             \/ Dropped(w) \/ Online(w) \/ Swapped(w) \/ TooLate(w) \/ GiveUp(w)
             \/ Drained(w) \/ ShutDown(w) \/ DestroyShutDown(w)
      PROVE  StatusFits
  <2>1. status' = status
    BY <1>8 DEF Operated, Dropped, Online, Swapped, TooLate, GiveUp, Drained, ShutDown,
       DestroyShutDown, txVars
  <2>2. QED
    BY <2>1 DEF StatusFits
<1>9. QED
  BY <1>4, <1>5, <1>6, <1>7, <1>8 DEF Main

LEMMA MainKeepsMaps ==
  ASSUME TInv, NEW w \in Worker, Main(w)
  PROVE  Maps' /\ GuardedCallsFindTheirTx'
<1>1. /\ Forward
      /\ \A v \in Worker : Sent(v)' \subseteq Sent(v) \cup {InitCall, Shut}
  BY MainKeepsQueues DEF TInv
<1>2. \A v \in Worker :
         /\ thread'[v] \notin Running => thread[v] \notin Running
         /\ thread'[v] = "serving" => thread[v] = "serving"
         /\ \/ inbox'[v] = inbox[v]
            \/ \E c \in {InitCall, Shut} : inbox'[v] = Append(inbox[v], c)
  BY MainShape DEF TInv
<1>3. QED
  BY <1>1, <1>2, MainStatusFits, ForwardKeepsMaps

(* A call joins the queue of v, or none does.                              *)
LEMMA PostKeepsResets ==
  ASSUME TInv, NEW v \in Worker, NEW c \in Calls,
         UNCHANGED <<destroyed, txs, spent>>,
         Sent(v)' \subseteq Sent(v) \cup {c},
         \/ inbox'[v] = inbox[v]
         \/ inbox'[v] = Append(inbox[v], c),
         \A u \in Tx : status[u] \in {"open", "closing"} =>
           status'[u] \in {"open", "closing"} /\ home'[u] = home[u],
         \A u \in Tx : c = Call("reset", u) /\ inbox'[v] # inbox[v] /\ ~destroyed =>
           status[u] = "open" /\ home[u] = v /\ u \in txs[v] \ spent
  PROVE  ResetsFit(v)'
<1> SUFFICES ASSUME ~destroyed, NEW t \in Tx
             PROVE  /\ Call("reset", t) \in Sent(v)' =>
                         /\ home'[t] = v /\ status'[t] \in {"open", "closing"}
                         /\ t \in txs[v] \ spent
                    /\ ResetFirst(inbox'[v], t)
  BY DEF ResetsFit
<1>1. inbox[v] \in Seq(Calls)
  BY DEF TInv, QInv, MInv, IInv, TypeOK
<1>2. /\ Call("reset", t) \in Sent(v)
           => home[t] = v /\ status[t] \in {"open", "closing"} /\ t \in txs[v] \ spent
      /\ ResetFirst(inbox[v], t)
  BY DEF TInv, Maps, ResetsFit
<1>3. inbox'[v] = inbox[v] => Sent(v)' = Sent(v)
  BY DEF Sent
<1>4. Call("reset", t) \in Sent(v)' =>
        home'[t] = v /\ status'[t] \in {"open", "closing"} /\ t \in txs[v] \ spent
  BY <1>2, <1>3
<1>5. ResetFirst(inbox'[v], t)
  <2>1. CASE inbox'[v] = inbox[v]
    BY <1>2, <2>1
  <2>2. CASE inbox'[v] = Append(inbox[v], c) /\ c # Call("reset", t)
    BY <1>1, <1>2, <2>2, ResetFirstMoves
  <2>3. CASE inbox'[v] = Append(inbox[v], c) /\ c = Call("reset", t)
             /\ inbox'[v] # inbox[v]
    <3>1. status[t] = "open" /\ home[t] = v
      BY <2>3
    <3>2. Call("close", t) \notin Sent(v)
      BY <3>1 DEF TInv, QInv, Queues, QueueFits, MInv, IInv, CallsMatchHandles
    <3>3. \A i \in DOMAIN inbox[v] : inbox[v][i] # Call("close", t)
      BY <3>2 DEF Sent
    <3>4. ResetFirst(Append(inbox[v], c), t)
      BY <1>1, <3>3, ResetFirstMoves
    <3>5. QED
      BY <2>3, <3>4
  <2>4. QED
    BY <2>1, <2>2, <2>3
<1>6. QED
  BY <1>4, <1>5

(* The handle t posts c, or ends before it begins.                         *)
LEMMA CallKeepsMaps ==
  ASSUME TInv, NEW t \in Tx, NEW c \in Calls,
         UNCHANGED <<thread, outbox, txs, spent, destroyed>>,
         \A v \in Worker :
           /\ Sent(v)' \subseteq Sent(v) \cup {c}
           /\ \/ inbox'[v] = inbox[v]
              \/ inbox'[v] = Append(inbox[v], c),
         \A u \in Tx \ {t} : status'[u] = status[u] /\ home'[u] = home[u],
         \A u \in Tx \ {t} : c # Call("newTx", u) /\ c # Call("reset", u),
         \/ status[t] = "idle" /\ status'[t] \in {"opening", "failed"}
              /\ c # Call("reset", t)
         \/ /\ status[t] = "open" /\ status'[t] \in {"open", "closing"}
            /\ home'[t] = home[t] /\ c # Call("newTx", t)
         \/ /\ status'[t] = status[t] /\ home'[t] = home[t]
            /\ c # Call("newTx", t) /\ c # Call("reset", t),
         \A v \in Worker :
           c = Call("reset", t) /\ inbox'[v] # inbox[v] /\ ~destroyed =>
             status[t] = "open" /\ home[t] = v /\ t \in txs[v] \ spent
  PROVE  Maps' /\ GuardedCallsFindTheirTx'
<1>1. \A v \in Worker : Said(v)' = Said(v) /\ Answered(v)' = Answered(v)
  BY DEF Said, Answered
<1>2. ASSUME NEW v \in Worker
      PROVE  MapFits(v)'
  <2>1. MapFits(v) /\ txs[v] \subseteq Tx
    BY DEF TInv, Maps, QInv, MInv, IInv, TypeOK
  <2>2. \A u \in txs[v] : /\ home'[u] = v
                          /\ status'[u] \in Handles \/ LeftOver(u)'
                          /\ c # Call("newTx", u)
    BY <2>1 DEF MapFits, LeftOver, Handles
  <2>3. ASSUME NEW u \in Tx, Grant(u) \in Said(v)
        PROVE  status'[u] = "opening" => status[u] = "opening"
    BY <2>3, RepliesTell DEF TInv
  <2>4. \A u \in Tx : status'[u] = "open" => status[u] = "open" /\ home'[u] = home[u]
    OBVIOUS
  <2>5. QED
    BY <1>1, <2>1, <2>2, <2>3, <2>4 DEF MapFits
<1>3. ASSUME NEW v \in Worker
      PROVE  ResetsFit(v)'
  <2>1. \A u \in Tx : status[u] \in {"open", "closing"} =>
          status'[u] \in {"open", "closing"} /\ home'[u] = home[u]
    OBVIOUS
  <2>2. \A u \in Tx : c = Call("reset", u) /\ inbox'[v] # inbox[v] /\ ~destroyed =>
          status[u] = "open" /\ home[u] = v /\ u \in txs[v] \ spent
    OBVIOUS
  <2>3. QED
    BY <2>1, <2>2, PostKeepsResets
<1>4. GuardedCallsFindTheirTx'
  BY <1>1, GuardedAsSaid DEF TInv
<1>5. QED
  BY <1>2, <1>3, <1>4 DEF Maps

(* What a posting does to the queues.                                      *)
LEMMA PostingShape ==
  ASSUME QInv, NEW w, NEW c \in Calls, Post(w, c),
         UNCHANGED <<thread, outbox>>,
         w \in Worker => c \notin pending[w] \cup Answered(w)
  PROVE  \A v \in Worker :
           /\ Sent(v)' \subseteq Sent(v) \cup {c}
           /\ \/ inbox'[v] = inbox[v]
              \/ inbox'[v] = Append(inbox[v], c)
           /\ inbox'[v] # inbox[v] => v = w /\ thread[w] \in Running
<1>1. TypeOK
  BY DEF QInv, MInv, IInv
<1>2. ASSUME NEW v \in Worker
      PROVE  /\ \/ inbox'[v] = inbox[v]
                \/ inbox'[v] = Append(inbox[v], c)
             /\ inbox'[v] # inbox[v] => v = w /\ thread[w] \in Running
  BY <1>1 DEF Post, TypeOK
<1>3. CASE w \in Worker
  BY <1>2, <1>3, PostingKeepsQueues
<1>4. CASE w \notin Worker
  <2>1. \A v \in Worker : inbox'[v] = inbox[v]
    BY <1>2, <1>4
  <2>2. \A v \in Worker : Sent(v)' = Sent(v)
    BY <2>1 DEF Sent
  <2>3. QED
    BY <1>2, <2>2
<1>5. QED
  BY <1>3, <1>4

LEMMA ClientKeepsMaps ==
  ASSUME TInv, NEW t \in Tx, Client(t)
  PROVE  Maps' /\ GuardedCallsFindTheirTx'
<1>1. TypeOK /\ QInv
  BY DEF TInv, QInv, MInv, IInv
<1>2. \A u, v \in Tx, k, l \in {"newTx", "close", "proc", "reset"} :
        Call(k, u) = Call(l, v) => k = l /\ u = v
  BY CallsDiffer
<1>3. CASE NewTransaction(t)
  <2> DEFINE w == PickSlot
             c == Call("newTx", t)
  <2>1. w \in Worker
    BY <1>1, PickSlotInSlots, SlotsAreWorkers
  <2>2. /\ status[t] = "idle" /\ status'[t] = "opening" /\ Post(w, c)
        /\ UNCHANGED <<thread, outbox, txs, spent, destroyed>>
        /\ \A u \in Tx \ {t} : status'[u] = status[u] /\ home'[u] = home[u]
    BY <1>1, <1>3 DEF NewTransaction, TypeOK
  <2> HIDE DEF w
  <2>3. c \in Calls /\ c \notin pending[w] \cup Answered(w)
    BY <2>1, <2>2, CallNames DEF TInv, QInv, AnswersMatchHandles, MInv, IInv,
       CallsMatchHandles
  <2>4. \A v \in Worker : /\ Sent(v)' \subseteq Sent(v) \cup {c}
                          /\ \/ inbox'[v] = inbox[v]
                             \/ inbox'[v] = Append(inbox[v], c)
    BY <1>1, <2>2, <2>3, PostingShape
  <2>5. \A u \in Tx : c # Call("reset", u) /\ (u # t => c # Call("newTx", u))
    BY <1>2
  <2> HIDE DEF c
  <2>6. QED
    BY <2>2, <2>3, <2>4, <2>5, CallKeepsMaps
<1>4. CASE NewTransactionDestroyed(t)
  <2> DEFINE c == Stop
  <2>1. /\ status[t] = "idle" /\ status'[t] = "failed"
        /\ UNCHANGED <<thread, inbox, outbox, txs, spent, destroyed>>
        /\ \A u \in Tx \ {t} : status'[u] = status[u] /\ home'[u] = home[u]
    BY <1>1, <1>4 DEF NewTransactionDestroyed, poolVars, slotVars, threadVars, TypeOK
  <2>2. \A v \in Worker : Sent(v)' = Sent(v)
    BY <2>1 DEF Sent
  <2>3. c \in Calls /\ \A u \in Tx : c # Call("reset", u) /\ c # Call("newTx", u)
    BY CallNames
  <2> HIDE DEF c
  <2>4. QED
    BY <2>1, <2>2, <2>3, CallKeepsMaps
<1>5. CASE Close(t)
  <2> DEFINE w == home[t]
             c == Call("close", t)
  <2>1. /\ status[t] = "open" /\ status'[t] = "closing" /\ Post(w, c)
        /\ UNCHANGED <<thread, outbox, txs, spent, destroyed, home>>
        /\ \A u \in Tx \ {t} : status'[u] = status[u]
    BY <1>1, <1>5 DEF Close, poolVars, TypeOK
  <2>2. w \in Worker
    BY <2>1 DEF TInv, QInv, MInv, IInv, CallsMatchHandles
  <2>3. c \in Calls /\ c \notin pending[w] \cup Answered(w)
    BY <2>1, <2>2, CallNames DEF TInv, QInv, AnswersMatchHandles, MInv, IInv,
       CallsMatchHandles
  <2>4. \A v \in Worker : /\ Sent(v)' \subseteq Sent(v) \cup {c}
                          /\ \/ inbox'[v] = inbox[v]
                             \/ inbox'[v] = Append(inbox[v], c)
    BY <1>1, <2>1, <2>3, PostingShape
  <2>5. \A u \in Tx : c # Call("reset", u) /\ c # Call("newTx", u)
    BY <1>2
  <2> HIDE DEF c
  <2>6. QED
    BY <2>1, <2>3, <2>4, <2>5, CallKeepsMaps
<1>6. ASSUME NEW kind \in OpKinds, Operate(t, kind)
      PROVE  Maps' /\ GuardedCallsFindTheirTx'
  <2> DEFINE w == home[t]
             c == Call(kind, t)
  <2>1. /\ Post(w, c) /\ c \notin pending[w] \cup Answered(w)
        /\ UNCHANGED <<thread, outbox, txs, spent, destroyed, status, home>>
        /\ kind = "reset" => status[t] = "open"
    BY <1>6 DEF Operate, Operable, poolVars, txVars
  <2>2. c \in Calls
    BY CallNames DEF OpKinds
  <2>3. \A v \in Worker : /\ Sent(v)' \subseteq Sent(v) \cup {c}
                          /\ \/ inbox'[v] = inbox[v]
                             \/ inbox'[v] = Append(inbox[v], c)
                          /\ inbox'[v] # inbox[v] => v = w /\ thread[w] \in Running
    BY <1>1, <2>1, <2>2, PostingShape
  <2>4. \A u \in Tx : /\ c # Call("newTx", u)
                      /\ u # t => c # Call("reset", u)
                      /\ c = Call("reset", u) => kind = "reset"
    BY <1>2 DEF OpKinds
  <2>5. ASSUME NEW v \in Worker, c = Call("reset", t), inbox'[v] # inbox[v], ~destroyed
        PROVE  status[t] = "open" /\ home[t] = v /\ t \in txs[v] \ spent
    <3>1. status[t] = "open" /\ v = w /\ thread[v] \in Running
      BY <2>1, <2>3, <2>4, <2>5
    <3>2. thread[v] = "serving"
      BY <3>1 DEF TInv, QInv, MInv, Membership, UsersAreServed, ThreadsMatchStages,
         Inited, Running, Handles
    <3>3. t \notin spent
      BY <3>1 DEF TInv, SpentFits
    <3>4. QED
      BY <2>5, <3>1, <3>2, <3>3 DEF TInv, Maps, MapFits
  <2> HIDE DEF c
  <2>6. CASE kind = "reset"
    BY <2>1, <2>2, <2>3, <2>4, <2>5, <2>6, CallKeepsMaps
  <2>7. CASE kind # "reset"
    <3>1. c # Call("reset", t) /\ c # Call("newTx", t)
      BY <2>4, <2>7
    <3>2. QED
      BY <2>1, <2>2, <2>3, <2>4, <3>1, CallKeepsMaps
  <2>8. QED
    BY <2>6, <2>7
<1>7. QED
  BY <1>3, <1>4, <1>5, <1>6 DEF Client

LEMMA DestroyKeepsMaps ==
  ASSUME TInv, Destroy
  PROVE  Maps' /\ GuardedCallsFindTheirTx'
<1>1. destroyed' /\ UNCHANGED <<thread, outbox, txs, spent, status, home>>
  BY DEF Destroy, txVars
<1>2. \A v \in Worker : /\ Said(v)' = Said(v) /\ Answered(v)' = Answered(v)
                        /\ Sent(v)' \subseteq Sent(v) \cup {Stop}
  BY <1>1, DestroyKeepsQueues DEF TInv, Said, Answered
<1>3. ASSUME NEW v \in Worker
      PROVE  MapFits(v)'
  <2>1. MapFits(v) /\ txs[v] \subseteq Tx
    BY DEF TInv, Maps, QInv, MInv, IInv, TypeOK
  <2>2. \A t \in Tx : Call("newTx", t) \in Sent(v)' => Call("newTx", t) \in Sent(v)
    BY <1>2, CallNames
  <2>3. QED
    BY <1>1, <1>2, <2>1, <2>2 DEF MapFits, LeftOver
<1>4. \A v \in Worker : ResetsFit(v)'
  BY <1>1 DEF ResetsFit
<1>5. QED
  BY <1>1, <1>3, <1>4, GuardedAsSaid DEF Maps

-----------------------------------------------------------------------------
(* The thread keeps the maps.                                              *)

(* Only the worker w changes.                                              *)
LEMMA OthersKeepMaps ==
  ASSUME TInv, NEW w \in Worker, UNCHANGED <<status, home, destroyed>>,
         spent \subseteq spent', \A t \in spent' \ spent : home[t] = w,
         \A v \in Worker \ {w} :
           UNCHANGED <<inbox[v], outbox[v], thread[v], txs[v]>>,
         MapFits(w)', ResetsFit(w)'
  PROVE  Maps'
<1>1. ASSUME NEW v \in Worker \ {w}
      PROVE  MapFits(v)' /\ ResetsFit(v)'
  <2>1. /\ UNCHANGED <<inbox[v], outbox[v], thread[v], txs[v]>>
        /\ Sent(v)' = Sent(v) /\ Said(v)' = Said(v) /\ Answered(v)' = Answered(v)
    BY DEF Sent, Said, Answered
  <2>2. MapFits(v) /\ ResetsFit(v)
    BY DEF TInv, Maps
  <2>3. MapFits(v)'
    BY <2>1, <2>2 DEF MapFits, LeftOver
  <2>4. ResetsFit(v)'
    BY <2>1, <2>2 DEF ResetsFit
  <2>5. QED
    BY <2>3, <2>4
<1>2. QED
  BY <1>1 DEF Maps

(* What answering c does to the queues of w.                               *)
LEMMA HandlingShape ==
  ASSUME TInv, NEW w \in Worker, NEW c \in Calls, NEW r \in Results,
         TakesFirst(w, c, r)
  PROVE  /\ UNCHANGED <<status, home, destroyed, stage>>
         /\ \A v \in Worker \ {w} : UNCHANGED <<inbox[v], outbox[v], thread[v]>>
         /\ c \in Sent(w) /\ c \in pending[w] /\ c \notin Answered(w)
         /\ Sent(w)' \subseteq Sent(w) \ {c}
         /\ Said(w)' = Said(w) \cup {[call |-> c, result |-> r]}
         /\ Answered(w)' = Answered(w) \cup {c}
         /\ ~destroyed => \A t \in Tx :
              /\ ResetFirst(inbox'[w], t)
              /\ c = Call("close", t) => Call("reset", t) \notin Sent(w)
<1>1. TypeOK /\ QInv /\ QueueFits(w)
  BY DEF TInv, QInv, MInv, IInv, Queues
<1>2. /\ UNCHANGED <<status, home, destroyed, stage>>
      /\ Reply(w, c, r)
      /\ \A v \in Worker \ {w} : UNCHANGED <<inbox[v], outbox[v], thread[v]>>
  BY <1>1 DEF TakesFirst, Reply, Take, poolVars, slotVars, txVars, TypeOK
<1>3. c \in Sent(w) /\ Sent(w)' \subseteq Sent(w) \ {c}
  BY <1>1, HandlingKeepsQueues
<1>4. c \in pending[w] /\ c \notin Answered(w)
  BY <1>1, <1>3 DEF QueueFits
<1>5. Said(w)' = Said(w) \cup {[call |-> c, result |-> r]}
  BY <1>1, <1>2, ReplyIsSaid
<1>6. Answered(w)' = Answered(w) \cup {c}
  <2> DEFINE n == [call |-> c, result |-> r]
  <2>1. Answered(w)' = {m.call : m \in Said(w)'}
    BY DEF Answered, Said
  <2>2. Said(w)' = Said(w) \cup {n} /\ n.call = c
    BY <1>5
  <2> HIDE DEF n
  <2>3. QED
    BY <2>1, <2>2, AnsweredIsSaid
<1>7. ASSUME ~destroyed, NEW t \in Tx
      PROVE  /\ ResetFirst(inbox'[w], t)
             /\ c = Call("close", t) => Call("reset", t) \notin Sent(w)
  <2>1. ResetFirst(inbox[w], t) /\ inbox[w] \in Seq(Calls)
    BY <1>1, <1>7 DEF TInv, Maps, ResetsFit, TypeOK
  <2>2. inbox[w] # <<>> /\ Head(inbox[w]) = c
    BY <1>2 DEF Reply
  <2>3. inbox'[w] = Tail(inbox[w]) \/ inbox'[w] = <<>>
    BY <1>1 DEF TakesFirst, Take, TypeOK
  <2>4. ResetFirst(<<>>, t) /\ ResetFirst(Tail(inbox[w]), t)
    BY <2>1, <2>2, CallNames, ResetFirstMoves
  <2>5. c = Call("close", t) => \A i \in DOMAIN inbox[w] : inbox[w][i] # Call("reset", t)
    BY <2>1, <2>2, CallNames, ResetFirstMoves
  <2>6. QED
    BY <2>3, <2>4, <2>5 DEF Sent
<1>8. QED
  BY <1>2, <1>3, <1>4, <1>5, <1>6, <1>7

(* The reply is no false alarm.                                            *)
LEMMA HandlingKeepsGuarded ==
  ASSUME TInv, NEW w \in Worker, NEW m,
         Said(w)' = Said(w) \cup {m}, UNCHANGED destroyed,
         \A v \in Worker \ {w} : UNCHANGED outbox[v],
         m.call.op = "reset" /\ m.result = "unknown tx" => destroyed
  PROVE  GuardedCallsFindTheirTx'
<1>1. \A v \in Worker \ {w} : Said(v)' = Said(v)
  BY DEF Said
<1>2. QED
  BY <1>1, GuardedAsSaid DEF TInv

LEMMA HandleInitKeepsMaps ==
  ASSUME TInv, NEW w \in Worker, HandleInit(w)
  PROVE  Maps' /\ GuardedCallsFindTheirTx'
<1>1. TypeOK /\ InitCall \in Calls /\ {"ok", "error"} \subseteq Results
  BY CallNames DEF TInv, QInv, MInv, IInv, Results
<1>2. PICK r \in {"ok", "error"} : TakesFirst(w, InitCall, r)
  BY <1>1, HandlersHandle
<1> DEFINE m == [call |-> InitCall, result |-> r]
<1>3. /\ UNCHANGED <<status, home, destroyed, stage>>
      /\ \A v \in Worker \ {w} : UNCHANGED <<inbox[v], outbox[v], thread[v]>>
      /\ InitCall \in pending[w] /\ Sent(w)' \subseteq Sent(w)
      /\ Said(w)' = Said(w) \cup {m} /\ Answered(w)' = Answered(w) \cup {InitCall}
      /\ ~destroyed => \A t \in Tx : ResetFirst(inbox'[w], t)
  BY <1>1, <1>2, HandlingShape
<1>4. txs' = txs /\ spent' = spent /\ thread'[w] \in Running
  BY <1>1 DEF HandleInit, Reply, Running, TypeOK
<1>5. /\ m.call = InitCall /\ m.result = r
      /\ \A t \in Tx : m # Grant(t) /\ m # Refusal(t) /\ InitCall # Call("close", t)
      /\ InitCall.op # "reset"
  <2>1. m.call = InitCall /\ m.result = r
    OBVIOUS
  <2>2. \A t \in Tx : /\ Grant(t).call = Call("newTx", t)
                      /\ Refusal(t).call = Call("newTx", t)
    BY DEF Grant, Refusal
  <2>3. InitCall.op = "init"
    BY DEF InitCall, Call
  <2>4. QED
    BY <2>1, <2>2, <2>3, CallNames
<1> HIDE DEF m
<1>6. stage[w] = "initing"
  BY <1>3 DEF TInv, QInv, MInv, IInv, StagesMatchCalls, InitCall
<1>7. \A t \in Tx : home[t] = w => status[t] \notin Handles
  BY <1>6 DEF TInv, QInv, MInv, Membership, UsersAreServed
<1>8. MapFits(w)'
  <2>1. MapFits(w) /\ txs[w] \subseteq Tx
    BY <1>1 DEF TInv, Maps, TypeOK
  <2>2. \A t \in Tx : Grant(t) \in Said(w) => home[t] = w
    BY RepliesTell DEF TInv
  <2>3. QED
    BY <1>3, <1>4, <1>5, <1>7, <2>1, <2>2 DEF MapFits, LeftOver, Handles
<1>9. ResetsFit(w)'
  BY <1>3, <1>4 DEF TInv, Maps, ResetsFit
<1>10. Maps'
  BY <1>3, <1>4, <1>8, <1>9, OthersKeepMaps
<1>11. QED
  BY <1>3, <1>5, <1>10, HandlingKeepsGuarded

LEMMA HandleNewTxKeepsMaps ==
  ASSUME TInv, NEW w \in Worker, NEW t \in Tx, HandleNewTx(w, t)
  PROVE  Maps' /\ GuardedCallsFindTheirTx'
<1> DEFINE c == Call("newTx", t)
<1>1. TypeOK /\ c \in Calls /\ {"ok", "error"} \subseteq Results
  BY CallNames DEF TInv, QInv, MInv, IInv, Results
<1>2. PICK r \in {"ok", "error"} :
        /\ TakesFirst(w, c, r)
        /\ r = "ok" => txs' = [txs EXCEPT ![w] = @ \cup {t}]
        /\ r = "error" => txs' = txs
        /\ r = "ok" \/ txs' = txs
  <2>1. \A d, r : Reply(w, d, r) => thread[w] \in Running
    BY DEF Reply, Running
  <2>2. QED
    BY <2>1 DEF HandleNewTx, TakesFirst
<1> DEFINE m == [call |-> c, result |-> r]
<1>3. /\ UNCHANGED <<status, home, destroyed, stage>>
      /\ \A v \in Worker \ {w} : UNCHANGED <<inbox[v], outbox[v], thread[v]>>
      /\ c \in Sent(w) /\ c \in pending[w] /\ c \notin Answered(w)
      /\ Sent(w)' \subseteq Sent(w) \ {c}
      /\ Said(w)' = Said(w) \cup {m} /\ Answered(w)' = Answered(w) \cup {c}
      /\ ~destroyed => \A u \in Tx : ResetFirst(inbox'[w], u)
  BY <1>1, <1>2, HandlingShape
<1>4. /\ thread' = thread /\ spent' = spent /\ thread[w] \in Running
      /\ \A v \in Worker \ {w} : txs'[v] = txs[v]
      /\ txs'[w] = IF r = "ok" THEN txs[w] \cup {t} ELSE txs[w]
  BY <1>1, <1>2 DEF HandleNewTx, Reply, Running, TypeOK
<1>5. /\ m.call = c /\ m.result = r /\ c.op # "reset"
      /\ m = Grant(t) => r = "ok"
      /\ m = Refusal(t) => r = "error"
      /\ \A u \in Tx : /\ u # t => m # Grant(u) /\ m # Refusal(u)
                       /\ c # Call("close", u)
                       /\ u # t => c # Call("newTx", u)
  <2>1. m.call = c /\ m.result = r
    OBVIOUS
  <2>2. \A u \in Tx : /\ Grant(u).call = Call("newTx", u) /\ Grant(u).result = "ok"
                      /\ Refusal(u).call = Call("newTx", u) /\ Refusal(u).result = "error"
    BY DEF Grant, Refusal
  <2>3. c.op = "newTx"
    BY DEF Call
  <2>4. QED
    BY <2>1, <2>2, <2>3, CallsDiffer
<1>6. status[t] = "opening" /\ home[t] = w
  BY <1>3 DEF TInv, QInv, MInv, IInv, CallsMatchHandles
<1>7. Call("close", t) \notin Answered(w) /\ t \notin txs[w]
      /\ Refusal(t) \notin Said(w)
  <2>1. Call("close", t) \notin Answered(w)
    BY <1>6 DEF TInv, QInv, AnswersMatchHandles
  <2>2. t \notin txs[w]
    BY <1>3 DEF TInv, Maps, MapFits
  <2>3. Refusal(t) \notin Said(w)
    BY <1>3, RepliesTell DEF TInv
  <2>4. QED
    BY <2>1, <2>2, <2>3
<1> HIDE DEF m, c
<1>8. MapFits(w)'
  <2>1. MapFits(w) /\ txs[w] \subseteq Tx
    BY <1>1 DEF TInv, Maps, TypeOK
  <2>2. \A u \in txs'[w] : /\ u \in Tx /\ home[u] = w
                           /\ status[u] \in Handles \/ LeftOver(u)
    BY <1>4, <1>6, <2>1 DEF MapFits, Handles
  <2>3. ASSUME NEW u \in txs'[w]
        PROVE  /\ u \in spent \/ Call("close", u) \notin Answered(w)'
               /\ Call("newTx", u) \notin Sent(w)'
               /\ Refusal(u) \notin Said(w)'
    <3>1. CASE u = t
      BY <1>2, <1>3, <1>4, <1>5, <1>7, <3>1 DEF c
    <3>2. CASE u # t
      BY <1>3, <1>4, <1>5, <2>1, <2>2, <3>2 DEF MapFits
    <3>3. QED
      BY <3>1, <3>2
  <2>4. ASSUME NEW u \in Tx, Grant(u) \in Said(w)', thread[w] = "serving", ~destroyed,
               status[u] = "opening"
        PROVE  u \in txs'[w]
    BY <1>3, <1>4, <1>5, <2>1, <2>4 DEF MapFits
  <2>5. QED
    BY <1>3, <1>4, <1>6, <2>1, <2>2, <2>3, <2>4 DEF MapFits, LeftOver
<1>9. ResetsFit(w)'
  BY <1>3, <1>4 DEF TInv, Maps, ResetsFit
<1>10. Maps'
  BY <1>3, <1>4, <1>8, <1>9, OthersKeepMaps
<1>11. QED
  BY <1>3, <1>5, <1>10, HandlingKeepsGuarded

(* The calls of the other methods.                                         *)
LEMMA OtherCalls ==
  \A kind \in OpKinds, t \in Tx :
    /\ Call(kind, t) \in Calls /\ Call(kind, t).op = kind
    /\ \A u \in Tx : /\ Call(kind, t) # Call("newTx", u)
                     /\ Call(kind, t) # Call("close", u)
<1>1. \A t, u \in Tx : /\ Call("proc", t) # Call("newTx", u)
                       /\ Call("proc", t) # Call("close", u)
                       /\ Call("reset", t) # Call("newTx", u)
                       /\ Call("reset", t) # Call("close", u)
  BY CallsDiffer
<1>2. \A t \in Tx : /\ Call("proc", t) \in Calls /\ Call("proc", t).op = "proc"
                    /\ Call("reset", t) \in Calls /\ Call("reset", t).op = "reset"
  BY DEF Call, Calls
<1>3. QED
  BY <1>1, <1>2 DEF OpKinds

LEMMA HandleOpKeepsMaps ==
  ASSUME TInv, NEW w \in Worker, NEW t \in Tx, NEW kind \in OpKinds,
         HandleOp(w, t, kind)
  PROVE  Maps' /\ GuardedCallsFindTheirTx'
<1> DEFINE c == Call(kind, t)
<1>1. TypeOK /\ c \in Calls /\ {"ok", "unknown tx"} \subseteq Results
  BY CallNames DEF TInv, QInv, MInv, IInv, Results, OpKinds
<1>2. PICK r \in {"ok", "unknown tx"} :
        TakesFirst(w, c, r) /\ (r = "ok" <=> t \in txs[w])
  <2>1. \A d, r : Reply(w, d, r) => thread[w] \in Running
    BY DEF Reply, Running
  <2>2. QED
    BY <2>1 DEF HandleOp, TakesFirst
<1> DEFINE m == [call |-> c, result |-> r]
<1>3. r \in Results
  BY <1>1, <1>2
<1>4. TakesFirst(w, c, r)
  BY <1>2
<1>5. c \in Calls
  BY <1>1
<1>6. kind # "newTx" /\ kind # "close"
  BY DEF OpKinds
<1> HIDE DEF c
<1>7. /\ UNCHANGED <<status, home, destroyed, stage>>
      /\ \A v \in Worker \ {w} : UNCHANGED <<inbox[v], outbox[v], thread[v]>>
      /\ c \in Sent(w) /\ Sent(w)' \subseteq Sent(w) \ {c}
      /\ Said(w)' = Said(w) \cup {m} /\ Answered(w)' = Answered(w) \cup {c}
      /\ ~destroyed => \A u \in Tx : ResetFirst(inbox'[w], u)
  <2>1. /\ UNCHANGED <<status, home, destroyed, stage>>
        /\ \A v \in Worker \ {w} : UNCHANGED <<inbox[v], outbox[v], thread[v]>>
    BY <1>3, <1>4, <1>5, HandlingShape
  <2>2. c \in Sent(w) /\ Sent(w)' \subseteq Sent(w) \ {c}
    BY <1>3, <1>4, <1>5, HandlingShape
  <2>3. Said(w)' = Said(w) \cup {[call |-> c, result |-> r]}
    <3>1. Reply(w, c, r)
      BY <1>4 DEF TakesFirst
    <3>2. QED
      BY <1>1, <1>3, <1>5, <3>1, ReplyIsSaid
  <2>4. Answered(w)' = Answered(w) \cup {c}
    BY <1>3, <1>4, <1>5, HandlingShape
  <2>5. ~destroyed => \A u \in Tx : ResetFirst(inbox'[w], u)
    BY <1>3, <1>4, <1>5, HandlingShape
  <2>6. QED
    BY <2>1, <2>2, <2>3, <2>4, <2>5
<1>8. txs' = txs /\ spent' = spent /\ thread' = thread
  BY DEF HandleOp
<1>9. /\ m.call = c /\ m.result = r
      /\ c.op = kind
      /\ \A u \in Tx : m # Grant(u) /\ m # Refusal(u) /\ c # Call("close", u)
  <2>1. m.call = c /\ m.result = r
    OBVIOUS
  <2>2. \A u \in Tx : /\ Grant(u).call = Call("newTx", u)
                      /\ Refusal(u).call = Call("newTx", u)
    BY DEF Grant, Refusal
  <2>3. c.op = kind
    BY OtherCalls DEF c
  <2>4. \A u \in Tx : c # Call("newTx", u) /\ c # Call("close", u)
    BY OtherCalls DEF c
  <2> HIDE DEF m
  <2>5. QED
    BY <2>1, <2>2, <2>3, <2>4
<1>10. m.call.op = "reset" /\ m.result = "unknown tx" => destroyed
  <2>1. ASSUME kind = "reset", r = "unknown tx", ~destroyed
        PROVE  FALSE
    <3>1. Call("reset", t) \in Sent(w) /\ t \notin txs[w]
      BY <1>2, <1>7, <2>1 DEF c
    <3>2. ResetsFit(w)
      BY DEF TInv, Maps
    <3>3. QED
      BY <2>1, <3>1, <3>2 DEF ResetsFit
  <2>2. QED
    BY <1>9, <2>1
<1> HIDE DEF m, c
<1>11. MapFits(w)'
  <2>1. MapFits(w)
    BY <1>1 DEF TInv, Maps
  <2>2. /\ \A u \in Tx : LeftOver(u)' <=> LeftOver(u)
        /\ txs'[w] = txs[w] /\ thread'[w] = thread[w] /\ txs[w] \subseteq Tx
    BY <1>1, <1>7, <1>8 DEF LeftOver, TInv, QInv, MInv, IInv, TypeOK
  <2>3. \A u \in Tx : /\ Call("close", u) \in Answered(w)' => Call("close", u) \in Answered(w)
                      /\ Call("newTx", u) \in Sent(w)' => Call("newTx", u) \in Sent(w)
                      /\ Refusal(u) \in Said(w)' => Refusal(u) \in Said(w)
                      /\ Grant(u) \in Said(w)' => Grant(u) \in Said(w)
    BY <1>7, <1>9
  <2>4. QED
    BY <1>7, <1>8, <2>1, <2>2, <2>3 DEF MapFits
<1>12. ResetsFit(w)'
  BY <1>7, <1>8 DEF TInv, Maps, ResetsFit
<1>13. Maps'
  BY <1>7, <1>8, <1>11, <1>12, OthersKeepMaps
<1>14. QED
  BY <1>7, <1>10, <1>13, HandlingKeepsGuarded

LEMMA HandleCloseKeepsMaps ==
  ASSUME TInv, NEW w \in Worker, NEW t \in Tx, HandleClose(w, t)
  PROVE  Maps' /\ GuardedCallsFindTheirTx'
<1> DEFINE c == Call("close", t)
<1>1. TypeOK /\ c \in Calls /\ {"ok", "error"} \subseteq Results
  BY CallNames DEF TInv, QInv, MInv, IInv, Results
<1>2. PICK r \in {"ok", "error"} : TakesFirst(w, c, r)
  BY <1>1, HandlersHandle
<1> DEFINE m == [call |-> c, result |-> r]
<1>3. /\ UNCHANGED <<status, home, destroyed, stage>>
      /\ \A v \in Worker \ {w} : UNCHANGED <<inbox[v], outbox[v], thread[v]>>
      /\ c \in pending[w] /\ Sent(w)' \subseteq Sent(w)
      /\ Said(w)' = Said(w) \cup {m} /\ Answered(w)' = Answered(w) \cup {c}
      /\ ~destroyed => \A u \in Tx : ResetFirst(inbox'[w], u)
      /\ ~destroyed => Call("reset", t) \notin Sent(w)
  BY <1>1, <1>2, HandlingShape
<1>4. /\ thread' = thread
      /\ \A v \in Worker \ {w} : txs'[v] = txs[v]
      /\ spent \subseteq spent' /\ spent' \subseteq spent \cup {t}
      /\ \/ txs'[w] = txs[w] \ {t}
         \/ txs'[w] = txs[w] /\ t \in spent'
  BY <1>1 DEF HandleClose, Forgotten, TypeOK
<1>5. /\ m.call = c /\ c.op # "reset"
      /\ \A u \in Tx : m # Grant(u) /\ m # Refusal(u) /\ (u # t => c # Call("close", u))
  <2>1. m.call = c
    OBVIOUS
  <2>2. \A u \in Tx : /\ Grant(u).call = Call("newTx", u)
                      /\ Refusal(u).call = Call("newTx", u)
    BY DEF Grant, Refusal
  <2>3. c.op = "close"
    BY DEF Call
  <2>4. QED
    BY <2>1, <2>2, <2>3, CallsDiffer
<1>6. status[t] = "closing" /\ home[t] = w
  BY <1>3 DEF TInv, QInv, MInv, IInv, CallsMatchHandles
<1> HIDE DEF m, c
<1>7. MapFits(w)'
  <2>1. MapFits(w) /\ txs[w] \subseteq Tx
    BY <1>1 DEF TInv, Maps, TypeOK
  <2>2. txs'[w] \subseteq txs[w] /\ \A u \in Tx \ {t} : u \in txs[w] => u \in txs'[w]
    BY <1>4
  <2>3. \A u \in txs'[w] : home[u] = w /\ (status[u] \in Handles \/ LeftOver(u)')
    BY <1>3, <1>4, <2>1, <2>2 DEF MapFits, LeftOver
  <2>4. \A u \in Tx : u \in txs'[w] =>
          /\ u \in spent' \/ Call("close", u) \notin Answered(w)'
          /\ Call("newTx", u) \notin Sent(w)'
          /\ Refusal(u) \notin Said(w)'
    BY <1>3, <1>4, <1>5, <2>1, <2>2 DEF MapFits
  <2>5. QED
    BY <1>3, <1>4, <1>5, <1>6, <2>1, <2>2, <2>3, <2>4 DEF MapFits
<1>8. ResetsFit(w)'
  BY <1>3, <1>4 DEF TInv, Maps, ResetsFit
<1>9. Maps'
  BY <1>3, <1>4, <1>6, <1>7, <1>8, OthersKeepMaps
<1>10. QED
  BY <1>3, <1>5, <1>9, HandlingKeepsGuarded

LEMMA HandleShutdownKeepsMaps ==
  ASSUME TInv, NEW w \in Worker, NEW by \in {"rotation", "destroy"},
         HandleShutdown(w, by)
  PROVE  Maps' /\ GuardedCallsFindTheirTx'
<1> DEFINE c == Call("shutdown", by)
<1>1. TypeOK /\ c \in Calls /\ {"ok", "error"} \subseteq Results
  BY CallNames DEF TInv, QInv, MInv, IInv, Results, Shut, Stop
<1>2. PICK r \in {"ok", "error"} : TakesFirst(w, c, r)
  BY <1>1, HandlersHandle
<1> DEFINE m == [call |-> c, result |-> r]
<1>3. /\ UNCHANGED <<status, home, destroyed, stage>>
      /\ \A v \in Worker \ {w} : UNCHANGED <<inbox[v], outbox[v], thread[v]>>
      /\ c \in pending[w] /\ Sent(w)' \subseteq Sent(w)
      /\ Said(w)' = Said(w) \cup {m}
      /\ ~destroyed => \A t \in Tx : ResetFirst(inbox'[w], t)
  BY <1>1, <1>2, HandlingShape
<1>4. /\ txs'[w] = {} /\ spent' = spent
      /\ \A v \in Worker \ {w} : txs'[v] = txs[v]
  BY <1>1 DEF HandleShutdown, TypeOK
<1>5. /\ m.call = c /\ c.op # "reset"
      /\ \A t \in Tx : m # Grant(t)
  <2>1. m.call = c
    OBVIOUS
  <2>2. \A t \in Tx : Grant(t).call = Call("newTx", t)
    BY DEF Grant
  <2>3. c.op = "shutdown"
    BY DEF Call
  <2>4. QED
    BY <2>1, <2>2, <2>3, CallsDiffer
<1>6. destroyed \/ \A t \in Tx : home[t] = w => status[t] \notin Handles
  <2>1. CASE by = "destroy"
    BY <1>3, <2>1 DEF TInv, QInv, AnswersMatchHandles, Stop
  <2>2. CASE by = "rotation"
    <3>1. stage[w] \in {"shutdown", "discarding"}
      BY <1>3, <2>2 DEF TInv, QInv, MInv, IInv, StagesMatchCalls
    <3>2. QED
      BY <3>1 DEF TInv, QInv, MInv, Membership, UsersAreServed
  <2>3. QED
    BY <2>1, <2>2
<1> HIDE DEF m, c
<1>7. \A t \in Tx : Grant(t) \in Said(w)' => home[t] = w
  BY <1>3, <1>5, RepliesTell DEF TInv
<1>8. MapFits(w)'
  BY <1>3, <1>4, <1>6, <1>7 DEF MapFits, Handles
<1>9. ResetsFit(w)'
  <2>1. ResetsFit(w)
    BY DEF TInv, Maps
  <2>2. QED
    BY <1>3, <1>4, <1>6, <2>1 DEF ResetsFit, Handles
<1>10. Maps'
  BY <1>3, <1>4, <1>8, <1>9, OthersKeepMaps
<1>11. QED
  BY <1>3, <1>5, <1>10, HandlingKeepsGuarded

LEMMA EndingKeepsMaps ==
  ASSUME TInv, NEW w \in Worker, NEW to \in {"dead", "failed"}, ThreadEnds(w, to)
  PROVE  Maps' /\ GuardedCallsFindTheirTx'
<1>1. TypeOK
  BY DEF TInv, QInv, MInv, IInv
<1>2. /\ UNCHANGED <<outbox, status, home, destroyed>>
      /\ thread'[w] = to /\ inbox'[w] = <<>> /\ txs'[w] = {} /\ spent' = spent
      /\ \A v \in Worker \ {w} : UNCHANGED <<inbox[v], thread[v], txs[v]>>
  BY <1>1 DEF ThreadEnds, poolVars, slotVars, txVars, TypeOK
<1>3. MapFits(w)'
  BY <1>2 DEF MapFits
<1>4. ResetsFit(w)'
  <2>1. Sent(w)' = {}
    BY <1>2 DEF Sent
  <2>2. \A t \in Tx : ResetFirst(<<>>, t)
    BY DEF ResetFirst
  <2>3. QED
    BY <1>2, <2>1, <2>2 DEF ResetsFit
<1>5. Maps'
  BY <1>2, <1>3, <1>4, OthersKeepMaps
<1>6. GuardedCallsFindTheirTx'
  BY <1>2 DEF TInv, GuardedCallsFindTheirTx
<1>7. QED
  BY <1>5, <1>6

LEMMA StepKeepsMaps ==
  ASSUME TInv, [Next]_vars
  PROVE  Maps' /\ GuardedCallsFindTheirTx'
<1>1. CASE UNCHANGED vars
  <2>1. UNCHANGED <<thread, inbox, outbox, txs, spent, status, home, destroyed>>
    BY <1>1 DEF vars, poolVars, slotVars, threadVars, txVars
  <2>2. \A w \in Worker : /\ Sent(w)' = Sent(w) /\ Said(w)' = Said(w)
                          /\ Answered(w)' = Answered(w)
    BY <2>1 DEF Sent, Said, Answered
  <2>3. ASSUME NEW w \in Worker
        PROVE  MapFits(w)' /\ ResetsFit(w)'
    <3>1. MapFits(w) /\ ResetsFit(w)
      BY DEF TInv, Maps
    <3>2. MapFits(w)'
      BY <2>1, <2>2, <3>1 DEF MapFits, LeftOver
    <3>3. ResetsFit(w)'
      BY <2>1, <2>2, <3>1 DEF ResetsFit
    <3>4. QED
      BY <3>2, <3>3
  <2>4. GuardedCallsFindTheirTx'
    BY <2>1 DEF TInv, GuardedCallsFindTheirTx
  <2>5. QED
    BY <2>3, <2>4 DEF Maps
<1>2. ASSUME NEW t \in Tx, Client(t)
      PROVE  Maps' /\ GuardedCallsFindTheirTx'
  BY <1>2, ClientKeepsMaps
<1>3. ASSUME NEW w \in Worker, Main(w)
      PROVE  Maps' /\ GuardedCallsFindTheirTx'
  BY <1>3, MainKeepsMaps
<1>4. ASSUME NEW w \in Worker, Thread(w) \/ Crash(w)
      PROVE  Maps' /\ GuardedCallsFindTheirTx'
  <2>1. CASE HandleInit(w)
    BY <2>1, HandleInitKeepsMaps
  <2>2. ASSUME NEW t \in Tx, HandleNewTx(w, t) \/ HandleClose(w, t)
        PROVE  Maps' /\ GuardedCallsFindTheirTx'
    BY <2>2, HandleNewTxKeepsMaps, HandleCloseKeepsMaps
  <2>3. ASSUME NEW t \in Tx, NEW kind \in OpKinds, HandleOp(w, t, kind)
        PROVE  Maps' /\ GuardedCallsFindTheirTx'
    BY <2>3, HandleOpKeepsMaps
  <2>4. ASSUME NEW by \in {"rotation", "destroy"}, HandleShutdown(w, by)
        PROVE  Maps' /\ GuardedCallsFindTheirTx'
    BY <2>4, HandleShutdownKeepsMaps
  <2>5. CASE Exit(w) \/ Crash(w)
    <3>1. PICK to \in {"dead", "failed"} : ThreadEnds(w, to)
      BY <2>5 DEF Exit, Crash
    <3>2. QED
      BY <3>1, EndingKeepsMaps
  <2>6. QED
    BY <1>4, <2>1, <2>2, <2>3, <2>4, <2>5 DEF Thread
<1>5. QED
  BY <1>1, <1>2, <1>3, <1>4, DestroyKeepsMaps DEF Next

LEMMA MapsAtFirst ==
  ASSUME Init
  PROVE  Maps /\ GuardedCallsFindTheirTx
<1>1. \A w \in Worker : /\ inbox[w] = <<>> /\ outbox[w] = <<>> /\ txs[w] = {}
                        /\ Sent(w) = {} /\ Answered(w) = {} /\ Said(w) = {}
  BY DEF Init, Sent, Answered, Said
<1>2. \A t \in Tx : status[t] = "idle"
  BY DEF Init
<1>3. \A t \in Tx : ResetFirst(<<>>, t)
  BY DEF ResetFirst
<1>4. \A w \in Worker : MapFits(w)
  BY <1>1, <1>2 DEF MapFits
<1>5. \A w \in Worker : ResetsFit(w)
  BY <1>1, <1>3 DEF ResetsFit
<1>6. GuardedCallsFindTheirTx
  BY <1>1, GuardedAsSaid
<1>7. QED
  BY <1>4, <1>5, <1>6 DEF Maps

(* The invariant that carries the argument.                                *)
THEOREM MapsHold == Spec => []TInv
<1>1. Init => Maps /\ GuardedCallsFindTheirTx
  BY MapsAtFirst
<1>2. QInv /\ SpentFits /\ Maps /\ GuardedCallsFindTheirTx /\ [Next]_vars
      => Maps' /\ GuardedCallsFindTheirTx'
  BY StepKeepsMaps DEF TInv
<1>3. QED
  BY <1>1, <1>2, SpentHolds, PTL DEF Spec, TInv

(* HandlesMatchWorkers: no worker keeps a transaction of a handle that was *)
(* never handed out, none of a closed handle but one that tx.close() has   *)
(* thrown on, and the transaction of an open handle exists as long as its  *)
(* worker serves, whatever the interleaving of newTx, close, rotation and  *)
(* the death of threads.                                                   *)
THEOREM HandlesAndWorkersAgree == Spec => []HandlesMatchWorkers
<1>1. TInv => HandlesMatchWorkers
  <2> SUFFICES ASSUME TInv PROVE HandlesMatchWorkers
    OBVIOUS
  <2>1. ASSUME NEW t \in Tx, status[t] = "open", thread[home[t]] = "serving",
               ~destroyed
        PROVE  t \in txs[home[t]]
    <3>1. home[t] \in Worker
      BY <2>1 DEF TInv, QInv, MInv, IInv, CallsMatchHandles
    <3>2. QED
      BY <2>1, <3>1 DEF TInv, Maps, MapFits
  <2>2. ASSUME NEW w \in Worker, NEW t \in txs[w]
        PROVE  /\ home[t] = w
               /\ \/ status[t] \in {"opening", "open", "closing"}
                  \/ status[t] = "closed" /\ t \in spent
    BY DEF TInv, Maps, MapFits, LeftOver, Handles
  <2>3. QED
    BY <2>1, <2>2 DEF HandlesMatchWorkers
<1>2. QED
  BY <1>1, MapsHold, PTL

(* GuardedCallsFindTheirTx: reset() and processLogging() test #closed and  *)
(* post; the queue is first in first out, so the close that overtakes them *)
(* in the program never overtakes them in the worker.                      *)
THEOREM GuardedCallsAreServed == Spec => []GuardedCallsFindTheirTx
BY MapsHold, PTL DEF TInv

(* SurvivesFaults: the accounting, the rotations, the membership and the   *)
(* agreement of handles and maps hold for every set of faults, also when   *)
(* processLogging() or tx.close() throws and when threads die.             *)
THEOREM PoolSurvivesFaults == Spec => []SurvivesFaults
BY BusyIsExact, RotationIsSafe, HandlesAndWorkersAgree, SlotsAreAlwaysReady,
   RotationIsSingle, ThreadsAreAccounted, PTL DEF SurvivesFaults

-----------------------------------------------------------------------------
(* The pool implements TxService: seen through the statuses of its handles *)
(* and the transactions of its workers' maps, every step of the pool is a  *)
(* step of the service or none.  Most of it can be read off the maps.      *)
(* What is left is that no thread that serves a handle is ever ended by    *)
(* the pool itself before destroy(): Endings follows terminate() and the   *)
(* threads that ended.                                                     *)

MayCrash == Faults \cap {"exit", "error"} # {}

(* The stages of a slot the pool has given up.                             *)
Over == {"failed", "terminating", "retired", "discarded"}

(* The threads that have ended, or are about to.                           *)
Ended == {"closed", "failed", "dead", "gone"}

Endings ==
  \A w \in Worker :
    /\ stopping[w] # "no" => destroyed
    /\ w \in terminated => destroyed \/ stage[w] \in Over
    /\ thread[w] \in Ended => destroyed \/ MayCrash \/ stage[w] \notin Early

SInv == TInv /\ Endings

-----------------------------------------------------------------------------
(* Endings is an invariant.                                                *)

LEMMA MovesKeepEndings ==
  ASSUME SInv, destroyed => destroyed',
         \A v \in Worker :
           /\ stage'[v] \in Early => stage[v] \in Early
           /\ stage[v] \in Over => stage'[v] \in Over
           /\ stopping'[v] # "no" => stopping[v] # "no" \/ destroyed'
           /\ v \in terminated' => v \in terminated \/ destroyed \/ stage'[v] \in Over
           /\ thread'[v] \in Ended =>
                \/ thread[v] \in Ended \/ destroyed \/ MayCrash
                \/ stage'[v] \notin Early
  PROVE  Endings'
BY DEF SInv, Endings

LEMMA MainKeepsEndings ==
  ASSUME SInv, NEW w \in Worker, Main(w)
  PROVE  Endings'
<1>1. TypeOK /\ InSlots \subseteq Worker
  BY SlotsAreWorkers DEF SInv, TInv, QInv, MInv, IInv
<1>2. Forward
  BY MainKeepsQueues DEF SInv, TInv
<1>3. /\ destroyed' = destroyed
      /\ \A v \in Worker : stage'[v] \in Early => stage[v] \in Early
  BY <1>2 DEF Forward
<1>4. \A v \in Worker : thread'[v] \in Ended => thread[v] \in Ended
  <2>1. \A v \in Worker : thread[v] \in Threads
    BY <1>1 DEF TypeOK
  <2>2. \A v \in Worker : thread'[v] = thread[v] \/ thread'[v] \in Running
                          \/ thread[v] \in Ended
    <3>1. CASE ErrorEvent(w) \/ ExitEvent(w)
      BY <1>1, <3>1 DEF ErrorEvent, ExitEvent, TypeOK, Ended
    <3>2. CASE Online(w)
      BY <1>1, <3>2 DEF Online, TypeOK, Running
    <3>3. ASSUME NEW t \in Tx, Opened(w, t)
          PROVE  \A v \in Worker : thread'[v] = thread[v] \/ thread'[v] \in Running
      BY <1>1, <3>3 DEF Opened, TypeOK, Running
    <3>4. ASSUME \/ \E t \in Tx : \/ OpenFailed(w, t) \/ Closed(w, t)
                                  \/ \E kind \in OpKinds : Operated(w, t, kind)
                 \/ Dropped(w) \/ Swapped(w) \/ TooLate(w) \/ GiveUp(w)
                 \/ Drained(w) \/ ShutDown(w) \/ DestroyShutDown(w)
          PROVE  thread' = thread
      BY <3>4 DEF OpenFailed, Closed, Operated, Dropped, Swapped, TooLate, GiveUp,
         Drained, ShutDown, DestroyShutDown
    <3>5. QED
      BY <3>1, <3>2, <3>3, <3>4 DEF Main
  <2>3. QED
    BY <2>2 DEF Running, Ended
<1>5. \A v \in Worker :
        /\ stage[v] \in Over => stage'[v] \in Over
        /\ stopping'[v] # "no" => stopping[v] # "no" \/ destroyed
        /\ v \in terminated' => v \in terminated \/ destroyed \/ stage'[v] \in Over
  <2>1. /\ InitCall \in pending[w] => stage[w] = "initing"
        /\ Stop \in pending[w] => destroyed
        /\ stopping[w] # "no" => destroyed
    BY DEF SInv, TInv, QInv, MInv, IInv, StagesMatchCalls, AnswersMatchHandles,
       InitCall, Endings
  <2>2. ASSUME NEW t \in Tx, Opened(w, t)
        PROVE  /\ UNCHANGED <<stopping, terminated>>
               /\ \A v \in Worker : stage[v] \in Over => stage'[v] \in Over
    <3>1. UNCHANGED <<stopping, terminated>>
      BY <2>2 DEF Opened
    <3>2. CASE RotationDue(w)
      <4> DEFINE n == spawned + 1
      <4>1. n \in Worker /\ stage' = [stage EXCEPT ![n] = "booting"]
        BY <2>2, <3>2 DEF Opened
      <4>2. n > spawned
        BY <1>1, SizeAssumption, WorkersAssumption DEF TypeOK
      <4>3. stage[n] = "unspawned"
        BY <4>1, <4>2 DEF SInv, TInv, QInv, MInv, IInv, StagesMatchCalls
      <4> HIDE DEF n
      <4>4. QED
        BY <1>1, <3>1, <4>1, <4>3 DEF TypeOK, Over
    <3>3. CASE ~RotationDue(w)
      BY <2>2, <3>1, <3>3 DEF Opened
    <3>4. QED
      BY <3>2, <3>3
  <2>3. ASSUME \/ \E t \in Tx : \/ OpenFailed(w, t) \/ Closed(w, t)
                                \/ \E kind \in OpKinds : Operated(w, t, kind)
               \/ Dropped(w)
        PROVE  UNCHANGED <<stopping, terminated, stage>>
    BY <2>3 DEF OpenFailed, Closed, Operated, Dropped, slotVars
  <2>4. ASSUME Online(w) \/ Drained(w)
        PROVE  /\ UNCHANGED <<stopping, terminated>>
               /\ \A v \in Worker : stage[v] \in Over => stage'[v] \in Over
    BY <1>1, <2>4 DEF Online, Drained, TypeOK, Over
  <2>5. ASSUME TooLate(w)
        PROVE  /\ UNCHANGED <<stopping, terminated>>
               /\ \A v \in Worker : stage[v] \in Over => stage'[v] \in Over
    BY <1>1, <2>1, <2>5 DEF TooLate, Answers, InitCall, TypeOK, Over
  <2>6. ASSUME Swapped(w)
        PROVE  /\ UNCHANGED <<stopping, terminated>>
               /\ \A v \in Worker : stage[v] \in Over => stage'[v] \in Over
    <3>1. /\ stage' = [stage EXCEPT ![w] = "active", ![replaces[w]] = "draining"]
          /\ InitCall \in pending[w] /\ replaces[w] \in InSlots
      BY <2>6 DEF Swapped, Answers, Wanted, InitCall
    <3>2. stage[w] = "initing" /\ stage[replaces[w]] = "active"
      BY <2>1, <3>1 DEF SInv, TInv, QInv, MInv, IInv, StagesMatchCalls
    <3>3. QED
      BY <1>1, <2>6, <3>1, <3>2 DEF Swapped, TypeOK, Over
  <2>7. ASSUME GiveUp(w) \/ ShutDown(w)
        PROVE  /\ UNCHANGED stopping
               /\ \A v \in Worker : /\ stage[v] \in Over => stage'[v] \in Over
                                    /\ v \in terminated' =>
                                         v \in terminated \/ stage'[v] \in Over
    BY <1>1, <2>7 DEF GiveUp, ShutDown, TypeOK, Over
  <2>8. ASSUME DestroyShutDown(w)
        PROVE  destroyed /\ stage' = stage
    BY <2>1, <2>8 DEF DestroyShutDown, Answers, Stop
  <2>9. ASSUME ErrorEvent(w) \/ ExitEvent(w)
        PROVE  \A v \in Worker :
                 /\ stage[v] \in Over => stage'[v] \in Over
                 /\ stopping'[v] # "no" => stopping[v] # "no"
                 /\ v \in terminated' =>
                      v \in terminated \/ destroyed \/ stage'[v] \in Over
    <3>1. PICK gone \in BOOLEAN : RejectPending(w, gone)
      BY <2>9 DEF ErrorEvent, ExitEvent
    <3>2. \A v \in Worker : /\ v # w => stage'[v] = stage[v]
                            /\ stage[v] \in Over => stage'[v] \in Over
      BY <1>1, <3>1 DEF RejectPending, TypeOK, Over
    <3>3. \A v \in Worker : stopping'[v] # "no" => stopping[v] # "no"
      BY <1>1, <3>1 DEF RejectPending, TypeOK
    <3>4. ASSUME NEW v \in Worker, v \in terminated', v \notin terminated
          PROVE  stage'[v] \in Over \/ stopping'[v] = "terminating"
      BY <3>1, <3>4 DEF RejectPending, Over
    <3>5. QED
      BY <3>2, <3>3, <3>4 DEF SInv, Endings
  <2>10. QED
    BY <2>2, <2>3, <2>4, <2>5, <2>6, <2>7, <2>8, <2>9 DEF Main
<1>6. QED
  BY <1>3, <1>4, <1>5, MovesKeepEndings

LEMMA ThreadKeepsEndings ==
  ASSUME SInv, NEW w \in Worker, Thread(w) \/ Crash(w)
  PROVE  Endings'
<1>1. TypeOK
  BY DEF SInv, TInv, QInv, MInv, IInv
<1>2. UNCHANGED <<destroyed, stage, stopping, terminated>>
  BY DEF Thread, Crash, HandleInit, HandleNewTx, HandleClose, HandleOp, HandleShutdown,
     Exit, ThreadEnds, poolVars, slotVars
<1>3. /\ Shut \in Sent(w) => stage[w] \notin Early
      /\ Stop \in Sent(w) => destroyed
      /\ w \in terminated => destroyed \/ stage[w] \notin Early
  <2>1. Sent(w) \subseteq pending[w]
    BY DEF SInv, TInv, QInv, Queues, QueueFits
  <2>2. /\ Shut \in pending[w] => stage[w] \in {"shutdown", "discarding"}
        /\ Stop \in pending[w] => destroyed
        /\ w \in terminated => destroyed \/ stage[w] \in Over
    BY DEF SInv, TInv, QInv, MInv, IInv, StagesMatchCalls, AnswersMatchHandles,
       Endings, Shut
  <2>3. QED
    BY <2>1, <2>2 DEF Early, Over
<1>4. \A v \in Worker : thread'[v] \in Ended =>
        \/ thread[v] \in Ended \/ destroyed \/ MayCrash
        \/ stage[v] \notin Early
  <2>1. CASE HandleInit(w)
    BY <1>1, <2>1 DEF HandleInit, TypeOK, Ended
  <2>2. ASSUME NEW t \in Tx, \/ HandleNewTx(w, t) \/ HandleClose(w, t)
                             \/ \E kind \in OpKinds : HandleOp(w, t, kind)
        PROVE  thread' = thread
    BY <2>2 DEF HandleNewTx, HandleClose, HandleOp
  <2>3. ASSUME NEW by \in {"rotation", "destroy"}, HandleShutdown(w, by)
        PROVE  /\ \A v \in Worker \ {w} : thread'[v] = thread[v]
               /\ destroyed \/ stage[w] \notin Early
    <3>1. \A v \in Worker \ {w} : thread'[v] = thread[v]
      BY <1>1, <2>3 DEF HandleShutdown, TypeOK
    <3>2. Call("shutdown", by) \in Sent(w)
      <4>1. inbox[w] \in Seq(Calls) /\ inbox[w] # <<>>
            /\ Head(inbox[w]) = Call("shutdown", by)
        BY <1>1, <2>3 DEF HandleShutdown, Reply, TypeOK
      <4>2. 1 \in DOMAIN inbox[w] /\ inbox[w][1] = Call("shutdown", by)
        BY <4>1
      <4>3. QED
        BY <4>2 DEF Sent
    <3>3. QED
      BY <1>3, <3>1, <3>2 DEF Shut, Stop
  <2>4. CASE Exit(w)
    <3>1. \/ thread[w] \in Ended
          \/ w \in terminated
      BY <2>4 DEF Exit, Ended
    <3>2. \A v \in Worker \ {w} : thread'[v] = thread[v]
      BY <1>1, <2>4 DEF Exit, ThreadEnds, TypeOK
    <3>3. QED
      BY <1>3, <3>1, <3>2
  <2>5. CASE Crash(w)
    BY <2>5 DEF Crash, MayCrash
  <2>6. QED
    BY <2>1, <2>2, <2>3, <2>4, <2>5 DEF Thread
<1>5. QED
  BY <1>2, <1>4, MovesKeepEndings

LEMMA StepKeepsEndings ==
  ASSUME SInv, [Next]_vars
  PROVE  Endings'
<1>1. CASE UNCHANGED vars
  BY <1>1 DEF SInv, Endings, vars, poolVars, slotVars, threadVars
<1>2. ASSUME NEW t \in Tx, Client(t)
      PROVE  Endings'
  <2>1. UNCHANGED <<destroyed, stage, stopping, terminated, thread>>
    BY <1>2 DEF Client, NewTransaction, NewTransactionDestroyed, Close, Operate,
       poolVars, slotVars, threadVars
  <2>2. QED
    BY <2>1 DEF SInv, Endings
<1>3. CASE Destroy
  <2>1. destroyed' /\ UNCHANGED <<stage, terminated, thread>>
    BY <1>3 DEF Destroy
  <2>2. QED
    BY <2>1 DEF Endings
<1>4. QED
  BY <1>1, <1>2, <1>3, MainKeepsEndings, ThreadKeepsEndings DEF Next

(* The invariant that carries the argument.                                *)
THEOREM EndingsHold == Spec => []SInv
<1>1. Init => Endings
  BY DEF Init, Endings, Ended
<1>2. TInv /\ Endings /\ [Next]_vars => Endings'
  BY StepKeepsEndings DEF SInv
<1>3. QED
  BY <1>1, <1>2, MapsHold, PTL DEF Spec, SInv

-----------------------------------------------------------------------------
(* Every step is a step of the service, seen through status, destroyed,    *)
(* the transactions that exist and those left over.                        *)

Existing == UNION {txs[w] : w \in Worker}
Stutters == UNCHANGED <<status, Existing, spent, destroyed>>
Serves == Service!Next \/ Stutters

LEMMA SameMaps ==
  ASSUME txs' = txs
  PROVE  Existing' = Existing
BY DEF Existing

LEMMA ExistsAtHome ==
  ASSUME SInv, NEW t \in Tx
  PROVE  /\ t \in Existing <=> home[t] \in Worker /\ t \in txs[home[t]]
         /\ t \in Existing => status[t] \in Handles \/ LeftOver(t)
BY DEF SInv, TInv, Maps, MapFits, Existing

LEMMA ClientServes ==
  ASSUME SInv, NEW t \in Tx, Client(t)
  PROVE  Serves
<1>1. UNCHANGED <<txs, spent, destroyed>>
  BY DEF Client, NewTransaction, NewTransactionDestroyed, Close, Operate, poolVars,
     threadVars
<1>2. Existing' = Existing
  BY <1>1, SameMaps
<1>3. CASE NewTransaction(t) \/ NewTransactionDestroyed(t)
  <2>1. /\ status[t] = "idle"
        /\ status' = [status EXCEPT ![t] = IF destroyed THEN "failed" ELSE "opening"]
    BY <1>3 DEF NewTransaction, NewTransactionDestroyed, Accepting
  <2>2. Service!Ask(t)
    BY <1>1, <1>2, <2>1 DEF Service!Ask, Service!In, Service!Becomes, Existing
  <2>3. QED
    BY <2>2 DEF Serves, Service!Next
<1>4. CASE Close(t)
  <2>1. Service!AskClose(t)
    BY <1>1, <1>2, <1>4 DEF Close, Service!AskClose, Service!In, Service!Becomes,
       Existing
  <2>2. QED
    BY <2>1 DEF Serves, Service!Next
<1>5. ASSUME NEW kind \in OpKinds, Operate(t, kind)
      PROVE  Serves
  BY <1>1, <1>2, <1>5 DEF Operate, txVars, Serves, Stutters
<1>6. QED
  BY <1>3, <1>4, <1>5 DEF Client

LEMMA DestroyServes ==
  ASSUME SInv, Destroy
  PROVE  Serves
<1>1. UNCHANGED <<txs, spent, status>> /\ ~destroyed /\ destroyed'
  BY DEF Destroy, txVars
<1>2. Existing' = Existing
  BY <1>1, SameMaps
<1>3. Service!Destroy
  BY <1>1, <1>2 DEF Service!Destroy, Existing
<1>4. QED
  BY <1>3 DEF Serves, Service!Next

(* Calls of handles without a transaction, or with one left over, return.  *)
LEMMA ReturningServes ==
  ASSUME SInv, UNCHANGED <<txs, spent, destroyed>>,
         NEW refused \in SUBSET Tx, NEW closed \in SUBSET Tx,
         \A t \in refused : status[t] = "opening" /\ t \notin Existing,
         \A t \in closed : status[t] = "closing" /\ t \notin Existing \ spent,
         status' = [t \in Tx |-> IF t \in refused THEN "failed"
                                 ELSE IF t \in closed THEN "closed" ELSE status[t]]
  PROVE  Serves
<1>1. Existing' = Existing
  BY SameMaps
<1>2. CASE refused \cup closed = {}
  <2>1. status' = status
    BY <1>2 DEF SInv, TInv, QInv, MInv, IInv, TypeOK
  <2>2. QED
    BY <1>1, <2>1 DEF Serves, Stutters
<1>3. CASE refused \cup closed # {}
  <2>1. Service!Return(refused, closed)
    BY <1>1, <1>3 DEF Service!Return, Service!In, Existing
  <2>2. QED
    BY <2>1 DEF Serves, Service!Next
<1>4. QED
  BY <1>2, <1>3

(* A thread that was told ok and does not serve any more was ended by      *)
(* destroy() or died.                                                      *)
LEMMA GrantedExists ==
  ASSUME SInv, NEW w \in Worker, NEW t \in Tx, Grant(t) \in Said(w),
         status[t] = "opening"
  PROVE  t \in Existing \/ destroyed \/ MayCrash
<1>1. home[t] = w
  BY RepliesTell DEF SInv, TInv
<1>2. stage[w] \in {"active", "draining"}
  BY <1>1 DEF SInv, TInv, QInv, MInv, Membership, UsersAreServed, Handles
<1>3. thread[w] \in {"serving"} \cup Ended
  BY <1>2 DEF SInv, TInv, QInv, MInv, IInv, TypeOK, Membership, ThreadsMatchStages,
     Inited, Threads, Running, Ended
<1>4. CASE thread[w] = "serving"
  BY <1>1, <1>4 DEF SInv, TInv, Maps, MapFits, Existing
<1>5. CASE thread[w] \in Ended
  BY <1>2, <1>5 DEF SInv, Endings, Early
<1>6. QED
  BY <1>3, <1>4, <1>5

LEMMA MainServes ==
  ASSUME SInv, NEW w \in Worker, Main(w)
  PROVE  Serves
<1>1. TypeOK
  BY DEF SInv, TInv, QInv, MInv, IInv
<1>2. UNCHANGED <<txs, spent, destroyed>> /\ Existing' = Existing
  BY MainKeepsQueues, SameMaps DEF SInv, TInv, Forward
<1>3. \A t \in Tx :
        /\ Call("newTx", t) \in pending[w] => status[t] = "opening" /\ home[t] = w
        /\ Call("close", t) \in pending[w] => status[t] = "closing" /\ home[t] = w
  BY DEF SInv, TInv, QInv, MInv, IInv, CallsMatchHandles
<1>4. \A t \in Tx :
        /\ t \in txs[w] => /\ t \in spent \/ Call("close", t) \notin Answered(w)
                           /\ Refusal(t) \notin Said(w)
        /\ home[t] = w => (t \in Existing <=> t \in txs[w])
  BY ExistsAtHome DEF SInv, TInv, Maps, MapFits
<1>5. ASSUME NEW t \in Tx, Opened(w, t)
      PROVE  Serves
  <2>1. /\ Answers(w, Call("newTx", t), {"ok"}) /\ Call("newTx", t) \in pending[w]
        /\ status' = [status EXCEPT ![t] = "open"]
    BY <1>5 DEF Opened, Answers
  <2>2. Grant(t) \in Said(w)
    BY <1>1, <2>1, AnswerIsSaid DEF Grant
  <2>3. status[t] = "opening" /\ (t \in Existing \/ destroyed \/ MayCrash)
    BY <1>3, <2>1, <2>2, GrantedExists
  <2>4. Service!Grant(t)
    BY <1>2, <2>1, <2>3 DEF Service!Grant, Service!In, Service!Becomes, Existing, MayCrash
  <2>5. QED
    BY <2>4 DEF Serves, Service!Next
<1>6. ASSUME NEW t \in Tx, OpenFailed(w, t)
      PROVE  Serves
  <2>1. /\ Answers(w, Call("newTx", t), {"error"}) /\ Call("newTx", t) \in pending[w]
        /\ status' = [status EXCEPT ![t] = "failed"]
    BY <1>6 DEF OpenFailed, Answers
  <2>2. Refusal(t) \in Said(w)
    BY <1>1, <2>1, AnswerIsSaid DEF Refusal
  <2>3. status[t] = "opening" /\ t \notin Existing
    BY <1>3, <1>4, <2>1, <2>2
  <2>4. status' = [u \in Tx |-> IF u \in {t} THEN "failed"
                                ELSE IF u \in {} THEN "closed" ELSE status[u]]
    BY <1>1, <2>1 DEF TypeOK
  <2>5. {t} \in SUBSET Tx /\ {} \in SUBSET Tx
    OBVIOUS
  <2>6. QED
    BY <1>2, <2>3, <2>4, <2>5, ReturningServes
<1>7. ASSUME NEW t \in Tx, Closed(w, t)
      PROVE  Serves
  <2>1. /\ Answers(w, Call("close", t), Results) /\ Call("close", t) \in pending[w]
        /\ status' = [status EXCEPT ![t] = "closed"]
    BY <1>7 DEF Closed, Answers
  <2>2. Call("close", t) \in Answered(w)
    BY <1>1, <2>1, AnswerIsSaid
  <2>3. status[t] = "closing" /\ t \notin Existing \ spent
    BY <1>3, <1>4, <2>1, <2>2
  <2>4. status' = [u \in Tx |-> IF u \in {} THEN "failed"
                                ELSE IF u \in {t} THEN "closed" ELSE status[u]]
    BY <1>1, <2>1 DEF TypeOK
  <2>5. {t} \in SUBSET Tx /\ {} \in SUBSET Tx
    OBVIOUS
  <2>6. QED
    BY <1>2, <2>3, <2>4, <2>5, ReturningServes
<1>8. ASSUME ErrorEvent(w) \/ ExitEvent(w)
      PROVE  Serves
  <2> DEFINE lost(op) == {t \in Tx : Call(op, t) \in pending[w]}
  <2>1. PICK gone \in BOOLEAN : RejectPending(w, gone)
    BY <1>8 DEF ErrorEvent, ExitEvent
  <2>2. txs[w] = {}
    <3>1. thread[w] \notin Running
      BY <1>8 DEF ErrorEvent, ExitEvent, Running
    <3>2. MapFits(w)
      BY DEF SInv, TInv, Maps
    <3>3. QED
      BY <3>1, <3>2 DEF MapFits
  <2>3. /\ \A t \in lost("newTx") : status[t] = "opening" /\ t \notin Existing
        /\ \A t \in lost("close") : status[t] = "closing" /\ t \notin Existing \ spent
    BY <1>3, <1>4, <2>2
  <2>4. status' = [t \in Tx |-> CASE t \in lost("newTx") -> "failed"
                                  [] t \in lost("close") -> "closed"
                                  [] OTHER -> status[t]]
    BY <2>1 DEF RejectPending
  <2>5. lost("newTx") \in SUBSET Tx /\ lost("close") \in SUBSET Tx
    OBVIOUS
  <2>6. lost("newTx") \cap lost("close") = {}
    BY <2>3
  <2> HIDE DEF lost
  <2>7. status' = [t \in Tx |-> IF t \in lost("newTx") THEN "failed"
                                ELSE IF t \in lost("close") THEN "closed" ELSE status[t]]
    BY <2>4, <2>6
  <2>8. QED
    BY <1>2, <2>3, <2>5, <2>7, ReturningServes
<1>9. ASSUME \/ \E t \in Tx, kind \in OpKinds : Operated(w, t, kind)
             \/ Dropped(w) \/ Online(w) \/ Swapped(w) \/ TooLate(w) \/ GiveUp(w)
             \/ Drained(w) \/ ShutDown(w) \/ DestroyShutDown(w)
      PROVE  Serves
  <2>1. status' = status
    BY <1>9 DEF Operated, Dropped, Online, Swapped, TooLate, GiveUp, Drained, ShutDown,
       DestroyShutDown, txVars
  <2>2. QED
    BY <1>2, <2>1 DEF Serves, Stutters
<1>10. QED
  BY <1>5, <1>6, <1>7, <1>8, <1>9 DEF Main

(* The map of w is emptied: what it held is lost, if it held any.          *)
LEMMA EmptyingServes ==
  ASSUME SInv, NEW w \in Worker, txs' = [txs EXCEPT ![w] = {}],
         UNCHANGED <<spent, status, destroyed>>,
         txs[w] \subseteq spent \/ destroyed \/ MayCrash
  PROVE  Serves
<1>1. txs \in [Worker -> SUBSET Tx]
  BY DEF SInv, TInv, QInv, MInv, IInv, TypeOK
<1>2. CASE txs[w] = {}
  <2>1. txs' = txs
    BY <1>1, <1>2
  <2>2. QED
    BY <2>1, SameMaps DEF Serves, Stutters
<1>3. CASE txs[w] # {}
  <2>1. Existing' = Existing \ txs[w]
    <3>1. \A v \in Worker : txs'[v] = IF v = w THEN {} ELSE txs[v]
      BY <1>1
    <3>2. \A v \in Worker \ {w} : txs[v] \cap txs[w] = {}
      BY DEF SInv, TInv, Maps, MapFits
    <3>3. QED
      BY <3>1, <3>2 DEF Existing
  <2>2. txs[w] \subseteq Existing
    BY DEF Existing
  <2>3. PICK some \in SUBSET Existing : some = txs[w]
    BY <2>2
  <2>4. Service!Lose(some)
    BY <1>3, <2>1, <2>3 DEF Service!Lose, Existing, MayCrash
  <2>5. QED
    BY <2>4 DEF Serves, Service!Next, Existing
<1>4. QED
  BY <1>2, <1>3

LEMMA ThreadServes ==
  ASSUME SInv, NEW w \in Worker, Thread(w) \/ Crash(w)
  PROVE  Serves
<1>1. /\ TypeOK /\ MapFits(w)
      /\ \A t \in txs[w] : home[t] = w /\ (status[t] \in Handles \/ t \in spent)
  BY DEF SInv, TInv, QInv, MInv, IInv, Maps, MapFits, LeftOver
<1>2. UNCHANGED <<status, destroyed>>
  BY DEF Thread, Crash, HandleInit, HandleNewTx, HandleClose, HandleOp, HandleShutdown,
     Exit, ThreadEnds, poolVars, txVars
<1>3. txs' = txs /\ spent' = spent => Serves
  BY <1>2, SameMaps DEF Serves, Stutters
<1>4. Sent(w) \subseteq pending[w]
  BY DEF SInv, TInv, QInv, Queues, QueueFits
<1>5. \A c : inbox[w] # <<>> /\ Head(inbox[w]) = c => c \in Sent(w)
  <2>1. inbox[w] \in Seq(Calls)
    BY <1>1 DEF TypeOK
  <2>2. inbox[w] # <<>> => 1 \in DOMAIN inbox[w] /\ inbox[w][1] = Head(inbox[w])
    BY <2>1
  <2>3. QED
    BY <2>2 DEF Sent
<1>6. stage[w] \notin {"active", "draining"} => txs[w] \subseteq spent
  <2>1. \A t \in Tx : status[t] \in Handles => stage[home[t]] \in {"active", "draining"}
    BY DEF SInv, TInv, QInv, MInv, Membership, UsersAreServed
  <2>2. txs[w] \subseteq Tx
    BY <1>1 DEF TypeOK
  <2>3. QED
    BY <1>1, <2>1, <2>2
<1>7. ASSUME NEW t \in Tx, HandleNewTx(w, t), txs' # txs
      PROVE  Serves
  <2>1. /\ txs' = [txs EXCEPT ![w] = @ \cup {t}] /\ spent' = spent
        /\ Call("newTx", t) \in Sent(w)
    BY <1>5, <1>7 DEF HandleNewTx, Reply
  <2>2. status[t] = "opening" /\ home[t] = w
    BY <1>4, <2>1 DEF SInv, TInv, QInv, MInv, IInv, CallsMatchHandles
  <2>3. t \notin Existing
    BY <1>1, <2>1, <2>2, ExistsAtHome DEF MapFits
  <2>4. Existing' = Existing \cup {t}
    BY <1>1, <2>1 DEF Existing, TypeOK
  <2>5. Service!Create(t)
    BY <1>2, <2>1, <2>2, <2>3, <2>4 DEF Service!Create, Service!In, Existing
  <2>6. QED
    BY <2>5 DEF Serves, Service!Next
<1>8. ASSUME NEW t \in Tx, HandleClose(w, t), txs' # txs \/ spent' # spent
      PROVE  Serves
  <2>1. Call("close", t) \in Sent(w)
    BY <1>5, <1>8 DEF HandleClose, Reply
  <2>2. status[t] = "closing" /\ home[t] = w /\ t \notin spent
    BY <1>4, <2>1 DEF SInv, TInv, SpentFits, QInv, MInv, IInv, CallsMatchHandles
  <2>3. \/ txs' = [txs EXCEPT ![w] = txs[w] \ {t}] /\ spent' = spent
        \/ /\ txs' = [txs EXCEPT ![w] = txs[w]] /\ spent' = spent \cup {t}
           /\ t \in txs[w] /\ "destroyTx" \in Faults
    BY <1>8 DEF HandleClose, Forgotten
  <2>4. CASE txs' = [txs EXCEPT ![w] = txs[w] \ {t}] /\ spent' = spent
    <3>1. t \in txs[w]
      BY <1>1, <1>8, <2>4 DEF TypeOK
    <3>2. \A v \in Worker \ {w} : t \notin txs[v]
      BY <2>2 DEF SInv, TInv, Maps, MapFits
    <3>3. Existing' = Existing \ {t} /\ t \in Existing
      BY <1>1, <2>4, <3>1, <3>2 DEF Existing, TypeOK
    <3>4. Service!Release(t)
      BY <1>2, <2>2, <2>4, <3>3 DEF Service!Release, Service!In, Existing
    <3>5. QED
      BY <3>4 DEF Serves, Service!Next
  <2>5. CASE /\ txs' = [txs EXCEPT ![w] = txs[w]] /\ spent' = spent \cup {t}
             /\ t \in txs[w] /\ "destroyTx" \in Faults
    <3>1. txs' = txs
      BY <1>1, <2>5 DEF TypeOK
    <3>2. Existing' = Existing /\ t \in Existing
      BY <2>5, <3>1, SameMaps DEF Existing
    <3>3. Service!Leave(t)
      BY <1>2, <2>2, <2>5, <3>2 DEF Service!Leave, Service!In, Existing
    <3>4. QED
      BY <3>3 DEF Serves, Service!Next
  <2>6. QED
    BY <2>3, <2>4, <2>5
<1>9. ASSUME NEW by \in {"rotation", "destroy"}, HandleShutdown(w, by)
      PROVE  Serves
  <2>1. /\ txs' = [txs EXCEPT ![w] = {}] /\ spent' = spent
        /\ Call("shutdown", by) \in pending[w]
    BY <1>4, <1>5, <1>9 DEF HandleShutdown, Reply
  <2>2. txs[w] \subseteq spent \/ destroyed
    <3>1. CASE by = "rotation"
      BY <1>6, <2>1, <3>1 DEF SInv, TInv, QInv, MInv, IInv, StagesMatchCalls
    <3>2. CASE by = "destroy"
      BY <2>1, <3>2 DEF SInv, TInv, QInv, AnswersMatchHandles, Stop
    <3>3. QED
      BY <3>1, <3>2
  <2>3. QED
    BY <1>2, <2>1, <2>2, EmptyingServes
<1>10. ASSUME Exit(w) \/ Crash(w)
      PROVE  Serves
  <2>1. txs' = [txs EXCEPT ![w] = {}] /\ spent' = spent
    BY <1>10 DEF Exit, Crash, ThreadEnds
  <2>2. CASE Exit(w)
    <3>1. thread[w] = "closed" => txs[w] = {}
      BY <1>1 DEF MapFits, Running
    <3>2. w \in terminated => destroyed \/ txs[w] \subseteq spent
      BY <1>6 DEF SInv, Endings, Over
    <3>3. QED
      BY <1>2, <2>1, <2>2, <3>1, <3>2, EmptyingServes DEF Exit
  <2>3. CASE Crash(w)
    <3>1. MayCrash
      BY <2>3 DEF Crash, MayCrash
    <3>2. QED
      BY <1>2, <2>1, <3>1, EmptyingServes
  <2>4. QED
    BY <1>10, <2>2, <2>3
<1>11. HandleInit(w) => UNCHANGED <<txs, spent>>
  BY DEF HandleInit
<1>12. \A t \in Tx, kind \in OpKinds : HandleOp(w, t, kind) => UNCHANGED <<txs, spent>>
  BY DEF HandleOp
<1>13. \A t \in Tx : HandleNewTx(w, t) => spent' = spent
  BY DEF HandleNewTx
<1>14. QED
  BY <1>3, <1>7, <1>8, <1>9, <1>10, <1>11, <1>12, <1>13 DEF Thread

LEMMA StepServes ==
  ASSUME SInv, [Next]_vars
  PROVE  Serves
<1>1. CASE UNCHANGED vars
  <2>1. UNCHANGED <<status, txs, spent, destroyed>>
    BY <1>1 DEF vars, poolVars, threadVars, txVars
  <2>2. QED
    BY <2>1, SameMaps DEF Serves, Stutters
<1>2. QED
  BY <1>1, ClientServes, DestroyServes, MainServes, ThreadServes DEF Next

(* ImplementsService: whatever the pool does, its users see TxService: no  *)
(* rotation and no order of the messages shows, and a transaction is left  *)
(* over only where tx.close() threw.                                       *)
THEOREM PoolImplementsService == Spec => ImplementsService
<1>1. Init => Service!Init
  BY DEF Init, Service!Init
<1>2. SInv /\ [Next]_vars => [Service!Next]_(Service!vars)
  BY StepServes DEF Serves, Stutters, Service!vars, Existing
<1>3. QED
  BY <1>1, <1>2, EndingsHold, PTL DEF Spec, ImplementsService, Service!Spec
=============================================================================
