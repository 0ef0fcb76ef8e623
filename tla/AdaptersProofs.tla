--------------------------- MODULE AdaptersProofs ---------------------------
(***************************************************************************)
(* Proofs about Adapters: it keeps its types, it fails closed, it logs     *)
(* after it has inspected, and Next and Nest answer after they closed,     *)
(* whatever the requests, the adapters, the settings and the faults.       *)
(*                                                                         *)
(* FailClosed is not inductive.  A verdict "interrupted" that arrived      *)
(* after the middleware had decided to let the request through would break *)
(* it; it cannot, because the middleware has one call under way at a time  *)
(* (CallsFit: what the queue holds of it is the call it awaits), and has   *)
(* none once it has decided (DecisionsStand).  The order of logging, close *)
(* and answer needs the same of the calls that end a request (EndInv).     *)
(***************************************************************************)
EXTENDS Adapters, TLAPS

MwOps == {"newTx"} \cup Inspecting
Over  == {"finally", "done"}

(* q may be the queue of a request whose middleware is at m: at most one   *)
(* call of the middleware's, the one it awaits; and where the middleware   *)
(* waits for the logging and close, these are called after the others.     *)
Fits(q, m, awaits) ==
  /\ \A i \in 1..Len(q) : q[i] \in MwOps => q[i] = m
  /\ \A i, j \in 1..Len(q) : q[i] \in MwOps /\ q[j] \in MwOps => i = j
  /\ awaits => \A i \in 1..Len(q) : q[i] \notin MwOps => m \in Over

CallsFit == \A r \in Req : Fits(queue[r], mw[r], kind[r] \in Awaits)

LetThrough(r) == verdict[r] \in {"ignored", "off", "pass"}

DecisionsStand ==
  policy = "block" => \A r \in Req :
    /\ answer[r] = "app" => mw[r] = "done" /\ LetThrough(r)
    /\ outcome[r] = "app" => mw[r] \in Over /\ LetThrough(r)

IInv == TypeOK /\ CallsFit /\ DecisionsStand

-----------------------------------------------------------------------------
(* Queues.                                                                 *)

(* Ending the call the middleware awaits frees it to await any other.      *)
LEMMA AwaitedCallEnds ==
  ASSUME NEW q \in Seq(Ops), NEW m, NEW awaits \in BOOLEAN,
         Fits(q, m, awaits), q # <<>>, Head(q) \in MwOps
  PROVE  /\ \A n : Fits(Tail(q), n, awaits)
         /\ \A op \in MwOps : Fits(Append(Tail(q), op), op, awaits)
         /\ \A op \in Ops \ MwOps : Fits(Append(Tail(q), op), "finally", awaits)
<1>1. /\ Tail(q) \in Seq(Ops) /\ Len(Tail(q)) = Len(q) - 1 /\ Len(q) \in Nat \ {0}
      /\ \A i \in 1..Len(Tail(q)) : Tail(q)[i] = q[i + 1]
  OBVIOUS
<1>2. q[1] \in MwOps /\ m = q[1]
  BY <1>1 DEF Fits
<1>3. \A i \in 1..Len(Tail(q)) : Tail(q)[i] \notin MwOps /\ ~awaits
  <2>1. TAKE i \in 1..Len(Tail(q))
  <2>2. i + 1 \in 1..Len(q) /\ 1 \in 1..Len(q) /\ i + 1 # 1
    BY <1>1
  <2>3. q[i + 1] \notin MwOps
    BY <2>2, <1>2 DEF Fits
  <2>4. ~awaits
    BY <2>2, <2>3, <1>2 DEF Fits, MwOps, Over, Inspecting
  <2> QED BY <2>3, <2>4, <1>1
<1>4. \A n : Fits(Tail(q), n, awaits)
  BY <1>3, <1>1 DEF Fits
<1>5. ASSUME NEW op \in Ops, NEW n, op \in MwOps => n = op,
             op \notin MwOps => n = "finally"
      PROVE  Fits(Append(Tail(q), op), n, awaits)
  <2> DEFINE p == Append(Tail(q), op)
  <2>1. /\ Len(p) = Len(Tail(q)) + 1 /\ p[Len(p)] = op /\ Len(Tail(q)) \in Nat
        /\ \A i \in 1..Len(Tail(q)) : p[i] = Tail(q)[i]
    BY <1>1, <1>5
  <2> HIDE DEF p
  <2>2. \A i \in 1..Len(p) : i \notin 1..Len(Tail(q)) => i = Len(p)
    BY <2>1
  <2>3. \A i \in 1..Len(p) : p[i] \in MwOps => i = Len(p) /\ p[i] = n
    BY <2>1, <2>2, <1>3, <1>5
  <2>4. \A i \in 1..Len(p) : awaits /\ p[i] \notin MwOps => n \in Over
    BY <2>1, <2>2, <1>3, <1>5 DEF Over
  <2>5. Fits(p, n, awaits)
    BY <2>3, <2>4 DEF Fits
  <2> QED BY <2>5 DEF p
<1>6. MwOps \subseteq Ops
  BY DEF MwOps, Ops
<1>7. ASSUME NEW op \in MwOps PROVE Fits(Append(Tail(q), op), op, awaits)
  BY <1>5, <1>6, <1>7
<1>8. ASSUME NEW op \in Ops \ MwOps
      PROVE  Fits(Append(Tail(q), op), "finally", awaits)
  BY <1>5, <1>8
<1> QED BY <1>4, <1>7, <1>8

(* The logging and close leave the middleware where it is, or end it.      *)
LEMMA FinalCallEnds ==
  ASSUME NEW q \in Seq(Ops), NEW m, NEW awaits \in BOOLEAN,
         Fits(q, m, awaits), q # <<>>, Head(q) \notin MwOps
  PROVE  /\ Fits(Tail(q), m, awaits)
         /\ awaits => Fits(Tail(q), "done", awaits)
         /\ \A op \in Ops \ MwOps : Fits(Append(Tail(q), op), m, awaits)
<1>1. /\ Tail(q) \in Seq(Ops) /\ Len(Tail(q)) = Len(q) - 1 /\ Len(q) \in Nat \ {0}
      /\ \A i \in 1..Len(Tail(q)) : Tail(q)[i] = q[i + 1] /\ i + 1 \in 1..Len(q)
  OBVIOUS
<1>2. awaits => m \in Over
  BY <1>1 DEF Fits
<1>3. Fits(Tail(q), m, awaits)
  <2>1. \A i \in 1..Len(Tail(q)) : Tail(q)[i] \in MwOps => Tail(q)[i] = m
    BY <1>1 DEF Fits
  <2>2. ASSUME NEW i \in 1..Len(Tail(q)), NEW j \in 1..Len(Tail(q)),
               Tail(q)[i] \in MwOps, Tail(q)[j] \in MwOps
        PROVE  i = j
    <3>1. i + 1 = j + 1
      BY <2>2, <1>1 DEF Fits
    <3> QED BY <3>1, <1>1
  <2> QED BY <2>1, <2>2, <1>2 DEF Fits
<1>4. ASSUME awaits PROVE Fits(Tail(q), "done", awaits)
  <2>1. \A i \in 1..Len(Tail(q)) : Tail(q)[i] \notin MwOps
    BY <1>4, <1>2, <1>3 DEF Fits, Over, MwOps, Inspecting
  <2> QED BY <2>1, <1>3 DEF Fits, Over
<1>5. ASSUME NEW op \in Ops \ MwOps PROVE Fits(Append(Tail(q), op), m, awaits)
  <2> DEFINE p == Append(Tail(q), op)
  <2>1. /\ Len(p) = Len(Tail(q)) + 1 /\ p[Len(p)] = op /\ Len(Tail(q)) \in Nat
        /\ \A i \in 1..Len(Tail(q)) : p[i] = Tail(q)[i]
    BY <1>1, <1>5
  <2>2. \A i \in 1..Len(p) : p[i] \in MwOps => i \in 1..Len(Tail(q))
    BY <2>1, <1>5
  <2> HIDE DEF p
  <2>3. Fits(p, m, awaits)
    BY <2>1, <2>2, <1>2, <1>3 DEF Fits
  <2> QED BY <2>3 DEF p
<1> QED BY <1>3, <1>4, <1>5

(* A middleware that waits for nothing may be joined by the logging.       *)
LEMMA LoggingIsPosted ==
  ASSUME NEW q \in Seq(Ops), NEW m, Fits(q, m, FALSE), NEW op \in Ops \ MwOps
  PROVE  Fits(Append(q, op), m, FALSE)
<1> DEFINE p == Append(q, op)
<1>1. /\ Len(p) = Len(q) + 1 /\ p[Len(p)] = op /\ Len(q) \in Nat
      /\ \A i \in 1..Len(q) : p[i] = q[i]
  OBVIOUS
<1>2. \A i \in 1..Len(p) : p[i] \in MwOps => i \in 1..Len(q)
  BY <1>1
<1> HIDE DEF p
<1>3. Fits(p, m, FALSE)
  BY <1>1, <1>2 DEF Fits
<1> QED BY <1>3 DEF p

(* A middleware that has just begun has no call under way.                 *)
LEMMA FirstCall ==
  ASSUME NEW q \in Seq(Ops), NEW awaits \in BOOLEAN, Fits(q, "start", awaits)
  PROVE  /\ Fits(q, "done", awaits) /\ Fits(q, "newTx", awaits)
         /\ Fits(Append(q, "newTx"), "newTx", awaits)
<1>1. \A i \in 1..Len(q) : q[i] \notin MwOps /\ ~awaits
  BY DEF Fits, MwOps, Over, Inspecting
<1>2. "newTx" \in Ops /\ "newTx" \in MwOps
  BY DEF Ops, MwOps
<1>3. LET p == Append(q, "newTx")
      IN  /\ Len(p) = Len(q) + 1 /\ p[Len(p)] = "newTx" /\ Len(q) \in Nat
          /\ \A i \in 1..Len(q) : p[i] = q[i]
  BY <1>2
<1> QED BY <1>1, <1>2, <1>3 DEF Fits

-----------------------------------------------------------------------------
(* What the parts of an action do to the types.                            *)
LEMMA QueueTypes ==
  ASSUME TypeOK, NEW r \in Req, NEW op \in Ops,
         Post(r, op) \/ (queue[r] # <<>> /\ (Take(r) \/ TakePost(r, op)))
  PROVE  queue' \in [Req -> Seq(Ops)]
<1>1. queue \in [Req -> Seq(Ops)] /\ queue[r] \in Seq(Ops)
  BY DEF TypeOK
<1>2. Append(queue[r], op) \in Seq(Ops)
  BY <1>1
<1>3. ASSUME queue[r] # <<>>
      PROVE  Tail(queue[r]) \in Seq(Ops) /\ Append(Tail(queue[r]), op) \in Seq(Ops)
  BY <1>1, <1>3
<1> QED BY <1>1, <1>2, <1>3 DEF Post, Take, TakePost

LEMMA DecideTypes ==
  ASSUME TypeOK, NEW r \in Req, NEW d, d \in {"none", "app", "blocked", "wafError"},
         queue[r] # <<>>, Decide(r, d)
  PROVE  /\ queue' \in [Req -> Seq(Ops)]
         /\ mw' \in [Req -> {"start", "newTx", "finally", "done"} \cup Inspecting]
         /\ outcome' \in [Req -> {"none", "app", "blocked", "wafError"}]
         /\ answer' \in [Req -> {"none"} \cup Answers]
         /\ fin' \in [Req -> {"none", "armed", "logging", "closing", "done"}]
<1>1. "logging" \in Ops
  BY DEF Ops
<1>2. queue' \in [Req -> Seq(Ops)]
  BY <1>1, QueueTypes DEF Decide
<1>3. CASE kind[r] \in Awaits
  <2>1. /\ outcome' = [outcome EXCEPT ![r] = d]
        /\ mw' = [mw EXCEPT ![r] = "finally"]
        /\ fin' = [fin EXCEPT ![r] = "logging"]
        /\ answer' = answer
    BY <1>3 DEF Decide
  <2> QED BY <1>2, <2>1 DEF TypeOK
<1>4. CASE kind[r] \notin Awaits
  <2>1. d \in {"none"} \cup Answers
    BY DEF Answers
  <2> QED BY <1>2, <1>4, <2>1 DEF Decide, TypeOK
<1> QED BY <1>3, <1>4

LEMMA AwaitTypes ==
  ASSUME TypeOK, NEW r \in Req, NEW op \in Inspecting,
         queue[r] # <<>>, Await(r, op)
  PROVE  /\ queue' \in [Req -> Seq(Ops)]
         /\ mw' \in [Req -> {"start", "newTx", "finally", "done"} \cup Inspecting]
<1>1. op \in Ops
  BY DEF Ops
<1>2. queue' \in [Req -> Seq(Ops)]
  BY <1>1, QueueTypes DEF Await
<1> QED BY <1>2 DEF Await, TypeOK

(* The adapters keep their types.                                          *)
THEOREM AdaptersTypeCorrect == Spec => []TypeOK
<1>1. Init => TypeOK
  <2>1. <<>> \in Seq(Ops)
    OBVIOUS
  <2> QED BY <2>1 DEF Init, TypeOK
<1>2. TypeOK /\ [Next]_vars => TypeOK'
  <2> SUFFICES ASSUME TypeOK, [Next]_vars PROVE TypeOK'
    OBVIOUS
  <2>0. /\ {"newTx", "logging", "close"} \subseteq Ops
        /\ {"engine", "bundle", "interruption", "rules"} = Inspecting
        /\ OnFailure \in {"app", "wafError"}
    BY DEF Ops, Inspecting, OnFailure
  <2>1. CASE UNCHANGED vars
    BY <2>1 DEF TypeOK, vars, setup, mwVars, finVars, wafVars
  <2>2. CASE WorkerExits
    BY <2>2 DEF TypeOK, WorkerExits, setup, mwVars, finVars
  <2>3. ASSUME NEW r \in Req, Ignored(r) \/ WafRejected(r) PROVE TypeOK'
    <3>1. {"app", "wafError", "failed"} \subseteq Answers
      BY DEF Answers
    <3>2. CASE Ignored(r)
      BY <3>1, <3>2 DEF TypeOK, Ignored, Answer, setup, finVars
    <3>3. CASE WafRejected(r)
      <4>1. \E d \in Answers : Answer(r, d)
        BY <2>0, <3>1, <3>3 DEF WafRejected
      <4> QED BY <3>3, <4>1 DEF TypeOK, WafRejected, Answer, setup, finVars, wafVars
    <3> QED BY <2>3, <3>2, <3>3
  <2>4. ASSUME NEW r \in Req, Ask(r) PROVE TypeOK'
    <3>1. queue' \in [Req -> Seq(Ops)]
      BY <2>0, <2>4, QueueTypes DEF Ask
    <3> QED BY <2>4, <3>1 DEF TypeOK, Ask, setup, finVars
  <2>5. ASSUME NEW r \in Req, Refused(r) PROVE TypeOK'
    <3>1. queue' \in [Req -> Seq(Ops)]
      BY <2>0, <2>5, QueueTypes DEF Refused, Rejects, Ends
    <3> QED BY <2>0, <2>5, <3>1 DEF TypeOK, Refused, Answer, Answers, setup, finVars
  <2>6. ASSUME NEW r \in Req, Opened(r) PROVE TypeOK'
    <3>1. /\ queue' \in [Req -> Seq(Ops)]
          /\ mw' \in [Req -> {"start", "newTx", "finally", "done"} \cup Inspecting]
      BY <2>0, <2>6, AwaitTypes DEF Opened, Resolves, Ends
    <3> QED BY <2>6, <3>1 DEF TypeOK, Opened, setup
  <2>7. ASSUME NEW r \in Req, EngineOff(r) \/ BodyFails(r) \/ Passed(r) PROVE TypeOK'
    <3>1. queue[r] # <<>> /\ \E d \in {"app", "wafError"} : Decide(r, d)
      BY <2>0, <2>7 DEF EngineOff, BodyFails, Passed, Resolves, Ends
    <3>2. /\ UNCHANGED <<setup, conn, finFailed, alive, wtx>>
          /\ \/ verdict' = verdict
             \/ \E v \in {"off", "pass"} : verdict' = [verdict EXCEPT ![r] = v]
      BY <2>7 DEF EngineOff, BodyFails, Passed
    <3>3. verdict' \in [Req -> {"none", "ignored", "off", "pass", "interrupted"}]
      BY <3>2 DEF TypeOK
    <3> QED BY <3>1, <3>2, <3>3, DecideTypes DEF TypeOK, setup
  <2>8. ASSUME NEW r \in Req, EngineOn(r) \/ Interrupted(r) PROVE TypeOK'
    <3>1. queue[r] # <<>> /\ \E op \in Inspecting : Await(r, op)
      BY <2>0, <2>8 DEF EngineOn, Interrupted, Resolves, Ends
    <3> QED BY <2>8, <3>1, AwaitTypes DEF TypeOK, EngineOn, Interrupted, setup, finVars
  <2>9. ASSUME NEW r \in Req, Judged(r) PROVE TypeOK'
    <3>1. queue[r] # <<>>
      BY <2>9 DEF Judged, Resolves, Ends
    <3>2. CASE verbose
      BY <2>0, <2>9, <3>1, <3>2, AwaitTypes DEF TypeOK, Judged, setup
    <3>3. CASE ~verbose
      BY <2>9, <3>1, <3>3, DecideTypes DEF TypeOK, Judged, setup
    <3> QED BY <3>2, <3>3
  <2>10. ASSUME NEW r \in Req, RulesRead(r) PROVE TypeOK'
    <3>1. queue[r] # <<>> /\ outcome[r] \in {"none", "app", "blocked", "wafError"}
      BY <2>10 DEF RulesRead, Resolves, Ends, TypeOK
    <3> QED BY <2>10, <3>1, DecideTypes DEF TypeOK, RulesRead, setup
  <2>11. ASSUME NEW r \in Req, RulesFailed(r) PROVE TypeOK'
    <3>1. queue[r] # <<>> /\ outcome[r] \in {"none", "app", "blocked", "wafError"}
      BY <2>11 DEF RulesFailed, Rejects, Ends, TypeOK
    <3>2. CASE kind[r] = "express"
      <4>1. queue' \in [Req -> Seq(Ops)]
        BY <2>0, <2>11, <3>1, <3>2, QueueTypes DEF RulesFailed
      <4>2. /\ answer' = [answer EXCEPT ![r] = "failed"]
            /\ mw' = [mw EXCEPT ![r] = "done"]
            /\ UNCHANGED <<outcome, fin>>
        BY <2>11, <3>2 DEF RulesFailed
      <4>3. UNCHANGED <<setup, conn, finFailed, alive, wtx, verdict>>
        BY <2>11 DEF RulesFailed
      <4> QED BY <4>1, <4>2, <4>3 DEF TypeOK, Answers, setup
    <3>3. CASE kind[r] # "express"
      <4>1. Decide(r, OnFailure) \/ Decide(r, outcome[r])
        BY <2>11, <3>3 DEF RulesFailed
      <4>2. \E d \in {"none", "app", "blocked", "wafError"} : Decide(r, d)
        BY <2>0, <3>1, <4>1
      <4> QED BY <2>11, <3>1, <4>2, DecideTypes DEF TypeOK, RulesFailed, setup
    <3> QED BY <3>2, <3>3
  <2>12. ASSUME NEW r \in Req, Caught(r) PROVE TypeOK'
    <3>1. queue[r] # <<>>
      BY <2>12 DEF Caught, Rejects, Ends
    <3>2. CASE kind[r] = "fastify" /\ verbose /\ policy = "block"
      <4>1. /\ outcome' = [outcome EXCEPT ![r] = "wafError"]
            /\ Await(r, "rules")
            /\ UNCHANGED <<answer, fin, setup, conn, finFailed, alive, wtx, verdict>>
        BY <2>12, <3>2, ZenonT(30) DEF Caught
      <4>2. /\ queue' \in [Req -> Seq(Ops)]
            /\ mw' \in [Req -> {"start", "newTx", "finally", "done"} \cup Inspecting]
        BY <2>0, <3>1, <4>1, AwaitTypes
      <4> QED BY <4>1, <4>2 DEF TypeOK, setup
    <3>3. CASE ~(kind[r] = "fastify" /\ verbose /\ policy = "block")
      <4>1. Decide(r, OnFailure) /\ UNCHANGED <<setup, conn, finFailed, alive, wtx, verdict>>
        BY <2>12, <3>3, ZenonT(30) DEF Caught
      <4>2. OnFailure \in {"none", "app", "blocked", "wafError"}
        BY <2>0
      <4> QED BY <3>1, <4>1, <4>2, DecideTypes DEF TypeOK, setup
    <3> QED BY <3>2, <3>3
  <2>13. ASSUME NEW r \in Req, ConnCloses(r) PROVE TypeOK'
    <3>1. queue' \in [Req -> Seq(Ops)]
      BY <2>0, <2>13, QueueTypes DEF ConnCloses, TypeOK
    <3> QED BY <2>13, <3>1 DEF TypeOK, ConnCloses, setup, mwVars
  <2>14. ASSUME NEW r \in Req, Logged(r) \/ LogFailed(r) PROVE TypeOK'
    <3>1. queue' \in [Req -> Seq(Ops)]
      BY <2>0, <2>14, QueueTypes DEF Logged, LogFailed, CloseInFinally, Resolves, Rejects, Ends
    <3> QED BY <2>14, <3>1 DEF TypeOK, Logged, LogFailed, CloseInFinally, setup, mwVars
  <2>15. ASSUME NEW r \in Req, Closed(r) PROVE TypeOK'
    <3>1. queue' \in [Req -> Seq(Ops)]
      BY <2>0, <2>15, QueueTypes DEF Closed, Trapped, Resolves, Rejects, Ends
    <3>2. finFailed' \in [Req -> BOOLEAN]
      BY <2>15 DEF Closed, TypeOK
    <3>3. /\ answer' \in [Req -> {"none"} \cup Answers]
          /\ mw' \in [Req -> {"start", "newTx", "finally", "done"} \cup Inspecting]
      <4>1. /\ "failed" \in {"none"} \cup Answers
            /\ outcome[r] \in {"none"} \cup Answers
        BY DEF Answers, TypeOK
      <4>2. CASE kind[r] \in Awaits
        <5>1. PICK d \in {"none"} \cup Answers : answer' = [answer EXCEPT ![r] = d]
          BY <2>15, <4>1, <4>2 DEF Closed
        <5>2. mw' = [mw EXCEPT ![r] = "done"]
          BY <2>15, <4>2 DEF Closed
        <5> QED BY <5>1, <5>2 DEF TypeOK
      <4>3. CASE kind[r] \notin Awaits
        BY <2>15, <4>3 DEF Closed, TypeOK
      <4> QED BY <4>2, <4>3
    <3> QED BY <2>15, <3>1, <3>2, <3>3 DEF TypeOK, Closed, setup
  <2> QED BY <2>1, <2>2, <2>3, <2>4, <2>5, <2>6, <2>7, <2>8, <2>9, <2>10, <2>11,
             <2>12, <2>13, <2>14, <2>15 DEF Next, Reply
<1> QED BY <1>1, <1>2, PTL DEF Spec

-----------------------------------------------------------------------------
(* What the parts of an action do to CallsFit.                             *)
LEMMA OneQueueMoves ==
  ASSUME TypeOK, CallsFit, NEW r \in Req, NEW q, NEW m, kind' = kind,
         queue' = [queue EXCEPT ![r] = q], mw' = [mw EXCEPT ![r] = m],
         Fits(q, m, kind[r] \in Awaits)
  PROVE  CallsFit'
<1>1. \A s \in Req : /\ queue'[s] = IF s = r THEN q ELSE queue[s]
                     /\ mw'[s] = IF s = r THEN m ELSE mw[s]
  BY DEF TypeOK
<1>2. ASSUME NEW s \in Req PROVE Fits(queue'[s], mw'[s], kind[s] \in Awaits)
  <2>1. CASE s = r
    BY <1>1, <2>1
  <2>2. CASE s # r
    BY <1>1, <2>2 DEF CallsFit
  <2> QED BY <2>1, <2>2
<1> QED BY <1>2 DEF CallsFit, Awaits

LEMMA DecideFits ==
  ASSUME TypeOK, CallsFit, NEW r \in Req, NEW d, Decide(r, d), kind' = kind,
         queue[r] # <<>>, Head(queue[r]) \in MwOps
  PROVE  CallsFit'
<1> DEFINE q == queue[r]
           aw == kind[r] \in Awaits
<1>1. /\ q \in Seq(Ops) /\ Fits(q, mw[r], aw)
      /\ "logging" \in Ops \ MwOps
  BY DEF TypeOK, CallsFit, Ops, MwOps, Inspecting
<1>a. aw \in BOOLEAN /\ q # <<>> /\ Head(q) \in MwOps
  OBVIOUS
<1> HIDE DEF q, aw
<1>2. /\ \A n : Fits(Tail(q), n, aw)
      /\ Fits(Append(Tail(q), "logging"), "finally", aw)
  BY <1>1, <1>a, AwaitedCallEnds
<1> USE DEF q, aw
<1>3. CASE kind[r] \in Awaits
  <2>1. PICK p \in {Append(Tail(q), "logging"), Tail(q)} :
          queue' = [queue EXCEPT ![r] = p]
    BY <1>3 DEF Decide, TakePost
  <2>2. Fits(p, "finally", kind[r] \in Awaits)
    BY <1>2, <2>1
  <2>3. mw' = [mw EXCEPT ![r] = "finally"]
    BY <1>3 DEF Decide
  <2> QED BY <2>1, <2>2, <2>3, OneQueueMoves
<1>4. CASE kind[r] \notin Awaits
  <2>1. /\ queue' = [queue EXCEPT ![r] = Tail(q)]
        /\ mw' = [mw EXCEPT ![r] = "done"]
    BY <1>4 DEF Decide, Take
  <2> QED BY <1>2, <2>1, OneQueueMoves
<1> QED BY <1>3, <1>4

LEMMA AwaitFits ==
  ASSUME TypeOK, CallsFit, NEW r \in Req, NEW op \in Inspecting, Await(r, op),
         kind' = kind, queue[r] # <<>>, Head(queue[r]) \in MwOps
  PROVE  CallsFit'
<1> DEFINE q == queue[r]
           aw == kind[r] \in Awaits
<1>1. /\ q \in Seq(Ops) /\ Fits(q, mw[r], aw)
      /\ op \in MwOps
  BY DEF TypeOK, CallsFit, MwOps
<1>a. aw \in BOOLEAN /\ q # <<>> /\ Head(q) \in MwOps
  OBVIOUS
<1> HIDE DEF q, aw
<1>2. /\ Fits(Tail(q), op, aw)
      /\ Fits(Append(Tail(q), op), op, aw)
  BY <1>1, <1>a, AwaitedCallEnds
<1> USE DEF q, aw
<1>3. PICK p \in {Append(Tail(q), op), Tail(q)} : queue' = [queue EXCEPT ![r] = p]
  BY DEF Await, TakePost
<1>4. Fits(p, op, kind[r] \in Awaits) /\ mw' = [mw EXCEPT ![r] = op]
  BY <1>2, <1>3 DEF Await
<1> QED BY <1>3, <1>4, OneQueueMoves

(* A step that leaves the queues and the middlewares where they are.       *)
LEMMA NoQueueMoves ==
  ASSUME CallsFit, UNCHANGED <<kind, mw, queue>>
  PROVE  CallsFit'
BY DEF CallsFit, Awaits

(* The reply that releases the middleware is the reply to its own call, so *)
(* that it has not decided before.                                         *)
LEMMA NotYetDecided ==
  ASSUME TypeOK, CallsFit, NEW r \in Req, queue[r] # <<>>, Head(queue[r]) \in MwOps
  PROVE  mw[r] = Head(queue[r])
<1>1. /\ queue[r] \in Seq(Ops) /\ Fits(queue[r], mw[r], kind[r] \in Awaits)
  BY DEF TypeOK, CallsFit
<1>2. 1 \in 1..Len(queue[r]) /\ queue[r][1] = Head(queue[r])
  BY <1>1
<1> QED BY <1>1, <1>2 DEF Fits

(* The middleware of r, which has not decided, awaits its next call, or    *)
(* decides: to let r through only with the leave of the WAF.               *)
LEMMA AwaitStands ==
  ASSUME TypeOK, DecisionsStand, NEW r \in Req, mw[r] \in MwOps, NEW op \in Inspecting,
         Await(r, op), UNCHANGED <<policy, answer>>,
         \E o \in {outcome[r], "blocked", "wafError"} : outcome' = [outcome EXCEPT ![r] = o],
         \A s \in Req \ {r} : verdict'[s] = verdict[s]
  PROVE  DecisionsStand'
<1>1. policy = "block" => answer[r] # "app" /\ outcome[r] # "app"
  BY DEF DecisionsStand, MwOps, Over, Inspecting
<1>2. mw' = [mw EXCEPT ![r] = op]
  BY DEF Await
<1> QED BY <1>1, <1>2 DEF DecisionsStand, TypeOK, LetThrough

LEMMA DecideStands ==
  ASSUME TypeOK, DecisionsStand, NEW r \in Req, mw[r] \in MwOps, NEW d,
         Decide(r, d), policy' = policy,
         policy = "block" /\ d = "app" => LetThrough(r)',
         \A s \in Req \ {r} : verdict'[s] = verdict[s]
  PROVE  DecisionsStand'
<1>1. policy = "block" => answer[r] # "app" /\ outcome[r] # "app"
  BY DEF DecisionsStand, MwOps, Over, Inspecting
<1>2. CASE kind[r] \in Awaits
  <2>1. /\ outcome' = [outcome EXCEPT ![r] = d] /\ answer' = answer
        /\ mw' = [mw EXCEPT ![r] = "finally"]
    BY <1>2 DEF Decide
  <2> QED BY <1>1, <2>1 DEF DecisionsStand, TypeOK, LetThrough, Over
<1>3. CASE kind[r] \notin Awaits
  <2>1. /\ answer' = [answer EXCEPT ![r] = d] /\ outcome' = outcome
        /\ mw' = [mw EXCEPT ![r] = "done"]
    BY <1>3 DEF Decide
  <2> QED BY <1>1, <2>1 DEF DecisionsStand, TypeOK, LetThrough
<1> QED BY <1>2, <1>3

(* A decision reached before there is a transaction.                       *)
LEMMA AnswerStands ==
  ASSUME TypeOK, DecisionsStand, NEW r \in Req, mw[r] \in {"start", "newTx"}, NEW d,
         Answer(r, d), policy = "block" /\ d = "app" => LetThrough(r)',
         \A s \in Req \ {r} : verdict'[s] = verdict[s]
  PROVE  DecisionsStand'
<1>1. policy = "block" => outcome[r] # "app"
  BY DEF DecisionsStand, Over
<1>2. /\ answer' = [answer EXCEPT ![r] = d] /\ mw' = [mw EXCEPT ![r] = "done"]
      /\ policy' = policy /\ outcome' = outcome
  BY DEF Answer, setup
<1> QED BY <1>1, <1>2 DEF DecisionsStand, TypeOK, LetThrough

-----------------------------------------------------------------------------
(* The queues fit the middlewares, step by step.                           *)
LEMMA CallsFitKept ==
  ASSUME TypeOK, CallsFit, NEW r \in Req,
         Ignored(r) \/ WafRejected(r) \/ Ask(r) \/ Reply(r) \/ ConnCloses(r)
  PROVE  CallsFit'
<1> DEFINE q  == queue[r]
           aw == kind[r] \in Awaits
<1>1. /\ q \in Seq(Ops) /\ aw \in BOOLEAN /\ Fits(q, mw[r], aw)
      /\ {"logging", "close"} \subseteq Ops \ MwOps
      /\ "newTx" \in MwOps /\ Inspecting \subseteq MwOps
      /\ {"engine", "bundle", "interruption", "rules"} = Inspecting
  BY DEF TypeOK, CallsFit, Ops, MwOps, Inspecting
<1>2. CASE Ignored(r) \/ WafRejected(r)
  <2>1. /\ mw[r] = "start" /\ kind' = kind
        /\ queue' = queue /\ mw' = [mw EXCEPT ![r] = "done"]
    BY <1>2 DEF Ignored, WafRejected, Answer, setup, wafVars
  <2>2. queue' = [queue EXCEPT ![r] = q]
    BY <2>1 DEF TypeOK
  <2>3. Fits(q, "done", aw)
    BY <1>1, <2>1, FirstCall
  <2> QED BY <2>1, <2>2, <2>3, OneQueueMoves
<1>3. CASE Ask(r)
  <2>1. mw[r] = "start" /\ kind' = kind /\ mw' = [mw EXCEPT ![r] = "newTx"]
    BY <1>3 DEF Ask, setup
  <2>2. PICK p \in {Append(q, "newTx"), q} : queue' = [queue EXCEPT ![r] = p]
    BY <1>3 DEF Ask, Post, TypeOK
  <2>3. Fits(p, "newTx", aw)
    BY <1>1, <2>1, FirstCall
  <2> QED BY <2>1, <2>2, <2>3, OneQueueMoves
<1>4. CASE Refused(r)
  <2>1. /\ kind' = kind /\ mw' = [mw EXCEPT ![r] = "done"]
        /\ queue' = [queue EXCEPT ![r] = Tail(q)] /\ q # <<>> /\ Head(q) = "newTx"
    BY <1>4 DEF Refused, Rejects, Ends, Take, Answer, setup
  <2>2. Fits(Tail(q), "done", aw)
    BY <1>1, <2>1, AwaitedCallEnds
  <2> QED BY <2>1, <2>2, OneQueueMoves
<1>5. CASE Opened(r) \/ EngineOn(r) \/ Interrupted(r)
  <2>1. /\ kind' = kind /\ q # <<>> /\ Head(q) \in MwOps
        /\ \E op \in Inspecting : Await(r, op)
    BY <1>1, <1>5 DEF Opened, EngineOn, Interrupted, Resolves, Ends, setup
  <2> QED BY <2>1, AwaitFits
<1>6. CASE EngineOff(r) \/ BodyFails(r) \/ Passed(r) \/ RulesRead(r)
  <2>1. /\ kind' = kind /\ q # <<>> /\ Head(q) \in MwOps
        /\ \E d : Decide(r, d)
    BY <1>1, <1>6 DEF EngineOff, BodyFails, Passed, RulesRead, Resolves, Ends, setup
  <2> QED BY <2>1, DecideFits
<1>7. CASE Judged(r) \/ Caught(r)
  <2>1. kind' = kind /\ q # <<>> /\ Head(q) \in MwOps
    BY <1>1, <1>7 DEF Judged, Caught, Resolves, Rejects, Ends, setup
  <2>2. (\E d : Decide(r, d)) \/ Await(r, "rules")
    BY <1>7 DEF Judged, Caught
  <2>3. "rules" \in Inspecting
    BY <1>1
  <2> QED BY <2>1, <2>2, <2>3, DecideFits, AwaitFits
<1>8. CASE RulesFailed(r)
  <2>1. kind' = kind /\ q # <<>> /\ Head(q) \in MwOps
    BY <1>1, <1>8 DEF RulesFailed, Rejects, Ends, setup
  <2>2. CASE kind[r] = "express"
    <3>1. mw' = [mw EXCEPT ![r] = "done"] /\ queue' = [queue EXCEPT ![r] = Tail(q)]
      BY <1>8, <2>2 DEF RulesFailed, Take
    <3>2. Fits(Tail(q), "done", aw)
      BY <1>1, <2>1, AwaitedCallEnds
    <3> QED BY <2>1, <3>1, <3>2, OneQueueMoves
  <2>3. CASE kind[r] # "express"
    <3>1. \E d : Decide(r, d)
      BY <1>8, <2>3 DEF RulesFailed
    <3> QED BY <2>1, <3>1, DecideFits
  <2> QED BY <2>2, <2>3
<1>9. CASE Logged(r) \/ LogFailed(r)
  <2>1. /\ kind' = kind /\ mw' = mw /\ q # <<>> /\ Head(q) \notin MwOps
        /\ TakePost(r, "close")
    BY <1>1, <1>9 DEF Logged, LogFailed, CloseInFinally, Resolves, Rejects, Ends,
                      setup, mwVars
  <2>2. PICK p \in {Append(Tail(q), "close"), Tail(q)} :
          queue' = [queue EXCEPT ![r] = p]
    BY <2>1 DEF TakePost
  <2>3. "close" \in Ops \ MwOps
    BY <1>1
  <2>4. Fits(Append(Tail(q), "close"), mw[r], aw) /\ Fits(Tail(q), mw[r], aw)
    BY <1>1, <2>1, <2>3, FinalCallEnds
  <2>5. mw' = [mw EXCEPT ![r] = mw[r]]
    BY <2>1 DEF TypeOK
  <2>6. Fits(p, mw[r], aw)
    BY <2>2, <2>4
  <2> QED BY <2>1, <2>2, <2>5, <2>6, OneQueueMoves
<1>10. CASE Closed(r)
  <2>1. /\ kind' = kind /\ q # <<>> /\ Head(q) \notin MwOps
        /\ queue' = [queue EXCEPT ![r] = Tail(q)]
    BY <1>1, <1>10 DEF Closed, Trapped, Resolves, Rejects, Ends, Take, setup
  <2>2. CASE aw
    <3>1. mw' = [mw EXCEPT ![r] = "done"]
      BY <1>10, <2>2 DEF Closed
    <3>2. Fits(Tail(q), "done", aw)
      BY <1>1, <2>1, <2>2, FinalCallEnds
    <3> QED BY <2>1, <3>1, <3>2, OneQueueMoves
  <2>3. CASE ~aw
    <3>1. mw' = [mw EXCEPT ![r] = mw[r]]
      BY <1>10, <2>3 DEF Closed, TypeOK
    <3>2. Fits(Tail(q), mw[r], aw)
      BY <1>1, <2>1, FinalCallEnds
    <3> QED BY <2>1, <3>1, <3>2, OneQueueMoves
  <2> QED BY <2>2, <2>3
<1>11. CASE ConnCloses(r)
  <2>1. kind' = kind /\ mw' = [mw EXCEPT ![r] = mw[r]] /\ ~aw
    BY <1>11 DEF ConnCloses, setup, mwVars, TypeOK
  <2>2. PICK p \in {Append(q, "logging"), q} : queue' = [queue EXCEPT ![r] = p]
    BY <1>11 DEF ConnCloses, Post, TypeOK
  <2>3. Fits(p, mw[r], FALSE)
    BY <1>1, <2>1, LoggingIsPosted
  <2>4. aw = FALSE
    BY <1>1, <2>1
  <2> QED BY <2>1, <2>2, <2>3, <2>4, OneQueueMoves
<1> QED BY <1>2, <1>3, <1>4, <1>5, <1>6, <1>7, <1>8, <1>9, <1>10, <1>11 DEF Reply

(* The decisions stand, step by step.                                      *)
LEMMA DecisionsKept ==
  ASSUME TypeOK, CallsFit, DecisionsStand, NEW r \in Req,
         Ignored(r) \/ WafRejected(r) \/ Ask(r) \/ Reply(r) \/ ConnCloses(r)
  PROVE  DecisionsStand'
<1>1. /\ "newTx" \in MwOps /\ Inspecting \subseteq MwOps
      /\ {"engine", "bundle", "interruption", "rules"} = Inspecting
      /\ "rules" \in Inspecting
      /\ policy = "block" => OnFailure # "app"
  BY DEF MwOps, Inspecting, OnFailure
<1>2. ASSUME NEW op \in MwOps, Ends(r, op) PROVE mw[r] = op /\ mw[r] \in MwOps
  BY <1>2, NotYetDecided DEF Ends
<1>3. CASE Ignored(r)
  <2>1. /\ mw[r] = "start" /\ Answer(r, "app") /\ LetThrough(r)'
        /\ \A s \in Req \ {r} : verdict'[s] = verdict[s]
    BY <1>3 DEF Ignored, LetThrough, TypeOK
  <2> QED BY <2>1, AnswerStands
<1>4. CASE WafRejected(r) \/ Refused(r)
  <2>1. mw[r] \in {"start", "newTx"} /\ verdict' = verdict
    BY <1>1, <1>2, <1>4 DEF WafRejected, Refused, Rejects, wafVars
  <2>2. \E d : Answer(r, d) /\ (policy = "block" => d # "app")
    BY <1>1, <1>4 DEF WafRejected, Refused
  <2> QED BY <2>1, <2>2, AnswerStands
<1>5. CASE Ask(r)
  <2>1. /\ mw[r] = "start" /\ mw' = [mw EXCEPT ![r] = "newTx"]
        /\ UNCHANGED <<policy, outcome, answer, verdict>>
    BY <1>5 DEF Ask, setup
  <2> QED BY <2>1 DEF DecisionsStand, Over, LetThrough, TypeOK
<1>6. CASE Opened(r) \/ EngineOn(r) \/ Interrupted(r)
  <2>1. mw[r] \in MwOps /\ UNCHANGED <<policy, answer, outcome>>
    BY <1>1, <1>2, <1>6 DEF Opened, EngineOn, Interrupted, Resolves, setup
  <2>2. outcome' = [outcome EXCEPT ![r] = outcome[r]]
    BY <2>1 DEF TypeOK
  <2>3. \A s \in Req \ {r} : verdict'[s] = verdict[s]
    BY <1>6 DEF Opened, EngineOn, Interrupted, TypeOK
  <2>4. \E op \in Inspecting : Await(r, op)
    BY <1>1, <1>6 DEF Opened, EngineOn, Interrupted
  <2> QED BY <2>1, <2>2, <2>3, <2>4, AwaitStands
<1>7. CASE EngineOff(r) \/ Passed(r)
  <2>1. mw[r] \in MwOps /\ policy' = policy /\ Decide(r, "app")
    BY <1>1, <1>2, <1>7 DEF EngineOff, Passed, Resolves, setup
  <2>2. LetThrough(r)' /\ \A s \in Req \ {r} : verdict'[s] = verdict[s]
    BY <1>7 DEF EngineOff, Passed, LetThrough, TypeOK
  <2> QED BY <2>1, <2>2, DecideStands
<1>8. CASE BodyFails(r)
  <2>1. /\ mw[r] \in MwOps /\ policy' = policy /\ verdict' = verdict
        /\ Decide(r, OnFailure)
    BY <1>1, <1>2, <1>8 DEF BodyFails, Resolves, setup
  <2> QED BY <1>1, <2>1, DecideStands
<1>9. CASE RulesRead(r)
  <2>1. /\ mw[r] \in MwOps /\ policy' = policy /\ verdict' = verdict
        /\ Decide(r, outcome[r])
    BY <1>1, <1>2, <1>9 DEF RulesRead, Resolves, setup
  <2>2. policy = "block" => outcome[r] # "app"
    BY <2>1 DEF DecisionsStand, MwOps, Over, Inspecting
  <2> QED BY <2>1, <2>2, DecideStands
<1>10. CASE Judged(r)
  <2>1. mw[r] \in MwOps /\ policy' = policy /\ verdict' = verdict
    BY <1>1, <1>2, <1>10 DEF Judged, Resolves, setup
  <2>2. CASE verbose
    <3>1. /\ Await(r, "rules") /\ answer' = answer
          /\ outcome' = [outcome EXCEPT ![r] = "blocked"]
      BY <1>10, <2>2 DEF Judged
    <3> QED BY <1>1, <2>1, <3>1, AwaitStands
  <2>3. CASE ~verbose
    <3>1. Decide(r, "blocked")
      BY <1>10, <2>3 DEF Judged
    <3> QED BY <2>1, <3>1, DecideStands
  <2> QED BY <2>2, <2>3
<1>11. CASE Caught(r)
  <2>1. mw[r] \in MwOps /\ policy' = policy /\ verdict' = verdict
    BY <1>1, <1>2, <1>11 DEF Caught, Rejects, setup
  <2>2. CASE kind[r] = "fastify" /\ verbose /\ policy = "block"
    <3>1. /\ Await(r, "rules") /\ answer' = answer
          /\ outcome' = [outcome EXCEPT ![r] = "wafError"]
      BY <1>11, <2>2 DEF Caught
    <3> QED BY <1>1, <2>1, <3>1, AwaitStands
  <2>3. CASE ~(kind[r] = "fastify" /\ verbose /\ policy = "block")
    <3>1. Decide(r, OnFailure)
      BY <1>11, <2>3 DEF Caught
    <3> QED BY <1>1, <2>1, <3>1, DecideStands
  <2> QED BY <2>2, <2>3
<1>12. CASE RulesFailed(r)
  <2>1. mw[r] = "rules" /\ mw[r] \in MwOps /\ policy' = policy /\ verdict' = verdict
    BY <1>1, <1>2, <1>12 DEF RulesFailed, Rejects, setup
  <2>2. policy = "block" => outcome[r] # "app"
    BY <2>1 DEF DecisionsStand, Over
  <2>3. CASE kind[r] = "express"
    <3>1. /\ answer' = [answer EXCEPT ![r] = "failed"] /\ outcome' = outcome
          /\ mw' = [mw EXCEPT ![r] = "done"]
      BY <1>12, <2>3 DEF RulesFailed
    <3> QED BY <2>1, <2>2, <3>1 DEF DecisionsStand, LetThrough, TypeOK
  <2>4. CASE kind[r] # "express"
    <3>1. \E d : Decide(r, d) /\ (policy = "block" => d # "app")
      BY <1>1, <1>12, <2>2, <2>4 DEF RulesFailed
    <3> QED BY <2>1, <3>1, DecideStands
  <2> QED BY <2>3, <2>4
<1>13. CASE Logged(r) \/ LogFailed(r) \/ ConnCloses(r)
  <2>1. UNCHANGED <<policy, mw, outcome, answer, verdict>>
    BY <1>13 DEF Logged, LogFailed, ConnCloses, setup, mwVars
  <2> QED BY <2>1 DEF DecisionsStand, LetThrough
<1>14. CASE Closed(r)
  <2>1. UNCHANGED <<policy, outcome, verdict>>
    BY <1>14 DEF Closed, setup
  <2>2. CASE kind[r] \in Awaits
    <3>1. /\ mw' = [mw EXCEPT ![r] = "done"]
          /\ \E a \in {"failed", outcome[r]} : answer' = [answer EXCEPT ![r] = a]
      BY <1>14, <2>2 DEF Closed
    <3> QED BY <2>1, <3>1 DEF DecisionsStand, LetThrough, Over, TypeOK
  <2>3. CASE kind[r] \notin Awaits
    BY <1>14, <2>1, <2>3 DEF Closed, DecisionsStand, LetThrough
  <2> QED BY <2>2, <2>3
<1> QED BY <1>3, <1>4, <1>5, <1>6, <1>7, <1>8, <1>9, <1>10, <1>11, <1>12, <1>13,
           <1>14 DEF Reply

LEMMA IInvHolds == Spec => []IInv
<1>1. Init => CallsFit /\ DecisionsStand
  BY DEF Init, CallsFit, Fits, DecisionsStand
<1>2. ASSUME TypeOK, CallsFit, DecisionsStand, [Next]_vars
      PROVE  CallsFit' /\ DecisionsStand'
  <2>1. CASE UNCHANGED vars \/ WorkerExits
    <3>1. UNCHANGED <<kind, policy, mw, outcome, answer, queue, verdict>>
      BY <2>1 DEF vars, setup, mwVars, finVars, wafVars, WorkerExits
    <3> QED BY <1>2, <3>1, NoQueueMoves DEF DecisionsStand, LetThrough
  <2>2. CASE Next /\ ~WorkerExits
    BY <1>2, <2>2, CallsFitKept, DecisionsKept DEF Next
  <2> QED BY <1>2, <2>1, <2>2
<1> QED BY <1>1, <1>2, AdaptersTypeCorrect, PTL DEF Spec, IInv

(* With onWAFError 'block' no failure, at whatever await, lets a request   *)
(* through that the WAF has not cleared: the catch blocks and finallys of  *)
(* the four adapters.                                                      *)
THEOREM AdaptersFailClosed == Spec => []FailClosed
<1>1. IInv => FailClosed
  BY DEF IInv, DecisionsStand, FailClosed, LetThrough
<1> QED BY <1>1, IInvHolds, PTL

-----------------------------------------------------------------------------
(* The end of a transaction.  Neither LoggedAfterInspection nor            *)
(* AnsweredAfterClose is inductive: EndFits says that the logging and      *)
(* close are under way, or done, only when fin is, and that fin is not     *)
(* while r is inspected, but for a client of Express that has left;        *)
(* AnswerFits that Next and Nest have one call under way at a time, and    *)
(* none when they answer.                                                  *)
Ending == {"logging", "closing", "done"}
HasFinal(q) == \E i \in 1..Len(q) : q[i] \notin MwOps
AtMostOne(q) == Len(q) <= 1
Idle(q) == Len(q) = 0

EndFits(r) ==
  /\ HasFinal(queue[r]) \/ wtx[r] \in {"logged", "closed", "kept"} => fin[r] \in Ending
  /\ mw[r] \in {"start", "newTx"} =>
       fin[r] = "none" /\ wtx[r] = "none" /\ answer[r] = "none"
  /\ mw[r] \in Inspecting =>
       /\ answer[r] = "none"
       /\ fin[r] \in Ending => kind[r] = "express" /\ conn[r] = "closed"

AnswerFits(r) ==
  kind[r] \in Awaits =>
    /\ AtMostOne(queue[r])
    /\ mw[r] \in {"start", "done"} => Idle(queue[r])
    /\ answer[r] # "none" => mw[r] = "done"
    /\ answer[r] \in {"app", "blocked", "wafError"} => wtx[r] \in {"none", "closed"}

EndInv == \A r \in Req : EndFits(r) /\ AnswerFits(r)

LEMMA QueueParts ==
  ASSUME NEW q \in Seq(Ops)
  PROVE  /\ Idle(q) => AtMostOne(q)
         /\ \A op \in Ops : /\ HasFinal(Append(q, op)) => HasFinal(q) \/ op \notin MwOps
                            /\ Idle(q) => AtMostOne(Append(q, op))
         /\ q # <<>> =>
              /\ ~Idle(q) /\ (AtMostOne(q) => Idle(Tail(q)))
              /\ HasFinal(Tail(q)) => HasFinal(q)
              /\ Head(q) \notin MwOps => HasFinal(q)
              /\ \A op \in Ops :
                   /\ HasFinal(Append(Tail(q), op)) => HasFinal(q) \/ op \notin MwOps
                   /\ AtMostOne(q) => AtMostOne(Append(Tail(q), op))
<1>1. ASSUME NEW p \in Seq(Ops), NEW op \in Ops
      PROVE  /\ HasFinal(Append(p, op)) => HasFinal(p) \/ op \notin MwOps
             /\ Idle(p) => AtMostOne(Append(p, op))
  <2>1. /\ Len(Append(p, op)) = Len(p) + 1 /\ Len(p) \in Nat
        /\ Append(p, op)[Len(p) + 1] = op
        /\ \A i \in 1..Len(p) : Append(p, op)[i] = p[i]
    OBVIOUS
  <2>2. \A i \in 1..(Len(p) + 1) : i = Len(p) + 1 \/ i \in 1..Len(p)
    BY <2>1
  <2>3. Idle(p) => AtMostOne(Append(p, op))
    BY <2>1 DEF Idle, AtMostOne
  <2> QED BY <2>1, <2>2, <2>3 DEF HasFinal
<1>2. ASSUME q # <<>>
      PROVE  /\ ~Idle(q) /\ (AtMostOne(q) => Idle(Tail(q)))
             /\ Tail(q) \in Seq(Ops)
             /\ HasFinal(Tail(q)) => HasFinal(q)
             /\ Head(q) \notin MwOps => HasFinal(q)
  <2>1. /\ Len(q) > 0 /\ Len(q) \in Nat /\ Tail(q) \in Seq(Ops)
        /\ Len(Tail(q)) = Len(q) - 1 /\ q[1] = Head(q)
        /\ \A i \in 1..Len(Tail(q)) : Tail(q)[i] = q[i + 1]
    BY <1>2
  <2>2. 1 \in 1..Len(q) /\ \A i \in 1..Len(Tail(q)) : i + 1 \in 1..Len(q)
    BY <2>1
  <2>3. ~Idle(q) /\ (AtMostOne(q) => Idle(Tail(q)))
    BY <2>1 DEF Idle, AtMostOne
  <2> QED BY <2>1, <2>2, <2>3 DEF HasFinal
<1>3. Idle(q) => AtMostOne(q)
  BY DEF Idle, AtMostOne
<1>4. ASSUME q # <<>>, NEW op \in Ops
      PROVE  /\ HasFinal(Append(Tail(q), op)) => HasFinal(q) \/ op \notin MwOps
             /\ AtMostOne(q) => AtMostOne(Append(Tail(q), op))
  BY <1>1, <1>2, <1>4
<1>5. \A op \in Ops : /\ HasFinal(Append(q, op)) => HasFinal(q) \/ op \notin MwOps
                      /\ Idle(q) => AtMostOne(Append(q, op))
  BY <1>1
<1> QED BY <1>2, <1>3, <1>4, <1>5

(* A step of r leaves the other requests as they are.                      *)
Untouched(s) ==
  /\ mw'[s] = mw[s] /\ answer'[s] = answer[s] /\ conn'[s] = conn[s]
  /\ fin'[s] = fin[s] /\ queue'[s] = queue[s] /\ wtx'[s] = wtx[s]

LEMMA OthersUntouched ==
  ASSUME TypeOK, NEW r \in Req,
         Ignored(r) \/ WafRejected(r) \/ Ask(r) \/ Reply(r) \/ ConnCloses(r)
  PROVE  kind' = kind /\ \A s \in Req \ {r} : Untouched(s)
<1> USE DEF TypeOK, Untouched, setup, mwVars, finVars, wafVars
<1>1. ASSUME NEW d, Decide(r, d)
      PROVE  \A s \in Req \ {r} : /\ mw'[s] = mw[s] /\ answer'[s] = answer[s]
                                  /\ fin'[s] = fin[s] /\ queue'[s] = queue[s]
  BY <1>1 DEF Decide, Take, TakePost
<1>2. ASSUME NEW op, Await(r, op)
      PROVE  \A s \in Req \ {r} : mw'[s] = mw[s] /\ queue'[s] = queue[s]
  BY <1>2 DEF Await, TakePost
<1>3. ASSUME NEW d, Answer(r, d)
      PROVE  /\ UNCHANGED <<kind, fin, conn>>
             /\ \A s \in Req \ {r} : mw'[s] = mw[s] /\ answer'[s] = answer[s]
  BY <1>3 DEF Answer
<1>4. CASE Ignored(r) \/ WafRejected(r) \/ Refused(r)
  BY <1>3, <1>4 DEF Ignored, WafRejected, Refused, Take
<1>5. CASE Ask(r)
  BY <1>5 DEF Ask, Post
<1>6. CASE Opened(r) \/ EngineOn(r) \/ Interrupted(r)
  BY <1>2, <1>6 DEF Opened, EngineOn, Interrupted
<1>7. CASE EngineOff(r) \/ BodyFails(r) \/ Passed(r) \/ RulesRead(r)
  BY <1>1, <1>7 DEF EngineOff, BodyFails, Passed, RulesRead
<1>8. CASE Judged(r)
  BY <1>1, <1>2, <1>8 DEF Judged
<1>9. CASE Caught(r)
  BY <1>1, <1>2, <1>9 DEF Caught
<1>10. CASE RulesFailed(r)
  BY <1>1, <1>10 DEF RulesFailed, Take
<1>11. CASE Logged(r) \/ LogFailed(r)
  BY <1>11 DEF Logged, LogFailed, CloseInFinally, TakePost
<1>12. CASE Closed(r)
  BY <1>12 DEF Closed, Take
<1>13. CASE ConnCloses(r)
  BY <1>13 DEF ConnCloses, Post
<1> QED BY <1>4, <1>5, <1>6, <1>7, <1>8, <1>9, <1>10, <1>11, <1>12, <1>13 DEF Reply

(* What a step does to the queue: a call of op ends and is followed by     *)
(* next, or is only called.                                                *)
Follows(q, p, op) == q # <<>> /\ Head(q) = op /\ p = Tail(q)
FollowsBy(q, p, op, next) ==
  q # <<>> /\ Head(q) = op /\ p \in {Tail(q), Append(Tail(q), next)}

LEMMA QueueMoves ==
  ASSUME NEW q \in Seq(Ops), NEW p, NEW op \in Ops, NEW next \in Ops
  PROVE  /\ Idle(q) => AtMostOne(q)
         /\ Follows(q, p, op) => /\ HasFinal(p) => HasFinal(q)
                                 /\ AtMostOne(q) => Idle(p) /\ AtMostOne(p)
                                 /\ ~Idle(q) /\ (op \notin MwOps => HasFinal(q))
         /\ FollowsBy(q, p, op, next) =>
              /\ HasFinal(p) => HasFinal(q) \/ next \notin MwOps
              /\ AtMostOne(q) => AtMostOne(p)
              /\ ~Idle(q) /\ (op \notin MwOps => HasFinal(q))
<1>1. Tail(q) \in Seq(Ops) \/ q = <<>>
  OBVIOUS
<1>2. ASSUME q # <<>> PROVE Idle(Tail(q)) => AtMostOne(Tail(q))
  BY <1>1, <1>2, QueueParts
<1>3. ASSUME Follows(q, p, op)
      PROVE  /\ HasFinal(p) => HasFinal(q)
             /\ AtMostOne(q) => Idle(p) /\ AtMostOne(p)
             /\ ~Idle(q) /\ (op \notin MwOps => HasFinal(q))
  BY <1>2, <1>3, QueueParts DEF Follows
<1>4. ASSUME FollowsBy(q, p, op, next)
      PROVE  /\ HasFinal(p) => HasFinal(q) \/ next \notin MwOps
             /\ AtMostOne(q) => AtMostOne(p)
             /\ ~Idle(q) /\ (op \notin MwOps => HasFinal(q))
  BY <1>2, <1>4, QueueParts DEF FollowsBy
<1> QED BY <1>3, <1>4, QueueParts

(* The invariant of one request, step by step.                             *)
LEMMA EndKept ==
  ASSUME TypeOK, CallsFit, NEW r \in Req, EndFits(r), AnswerFits(r),
         Ignored(r) \/ WafRejected(r) \/ Ask(r) \/ Reply(r) \/ ConnCloses(r)
  PROVE  EndFits(r)' /\ AnswerFits(r)'
<1> DEFINE q == queue[r]
           p == queue'[r]
<1> USE DEF Inspecting, MwOps, Ops
<1>1. q \in Seq(Ops)
  BY DEF TypeOK
<1>2. kind' = kind
  BY OthersUntouched
<1>3. ASSUME NEW op \in Ops, NEW next \in Ops
      PROVE  /\ Idle(q) => AtMostOne(q)
             /\ Follows(q, p, op) => /\ HasFinal(p) => HasFinal(q)
                                     /\ AtMostOne(q) => Idle(p) /\ AtMostOne(p)
                                     /\ ~Idle(q) /\ (op \notin MwOps => HasFinal(q))
             /\ FollowsBy(q, p, op, next) =>
                  /\ HasFinal(p) => HasFinal(q) \/ next \notin MwOps
                  /\ AtMostOne(q) => AtMostOne(p)
                  /\ ~Idle(q) /\ (op \notin MwOps => HasFinal(q))
  BY <1>1, QueueMoves
<1>4. ASSUME NEW op \in MwOps, Ends(r, op) PROVE mw[r] = op
  BY <1>4, NotYetDecided DEF Ends
<1> HIDE DEF p
(* The two ways in which the middleware goes on after one of its calls.    *)
<1>5. ASSUME NEW op \in Inspecting, Ends(r, op), UNCHANGED <<conn, wtx>>,
             NEW d \in {"none", "app", "blocked", "wafError"}, Decide(r, d)
      PROVE  EndFits(r)' /\ AnswerFits(r)'
  <2>1. mw[r] \in Inspecting
    BY <1>4, <1>5
  <2>2. CASE kind[r] \in Awaits
    <3>1. mw'[r] = "finally" /\ fin'[r] = "logging" /\ answer' = answer
      BY <1>5, <2>2 DEF Decide, TypeOK
    <3>2. FollowsBy(q, p, op, "logging")
      BY <1>5, <2>2 DEF Decide, TakePost, Ends, TypeOK, FollowsBy, p
    <3>3. AtMostOne(q) => AtMostOne(p)
      BY <1>3, <3>2
    <3> QED BY <1>2, <1>5, <2>1, <2>2, <3>1, <3>3
        DEF EndFits, AnswerFits, Awaits, Ending, p
  <2>3. CASE kind[r] \notin Awaits
    <3>1. mw'[r] = "done" /\ fin' = fin
      BY <1>5, <2>3 DEF Decide, TypeOK
    <3>2. Follows(q, p, op)
      BY <1>5, <2>3 DEF Decide, Take, Ends, TypeOK, Follows, p
    <3>3. HasFinal(p) => HasFinal(q)
      BY <1>3, <3>2
    <3> QED BY <1>2, <1>5, <2>1, <2>3, <3>1, <3>3
        DEF EndFits, AnswerFits, Awaits, Ending, p
  <2> QED BY <2>2, <2>3
<1>6. ASSUME NEW op \in Inspecting, Ends(r, op), NEW next \in Inspecting,
             Await(r, next), UNCHANGED <<answer, fin, conn, wtx>>
      PROVE  EndFits(r)' /\ AnswerFits(r)'
  <2>1. mw[r] \in Inspecting /\ mw'[r] = next
    BY <1>4, <1>6 DEF Await, TypeOK
  <2>2. FollowsBy(q, p, op, next)
    BY <1>6 DEF Await, TakePost, Ends, TypeOK, FollowsBy, p
  <2>3. (HasFinal(p) => HasFinal(q)) /\ (AtMostOne(q) => AtMostOne(p))
    BY <1>3, <2>2
  <2> QED BY <1>2, <1>6, <2>1, <2>3 DEF EndFits, AnswerFits, Awaits, Ending, p
<1>7. CASE Ignored(r) \/ WafRejected(r)
  <2>1. /\ mw[r] = "start" /\ mw'[r] = "done"
        /\ UNCHANGED <<queue, fin, conn, wtx>>
    BY <1>7 DEF Ignored, WafRejected, Answer, TypeOK, wafVars, finVars
  <2> QED BY <1>2, <2>1 DEF EndFits, AnswerFits, Awaits, Ending
<1>8. CASE Ask(r)
  <2>1. mw[r] = "start" /\ mw'[r] = "newTx" /\ UNCHANGED <<answer, fin, conn, wtx>>
    BY <1>8 DEF Ask, TypeOK, finVars
  <2>2. p \in {q, Append(q, "newTx")}
    BY <1>8 DEF Ask, Post, TypeOK, p
  <2>3. (HasFinal(p) => HasFinal(q)) /\ (Idle(q) => AtMostOne(p))
    BY <1>1, <2>2, QueueParts
  <2> QED BY <1>2, <2>1, <2>3 DEF EndFits, AnswerFits, Awaits, Ending, p
<1>9. CASE Refused(r)
  <2>1. Ends(r, "newTx") /\ mw'[r] = "done" /\ UNCHANGED <<fin, conn, wtx>>
    BY <1>9 DEF Refused, Rejects, Answer, TypeOK, finVars
  <2>2. mw[r] = "newTx"
    BY <1>4, <2>1
  <2>3. Follows(q, p, "newTx")
    BY <1>9, <2>1 DEF Refused, Take, Ends, TypeOK, Follows, p
  <2>4. (HasFinal(p) => HasFinal(q)) /\ (AtMostOne(q) => Idle(p) /\ AtMostOne(p))
    BY <1>3, <2>3
  <2> QED BY <1>2, <2>1, <2>2, <2>4 DEF EndFits, AnswerFits, Awaits, Ending, p
<1>10. CASE Opened(r)
  <2>1. /\ Ends(r, "newTx") /\ wtx'[r] = "live" /\ mw'[r] = "engine"
        /\ fin'[r] \in {"armed", fin[r]} /\ UNCHANGED <<answer, conn>>
    BY <1>10 DEF Opened, Resolves, Await, TypeOK
  <2>2. mw[r] = "newTx"
    BY <1>4, <2>1
  <2>3. FollowsBy(q, p, "newTx", "engine")
    BY <1>10, <2>1 DEF Opened, Await, TakePost, Ends, TypeOK, FollowsBy, p
  <2>4. (HasFinal(p) => HasFinal(q)) /\ (AtMostOne(q) => AtMostOne(p))
    BY <1>3, <2>3
  <2> QED BY <1>2, <2>1, <2>2, <2>4 DEF EndFits, AnswerFits, Awaits, Ending, p
<1>11. CASE EngineOn(r) \/ Interrupted(r)
  <2>1. /\ \E op \in Inspecting : Ends(r, op)
        /\ \E next \in Inspecting : Await(r, next)
        /\ UNCHANGED <<answer, fin, conn, wtx>>
    BY <1>11 DEF EngineOn, Interrupted, Resolves, finVars
  <2> QED BY <1>6, <2>1
<1>12. CASE EngineOff(r) \/ BodyFails(r) \/ Passed(r)
  <2>1. /\ \E op \in Inspecting : Ends(r, op)
        /\ \E d \in {"none", "app", "blocked", "wafError"} : Decide(r, d)
        /\ UNCHANGED <<conn, wtx>>
    BY <1>12 DEF EngineOff, BodyFails, Passed, Resolves, OnFailure
  <2> QED BY <1>5, <2>1
<1>13. CASE Judged(r) \/ Caught(r)
  <2>1. (\E op \in Inspecting : Ends(r, op)) /\ UNCHANGED <<conn, wtx>>
    BY <1>13 DEF Judged, Caught, Resolves, Rejects
  <2>2. \/ \E d \in {"none", "app", "blocked", "wafError"} : Decide(r, d)
        \/ \E next \in Inspecting : Await(r, next) /\ UNCHANGED <<answer, fin>>
    BY <1>13 DEF Judged, Caught, OnFailure
  <2> QED BY <1>5, <1>6, <2>1, <2>2
<1>14. CASE RulesRead(r) \/ RulesFailed(r)
  <2>1. (\E op \in Inspecting : Ends(r, op)) /\ UNCHANGED <<conn, wtx>>
    BY <1>14 DEF RulesRead, RulesFailed, Resolves, Rejects
  <2>2. CASE RulesFailed(r) /\ kind[r] = "express"
    <3>1. mw'[r] = "done" /\ fin' = fin
      BY <2>2 DEF RulesFailed, TypeOK
    <3>2. Follows(q, p, "rules")
      BY <2>2 DEF RulesFailed, Rejects, Take, Ends, TypeOK, Follows, p
    <3>3. HasFinal(p) => HasFinal(q)
      BY <1>3, <3>2
    <3> QED BY <1>2, <2>1, <2>2, <3>1, <3>3
        DEF EndFits, AnswerFits, Awaits, Ending, p
  <2>3. CASE ~(RulesFailed(r) /\ kind[r] = "express")
    <3>1. \E d \in {"none", "app", "blocked", "wafError"} : Decide(r, d)
      BY <1>14, <2>3 DEF RulesRead, RulesFailed, OnFailure, TypeOK
    <3> QED BY <1>5, <2>1, <3>1
  <2> QED BY <2>2, <2>3
<1>15. CASE Logged(r) \/ LogFailed(r)
  <2>1. /\ mw' = mw /\ answer' = answer /\ conn' = conn /\ fin'[r] = "closing"
        /\ wtx'[r] \in {wtx[r], "logged"}
    BY <1>15 DEF Logged, LogFailed, CloseInFinally, TypeOK, mwVars
  <2>2. FollowsBy(q, p, "logging", "close")
    BY <1>15 DEF Logged, LogFailed, CloseInFinally, Resolves, Rejects, Ends,
       TakePost, TypeOK, FollowsBy, p
  <2>3. HasFinal(q) /\ ~Idle(q) /\ (AtMostOne(q) => AtMostOne(p))
    BY <1>3, <2>2
  <2> QED BY <1>2, <2>1, <2>3 DEF EndFits, AnswerFits, Awaits, Ending, p
<1>16. CASE Closed(r)
  <2>1. conn' = conn /\ fin'[r] = "done" /\ wtx'[r] \in {wtx[r], "closed", "kept"}
    BY <1>16 DEF Closed, TypeOK
  <2>2. Follows(q, p, "close")
    BY <1>16 DEF Closed, Trapped, Resolves, Rejects, Ends, Take, TypeOK, Follows, p
  <2>3. HasFinal(q) /\ ~Idle(q) /\ (AtMostOne(q) => Idle(p) /\ AtMostOne(p))
    BY <1>3, <2>2
  <2>4. CASE kind[r] \in Awaits
    <3>1. /\ mw'[r] = "done"
          /\ answer'[r] \in {"app", "blocked", "wafError"} => wtx'[r] = "closed"
      BY <1>16, <2>4 DEF Closed, Resolves, Rejects, TypeOK
    <3> QED BY <1>2, <2>1, <2>3, <2>4, <3>1
        DEF EndFits, AnswerFits, Awaits, Ending, p
  <2>5. CASE kind[r] \notin Awaits
    <3>1. mw' = mw /\ answer' = answer
      BY <1>16, <2>5 DEF Closed
    <3> QED BY <1>2, <2>1, <2>3, <2>5, <3>1
        DEF EndFits, AnswerFits, Awaits, Ending, p
  <2> QED BY <2>4, <2>5
<1>17. CASE ConnCloses(r)
  <2>1. /\ kind[r] \notin Awaits /\ UNCHANGED <<mw, answer, wtx>> /\ conn'[r] = "closed"
        /\ answer[r] # "none" \/ kind[r] = "express"
    BY <1>17 DEF ConnCloses, Finished, mwVars, TypeOK
  <2>2. CASE fin[r] = "armed"
    <3>1. fin'[r] = "logging"
      BY <1>17, <2>2 DEF ConnCloses, TypeOK
    <3> QED BY <1>2, <2>1, <2>2, <3>1 DEF EndFits, AnswerFits, Awaits, Ending
  <2>3. CASE fin[r] # "armed"
    <3>1. fin' = fin /\ queue' = queue
      BY <1>17, <2>3 DEF ConnCloses
    <3> QED BY <1>2, <2>1, <3>1 DEF EndFits, AnswerFits, Awaits, Ending
  <2> QED BY <2>2, <2>3
<1> QED BY <1>7, <1>8, <1>9, <1>10, <1>11, <1>12, <1>13, <1>14, <1>15, <1>16,
           <1>17 DEF Reply

LEMMA EndInvHolds == Spec => []EndInv
<1>1. Init => EndInv
  BY DEF Init, EndInv, EndFits, AnswerFits, HasFinal, Idle, AtMostOne, Inspecting,
     Ending
<1>2. IInv /\ EndInv /\ [Next]_vars => EndInv'
  <2> SUFFICES ASSUME IInv, EndInv, [Next]_vars PROVE EndInv'
    OBVIOUS
  <2>1. CASE UNCHANGED vars \/ WorkerExits
    BY <2>1 DEF EndInv, EndFits, AnswerFits, Awaits, vars, setup, mwVars, finVars,
       wafVars, WorkerExits
  <2>2. ASSUME NEW r \in Req,
               Ignored(r) \/ WafRejected(r) \/ Ask(r) \/ Reply(r) \/ ConnCloses(r)
        PROVE  EndInv'
    <3>1. EndFits(r)' /\ AnswerFits(r)'
      BY <2>2, EndKept DEF IInv, EndInv
    <3>2. ASSUME NEW s \in Req \ {r} PROVE EndFits(s)' /\ AnswerFits(s)'
      <4>1. kind' = kind /\ Untouched(s)
        BY <2>2, OthersUntouched DEF IInv
      <4> QED BY <4>1 DEF EndInv, EndFits, AnswerFits, Untouched, Awaits
    <3> QED BY <3>1, <3>2 DEF EndInv
  <2> QED BY <2>1, <2>2 DEF Next
<1> QED BY <1>1, <1>2, IInvHolds, PTL DEF Spec

(* The audit log of a request is never written while the WAF still         *)
(* inspects it, unless the client of Express has left: the 'close'         *)
(* listener, onResponse and the finally come after the decision.           *)
THEOREM AdaptersLogLast == Spec => []LoggedAfterInspection
<1>1. EndInv => LoggedAfterInspection
  BY DEF EndInv, EndFits, LoggedAfterInspection
<1> QED BY <1>1, EndInvHolds, PTL

(* Next and Nest answer only when the transaction is closed, or with an    *)
(* error, although the finally may fail at either of its two awaits.       *)
THEOREM AdaptersAnswerLast == Spec => []AnsweredAfterClose
<1>1. EndInv => AnsweredAfterClose
  BY DEF EndInv, AnswerFits, AnsweredAfterClose, Awaits
<1> QED BY <1>1, EndInvHolds, PTL
=============================================================================
