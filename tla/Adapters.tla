------------------------------ MODULE Adapters ------------------------------
(***************************************************************************)
(* A request under one of the four framework adapters, whose WAF is a      *)
(* WAFPool: the middleware of @coraza/express, the preHandler and          *)
(* onResponse hooks of @coraza/fastify, the runner of @coraza/next and the *)
(* guard of @coraza/nestjs.                                                *)
(*                                                                         *)
(* Each request runs two chains of awaited calls on its transaction: the   *)
(* middleware (mw), and the logging and close of the transaction (fin),    *)
(* which in Express and Fastify is started by the end of the response and  *)
(* in Next and Nest is a finally that the middleware waits for.  An action *)
(* is the delivery of one reply with the code it releases up to the next   *)
(* await, or an event of the connection.  The calls of a transaction go to *)
(* one worker, in order; the worker answers the calls it gets, and when it *)
(* has exited those under way are rejected and later ones are never        *)
(* answered (pool.ts: callSlot and the exit listener; see WAFPool).        *)
(***************************************************************************)
EXTENDS Integers, FiniteSets, Sequences

CONSTANTS
  Req,       (* the requests                                               *)
  Kinds,     (* the adapters under which they may run                      *)
  Policies,  (* the settings of onWAFError                                 *)
  Verbose,   (* the settings of verboseLog                                 *)
  Faults     (* what may go wrong: see FaultKinds                          *)

AllKinds == {"express", "fastify", "next", "nest"}
(* "waf": the promise of the WAF rejects; "error": a call is answered with *)
(* an error; "trap": the engine traps in the tx.close() of a close call;   *)
(* "body": reading the body of a request fails; "leave": the client of     *)
(* Express disconnects; "exit": the worker exits.                          *)
FaultKinds == {"waf", "error", "trap", "body", "leave", "exit"}

ASSUME SettingsAssumption ==
  /\ Kinds \subseteq AllKinds /\ Policies \subseteq {"block", "allow"}
  /\ Verbose \subseteq BOOLEAN /\ Faults \subseteq FaultKinds

VARIABLES
  kind, policy, verbose,  (* how each request's application is set up      *)
  mw,        (* the call the middleware awaits                             *)
  outcome,   (* what it will do once the calls it still awaits have ended  *)
  answer,    (* what became of the request                                 *)
  conn,      (* has the response emitted 'close'?                          *)
  fin,       (* how far the transaction's logging and close are            *)
  finFailed, (* processLogging() rejected                                  *)
  alive,     (* the worker's exit has not been delivered                   *)
  queue,     (* the calls under way on the transaction, in order           *)
  wtx,       (* the transaction in the worker                              *)
  verdict    (* what the WAF found, when it was asked                      *)

setup   == <<kind, policy, verbose>>
mwVars  == <<mw, outcome, answer>>
finVars == <<conn, fin, finFailed>>
wafVars == <<alive, queue, wtx, verdict>>
vars    == <<setup, mwVars, finVars, wafVars>>

Inspecting == {"engine", "bundle", "interruption", "rules"}
Ops == {"newTx", "logging", "close"} \cup Inspecting
(* app: next() was called, or the adapter let the request through;         *)
(* blocked: onBlock got the interruption; wafError: onBlock got a 503;     *)
(* failed: the adapter's promise rejected.                                 *)
Answers == {"app", "blocked", "wafError", "failed"}

Init ==
  /\ kind \in [Req -> Kinds] /\ policy \in Policies /\ verbose \in Verbose
  /\ mw = [r \in Req |-> "start"]
  /\ outcome = [r \in Req |-> "none"]
  /\ answer = [r \in Req |-> "none"]
  /\ conn = [r \in Req |-> "open"]
  /\ fin = [r \in Req |-> "none"]
  /\ finFailed = [r \in Req |-> FALSE]
  /\ alive = TRUE
  /\ queue = [r \in Req |-> <<>>]
  /\ wtx = [r \in Req |-> "none"]
  /\ verdict = [r \in Req |-> "none"]

-----------------------------------------------------------------------------
(* Calls of the transaction.                                               *)
Post(r, op) ==
  queue' = IF alive THEN [queue EXCEPT ![r] = Append(@, op)] ELSE queue

(* The call at the head of r's queue ends, and op is called next.          *)
Take(r) == queue' = [queue EXCEPT ![r] = Tail(@)]
TakePost(r, op) ==
  queue' = [queue EXCEPT ![r] = IF alive THEN Append(Tail(@), op) ELSE Tail(@)]

Ends(r, op) == queue[r] # <<>> /\ Head(queue[r]) = op
(* After close the worker answers "unknown tx", or, when tx.close() threw  *)
(* and the worker has kept the transaction, that it is closed.             *)
Known(r, op) == op \in {"newTx", "close"} \/ wtx[r] \notin {"closed", "kept"}
Resolves(r, op) == Ends(r, op) /\ alive /\ Known(r, op)
Rejects(r, op) ==
  Ends(r, op) /\ (~alive \/ "error" \in Faults \/ ~Known(r, op))

-----------------------------------------------------------------------------
(* What the middleware decides.  Next and Nest close the transaction       *)
(* first, in a finally.                                                    *)
AwaitsWithExpress == {"express", "next", "nest"}
AwaitsNextOnly == {"next"}
Awaits == {"next", "nest"}

Decide(r, d) ==
  IF kind[r] \in Awaits
  THEN /\ outcome' = [outcome EXCEPT ![r] = d]
       /\ mw' = [mw EXCEPT ![r] = "finally"]
       /\ fin' = [fin EXCEPT ![r] = "logging"]
       /\ TakePost(r, "logging")
       /\ UNCHANGED answer
  ELSE /\ answer' = [answer EXCEPT ![r] = d]
       /\ mw' = [mw EXCEPT ![r] = "done"]
       /\ Take(r)
       /\ UNCHANGED <<outcome, fin>>

Await(r, op) == /\ mw' = [mw EXCEPT ![r] = op]
                /\ TakePost(r, op)

(* A decision reached before there is a transaction.                       *)
Answer(r, d) == /\ answer' = [answer EXCEPT ![r] = d]
                /\ mw' = [mw EXCEPT ![r] = "done"]
                /\ UNCHANGED <<setup, outcome, finVars>>

(* onWAFError                                                              *)
OpenOnFailure == "app"
NothingOnFailure == IF policy = "block" THEN "wafError" ELSE "none"
OnFailure == IF policy = "block" THEN "wafError" ELSE "app"

(* The ignore matcher says true.                                           *)
Ignored(r) ==
  /\ mw[r] = "start"
  /\ verdict' = [verdict EXCEPT ![r] = "ignored"]
  /\ Answer(r, "app")
  /\ UNCHANGED <<alive, queue, wtx>>

(* await ensureWAF() rejects: only Express catches it.                     *)
WafRejected(r) ==
  /\ mw[r] = "start" /\ "waf" \in Faults /\ kind[r] \in {"express", "next"}
  /\ Answer(r, IF kind[r] = "express" THEN OnFailure ELSE "failed")
  /\ UNCHANGED wafVars

Ask(r) ==
  /\ mw[r] = "start"
  /\ mw' = [mw EXCEPT ![r] = "newTx"]
  /\ Post(r, "newTx")
  /\ UNCHANGED <<setup, outcome, answer, finVars, alive, wtx, verdict>>

Refused(r) ==
  /\ Rejects(r, "newTx")
  /\ Take(r)
  /\ Answer(r, OnFailure)
  /\ UNCHANGED <<alive, wtx, verdict>>

(* The handle exists.  Express listens for the 'close' of the response,    *)
(* Fastify keeps the handle for its onResponse hook.                       *)
ArmsExpressOnly == {"express"}
Arms == {"express", "fastify"}

Opened(r) ==
  /\ Resolves(r, "newTx")
  /\ wtx' = [wtx EXCEPT ![r] = "live"]
  /\ fin' = [fin EXCEPT ![r] = IF kind[r] \in Arms THEN "armed" ELSE @]
  /\ Await(r, "engine")
  /\ UNCHANGED <<setup, outcome, answer, conn, finFailed, alive, verdict>>

(* isRuleEngineOff()                                                       *)
EngineOff(r) ==
  /\ Resolves(r, "engine")
  /\ verdict' = [verdict EXCEPT ![r] = "off"]
  /\ Decide(r, "app")
  /\ UNCHANGED <<setup, conn, finFailed, alive, wtx>>

EngineOn(r) ==
  /\ Resolves(r, "engine")
  /\ Await(r, "bundle")
  /\ UNCHANGED <<setup, outcome, answer, finVars, alive, wtx, verdict>>

(* Next reads the body itself, and that may fail.                          *)
BodyFails(r) ==
  /\ Resolves(r, "engine") /\ kind[r] = "next" /\ "body" \in Faults
  /\ Decide(r, OnFailure)
  /\ UNCHANGED <<setup, conn, finFailed, alive, wtx, verdict>>

(* processRequestBundle()                                                  *)
Passed(r) ==
  /\ Resolves(r, "bundle")
  /\ verdict' = [verdict EXCEPT ![r] = "pass"]
  /\ Decide(r, "app")
  /\ UNCHANGED <<setup, conn, finFailed, alive, wtx>>

Interrupted(r) ==
  /\ Resolves(r, "bundle")
  /\ verdict' = [verdict EXCEPT ![r] = "interrupted"]
  /\ Await(r, "interruption")
  /\ UNCHANGED <<setup, outcome, answer, finVars, alive, wtx>>

(* interruption(), and matchedRules() when verboseLog is set.  The code    *)
(* also handles a null interruption(), which it calls a bug; the engine    *)
(* never gives it, having just answered that there is an interruption.     *)
Judged(r) ==
  /\ Resolves(r, "interruption")
  /\ IF verbose
     THEN /\ outcome' = [outcome EXCEPT ![r] = "blocked"]
          /\ Await(r, "rules")
          /\ UNCHANGED <<answer, fin>>
     ELSE Decide(r, "blocked")
  /\ UNCHANGED <<setup, conn, finFailed, alive, wtx, verdict>>

RulesRead(r) ==
  /\ Resolves(r, "rules")
  /\ Decide(r, outcome[r])
  /\ UNCHANGED <<setup, conn, finFailed, alive, wtx, verdict>>

(* Fastify and Nest catch a failed matchedRules(); in Express it escapes,  *)
(* for emitBlock() is returned and not awaited inside the try.             *)
RulesFailed(r) ==
  /\ Rejects(r, "rules")
  /\ CASE kind[r] = "express" -> /\ answer' = [answer EXCEPT ![r] = "failed"]
                                 /\ mw' = [mw EXCEPT ![r] = "done"]
                                 /\ Take(r)
                                 /\ UNCHANGED <<outcome, fin>>
       [] kind[r] = "next" -> Decide(r, OnFailure)
       [] OTHER -> Decide(r, outcome[r])
  /\ UNCHANGED <<setup, conn, finFailed, alive, wtx, verdict>>

(* The catch of the middleware.  Fastify's emitBlock() reads the matched   *)
(* rules for a 503 too.                                                    *)
Caught(r) ==
  /\ \E op \in Inspecting \ {"rules"} : Rejects(r, op)
  /\ IF kind[r] = "fastify" /\ verbose /\ policy = "block"
     THEN /\ outcome' = [outcome EXCEPT ![r] = "wafError"]
          /\ Await(r, "rules")
          /\ UNCHANGED <<answer, fin>>
     ELSE Decide(r, OnFailure)
  /\ UNCHANGED <<setup, conn, finFailed, alive, wtx, verdict>>

-----------------------------------------------------------------------------
(* The end of the response, and of the transaction.                        *)

(* The response is finished, or the client of Express has gone: 'close'    *)
(* and onResponse.  Bound: the client of Fastify stays, for its hook is    *)
(* run by the end of the response only.                                    *)
FinishedAnyTime(r) == TRUE
Finished(r) ==
  answer[r] # "none" \/ (kind[r] = "express" /\ "leave" \in Faults)

ConnCloses(r) ==
  /\ kind[r] \notin Awaits /\ conn[r] = "open"
  /\ Finished(r)
  /\ conn' = [conn EXCEPT ![r] = "closed"]
  /\ IF fin[r] = "armed"
     THEN fin' = [fin EXCEPT ![r] = "logging"] /\ Post(r, "logging")
     ELSE UNCHANGED <<fin, queue>>
  /\ UNCHANGED <<setup, mwVars, finFailed, alive, wtx, verdict>>

Logged(r) ==
  /\ Resolves(r, "logging")
  /\ wtx' = [wtx EXCEPT ![r] = "logged"]
  /\ fin' = [fin EXCEPT ![r] = "closing"]
  /\ TakePost(r, "close")
  /\ UNCHANGED <<setup, mwVars, conn, finFailed, alive, verdict>>

(* The close() in the finally of a failed processLogging().                *)
CloseSkipped(r) == fin' = [fin EXCEPT ![r] = "done"] /\ Take(r)
CloseInFinally(r) == fin' = [fin EXCEPT ![r] = "closing"] /\ TakePost(r, "close")

LogFailed(r) ==
  /\ Rejects(r, "logging")
  /\ finFailed' = [finFailed EXCEPT ![r] = TRUE]
  /\ CloseInFinally(r)
  /\ UNCHANGED <<setup, mwVars, conn, alive, wtx, verdict>>

(* close() ends.  The worker forgets the transaction, also when its        *)
(* processLogging() threw; but not when tx.close() did, which precedes     *)
(* txs.delete() in the same finally.                                       *)
Trapped(r) == Ends(r, "close") /\ alive /\ "trap" \in Faults

Closed(r) ==
  /\ \/ /\ Resolves(r, "close")
        /\ wtx' = [wtx EXCEPT ![r] = "closed"]
        /\ UNCHANGED finFailed
     \/ /\ Rejects(r, "close")
        /\ wtx' = IF alive THEN [wtx EXCEPT ![r] = "closed"] ELSE wtx
        /\ finFailed' = [finFailed EXCEPT ![r] = TRUE]
     \/ /\ Trapped(r)
        /\ wtx' = [wtx EXCEPT ![r] = "kept"]
        /\ finFailed' = [finFailed EXCEPT ![r] = TRUE]
  /\ fin' = [fin EXCEPT ![r] = "done"]
  /\ Take(r)
  /\ IF kind[r] \in Awaits
     THEN /\ answer' = [answer EXCEPT ![r] = IF finFailed'[r] THEN "failed"
                                                              ELSE outcome[r]]
          /\ mw' = [mw EXCEPT ![r] = "done"]
     ELSE UNCHANGED <<answer, mw>>
  /\ UNCHANGED <<setup, outcome, conn, alive, verdict>>

WorkerExits ==
  /\ alive /\ "exit" \in Faults
  /\ alive' = FALSE
  /\ UNCHANGED <<setup, mwVars, finVars, queue, wtx, verdict>>

-----------------------------------------------------------------------------
Reply(r) ==
  \/ Refused(r) \/ Opened(r) \/ EngineOff(r) \/ EngineOn(r) \/ BodyFails(r)
  \/ Passed(r) \/ Interrupted(r) \/ Judged(r) \/ RulesRead(r)
  \/ RulesFailed(r) \/ Caught(r) \/ Logged(r) \/ LogFailed(r) \/ Closed(r)

Next == \/ \E r \in Req : \/ Ignored(r) \/ WafRejected(r) \/ Ask(r)
                          \/ Reply(r) \/ ConnCloses(r)
        \/ WorkerExits

(* The worker answers what it gets, or exits; a response that was decided  *)
(* ends, be it by the application or by the client.                        *)
Fairness == \A r \in Req :
  WF_vars(Reply(r)) /\ WF_vars(answer[r] # "none" /\ ConnCloses(r))

Spec == Init /\ [][Next]_vars
FairSpec == Spec /\ Fairness

-----------------------------------------------------------------------------
TypeOK ==
  /\ kind \in [Req -> Kinds] /\ policy \in Policies /\ verbose \in Verbose
  /\ mw \in [Req -> {"start", "newTx", "finally", "done"} \cup Inspecting]
  /\ outcome \in [Req -> {"none", "app", "blocked", "wafError"}]
  /\ answer \in [Req -> {"none"} \cup Answers]
  /\ conn \in [Req -> {"open", "closed"}]
  /\ fin \in [Req -> {"none", "armed", "logging", "closing", "done"}]
  /\ finFailed \in [Req -> BOOLEAN] /\ alive \in BOOLEAN
  /\ queue \in [Req -> Seq(Ops)]
  /\ wtx \in [Req -> {"none", "live", "logged", "closed", "kept"}]
  /\ verdict \in [Req -> {"none", "ignored", "off", "pass", "interrupted"}]

(* Fail closed: with onWAFError 'block' a request reaches the application  *)
(* only when the WAF let it pass, its engine was off, or it is ignored;    *)
(* whatever fails, and at whatever await.                                  *)
FailClosed ==
  policy = "block" => \A r \in Req :
    answer[r] = "app" => verdict[r] \in {"ignored", "off", "pass"}

(* The audit log is written while the request is still being inspected     *)
(* only when the client of Express has left before the decision.           *)
LoggedAfterInspection ==
  \A r \in Req :
    wtx[r] \in {"logged", "closed", "kept"} /\ mw[r] \in Inspecting
      => kind[r] = "express" /\ conn[r] = "closed" /\ answer[r] = "none"

(* Next and Nest give their answer only when the audit log is written and  *)
(* the worker has forgotten the transaction; and no answer but an error    *)
(* when it has kept it.                                                    *)
AnsweredAfterClose ==
  \A r \in Req :
    kind[r] \in {"next", "nest"} /\ answer[r] \in {"app", "blocked", "wafError"}
      => wtx[r] \in {"none", "closed"}

(* Every transaction is closed in the worker, if it lives, and is kept     *)
(* there only when the tx.close() of the worker threw; but none is closed  *)
(* when the client of Express left before newTransaction() had returned.   *)
TransactionsAreClosed ==
  \A r \in Req : wtx[r] = "live" ~>
    \/ wtx[r] = "closed" \/ ~alive
    \/ wtx[r] = "kept" /\ "trap" \in Faults
    \/ kind[r] = "express" /\ fin[r] = "armed" /\ conn[r] = "closed"

(* Every request is answered while the worker lives.  Express, and Fastify *)
(* without verboseLog, answer one under inspection even when the worker    *)
(* exits: they await nothing after that.                                   *)
Unbound(r) == kind[r] = "express" \/ (kind[r] = "fastify" /\ ~verbose)
RequestsAreAnswered ==
  \A r \in Req :
    /\ mw[r] = "newTx" ~> (answer[r] # "none" \/ ~alive)
    /\ (mw[r] \in Inspecting /\ Unbound(r)) ~> answer[r] # "none"

(* "One transaction per HTTP request. Lifecycle: processRequestBundle ...  *)
(* processLogging, close."                                                 *)
LifecycleEndsInClose ==
  \A r \in Req : wtx[r] = "live" ~> (wtx[r] = "closed" \/ ~alive)
=============================================================================
