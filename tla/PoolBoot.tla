------------------------------ MODULE PoolBoot ------------------------------
(***************************************************************************)
(* WAFPool.create() of packages/core/src/pool.ts: the threads are spawned, *)
(* every worker is initialised under one deadline, or all are torn down,   *)
(* and the new pool is pre-warmed.  It ends where WAFPool starts.          *)
(*                                                                         *)
(* One action is one macrotask of the main thread, with the promise        *)
(* continuations it releases, or one step of a worker thread.  create()    *)
(* awaits one call per slot at a time, so that the pending map, the inbox  *)
(* and the outbox of a slot hold at most one entry each.                   *)
(*                                                                         *)
(* The prewarm call of slot s is placed on s itself: WAFPool shows that    *)
(* #pickSlot sends these calls to every slot (PrewarmReachesEveryWorker).  *)
(***************************************************************************)
EXTENDS FiniteSets

CONSTANTS
  Slots,        (* the slots, one per worker                               *)
  HasDeadline,  (* readyTimeoutMs is neither 0 nor infinite                *)
  Faults        (* what may go wrong: see FaultKinds                       *)

(* "compile": the module does not compile; "silent": the thread never      *)
(* comes online and emits nothing; "init", "newTx", "bundle", "close": the *)
(* handler of that message throws; "exit", "error": as in WAFPool.         *)
FaultKinds == {"compile", "silent", "init", "newTx", "bundle", "close",
               "exit", "error"}

ASSUME SlotsAssumption == IsFiniteSet(Slots) /\ Slots # {}
ASSUME BootAssumption == HasDeadline \in BOOLEAN /\ Faults \subseteq FaultKinds

VARIABLES
  phase,       (* where create() is: see Phases                            *)
  ready,       (* slot.ready                                               *)
  call,        (* the call in slot.pending, or None                        *)
  inits,       (* the promise of slot.ready.then(init)                     *)
  terminated,  (* the slots on which terminate() was called                *)
  thread, inbox, outbox

mainVars   == <<phase, ready, call, inits, terminated>>
threadVars == <<thread, inbox, outbox>>
vars       == <<mainVars, threadVars>>

Phases == {"compiling", "initing", "terminating", "prewarming", "resolved",
           "rejected"}
Promise == {"pending", "resolved", "rejected"}

(* As in WAFPool; silent: alive, and it will never do anything.            *)
Running == {"silent", "starting", "online", "serving"}
Ended   == {"failed", "dead", "gone"}
Threads == Running \cup Ended \cup {"unspawned"}

None == "none"
Ops  == {"init", "newTx", "bundle", "close"}
Empty == [op |-> None, ok |-> TRUE]
Replies == [op : Ops, ok : BOOLEAN] \cup {Empty}

-----------------------------------------------------------------------------
Init ==
  /\ phase = "compiling"
  /\ ready = [s \in Slots |-> "pending"]
  /\ call = [s \in Slots |-> None]
  /\ inits = [s \in Slots |-> "pending"]
  /\ terminated = {}
  /\ thread = [s \in Slots |-> "unspawned"]
  /\ inbox = [s \in Slots |-> None]
  /\ outbox = [s \in Slots |-> Empty]

-----------------------------------------------------------------------------
(* create(), the listeners of spawnSlot() and callSlot() on the main       *)
(* thread.                                                                 *)

(* Outside the try: nothing to tear down yet.                              *)
CompileFails ==
  /\ phase = "compiling" /\ "compile" \in Faults
  /\ phase' = "rejected"
  /\ UNCHANGED <<ready, call, inits, terminated, threadVars>>

Compiled ==
  /\ phase = "compiling"
  /\ phase' = "initing"
  /\ thread' \in [Slots -> {"starting"} \cup (Faults \cap {"silent"})]
  /\ UNCHANGED <<ready, call, inits, terminated, inbox, outbox>>

(* callSlot() on every slot of S: a thread that has ended, or is ending,   *)
(* never reads its message.                                                *)
Post(S, op) ==
  /\ call' = [s \in Slots |-> IF s \in S THEN op ELSE call[s]]
  /\ inbox' = [s \in Slots |-> IF s \in S /\ thread[s] \in Running
                               THEN op ELSE inbox[s]]

(* The catch: terminate() on every slot, whatever has become of it.        *)
OnlyTheReady == {s \in Slots : ready[s] = "resolved"}
ToTerminate == Slots

(* Promise.all rejected, or the deadline passed.  A second rejection finds *)
(* the race decided.                                                       *)
GiveUp ==
  /\ IF phase = "initing"
     THEN phase' = "terminating" /\ terminated' = ToTerminate
     ELSE UNCHANGED <<phase, terminated>>

DeadlineIgnored == FALSE
Deadline == HasDeadline

TimeOut ==
  /\ phase = "initing" /\ Deadline
  /\ GiveUp
  /\ UNCHANGED <<ready, call, inits, threadVars>>

(* 'online' resolves ready, and its continuation posts init, also when     *)
(* create() has given up in the meantime.                                  *)
Online(s) ==
  /\ thread[s] = "starting"
  /\ thread' = [thread EXCEPT ![s] = "online"]
  /\ ready' = [ready EXCEPT ![s] = "resolved"]
  /\ Post({s}, "init")
  /\ UNCHANGED <<phase, inits, terminated, outbox>>

(* The pending call of s is taken from the map by a reply.                 *)
Answered(s, op, ok) ==
  /\ outbox[s] = [op |-> op, ok |-> ok] /\ call[s] = op
  /\ outbox' = [outbox EXCEPT ![s] = Empty]

(* A reply to a call that 'error' has already rejected.                    *)
Dropped(s) ==
  /\ outbox[s] # Empty /\ call[s] # outbox[s].op
  /\ outbox' = [outbox EXCEPT ![s] = Empty]
  /\ UNCHANGED <<mainVars, thread, inbox>>

(* Promise.all: the pool is handed to the prewarm by the last answer.      *)
FirstIsEnough(s) == TRUE
LastOfAll(s) == \A o \in Slots \ {s} : inits[o] = "resolved"

InitAnswered(s) ==
  /\ Answered(s, "init", TRUE)
  /\ inits' = [inits EXCEPT ![s] = "resolved"]
  /\ IF phase = "initing" /\ LastOfAll(s)
     THEN phase' = "prewarming" /\ Post(Slots, "newTx")
     ELSE UNCHANGED <<phase, inbox>> /\ call' = [call EXCEPT ![s] = None]
  /\ UNCHANGED <<ready, terminated, thread>>

InitFailed(s) ==
  /\ Answered(s, "init", FALSE)
  /\ inits' = [inits EXCEPT ![s] = "rejected"]
  /\ call' = [call EXCEPT ![s] = None]
  /\ GiveUp
  /\ UNCHANGED <<ready, thread, inbox>>

(* What the prewarm of s does when op is settled: the next call of its     *)
(* chain, or, as a failure is only logged, the end of it.                  *)
WithoutBundle(op, ok) == CASE op = "newTx" /\ ok -> "proc"
                           [] OTHER -> None
After(op, ok) == CASE op = "newTx" /\ ok -> "bundle"
                   [] op = "bundle" -> "close"
                   [] OTHER -> None

SomeWarm(calls) == \E s \in Slots : calls[s] = None
AllWarm(calls) == \A s \in Slots : calls[s] = None

Warm(s, op, ok) ==
  /\ Post({s}, After(op, ok))
  /\ phase' = IF AllWarm(call') THEN "resolved" ELSE phase

PrewarmAnswered(s) ==
  \E op \in Ops \ {"init"}, ok \in BOOLEAN :
    /\ Answered(s, op, ok)
    /\ Warm(s, op, ok)
    /\ UNCHANGED <<ready, inits, terminated, thread>>

(* terminate() resolves with the end of the thread.  All have: throw err.  *)
TornDown ==
  /\ phase = "terminating" /\ \A s \in terminated : thread[s] = "gone"
  /\ phase' = "rejected"
  /\ UNCHANGED <<ready, call, inits, terminated, threadVars>>

(* The listeners of 'error' and 'exit': the pending call, and ready if     *)
(* unready, is rejected, and what awaited it goes on.                      *)
RejectPending(s, unready) ==
  \/ /\ call[s] = "init" \/ unready
     /\ inits' = [inits EXCEPT ![s] = "rejected"]
     /\ call' = [call EXCEPT ![s] = None]
     /\ GiveUp
     /\ UNCHANGED inbox
  \/ /\ call[s] \in Ops \ {"init"}
     /\ Warm(s, call[s], FALSE)
     /\ UNCHANGED <<inits, terminated>>
  \/ /\ call[s] = None /\ ~unready
     /\ UNCHANGED <<phase, call, inits, terminated, inbox>>

ErrorEvent(s) ==
  /\ thread[s] = "failed"
  /\ thread' = [thread EXCEPT ![s] = "dead"]
  /\ ready' = [ready EXCEPT ![s] = IF @ = "pending" THEN "rejected" ELSE @]
  /\ RejectPending(s, ready[s] = "pending")
  /\ UNCHANGED outbox

ExitEvent(s) ==
  /\ thread[s] = "dead" /\ outbox[s] = Empty
  /\ thread' = [thread EXCEPT ![s] = "gone"]
  /\ RejectPending(s, FALSE)
  /\ UNCHANGED <<ready, outbox>>

-----------------------------------------------------------------------------
(* The worker thread.  init sets waf; the other messages find it set.      *)
Handle(s) ==
  /\ thread[s] \in {"online", "serving"} /\ inbox[s] # None
  /\ \E ok \in BOOLEAN :
       /\ ok \/ inbox[s] \in Faults
       /\ outbox' = [outbox EXCEPT ![s] = [op |-> inbox[s], ok |-> ok]]
       /\ thread' = [thread EXCEPT ![s] = IF inbox[s] = "init" /\ ok
                                         THEN "serving" ELSE @]
  /\ inbox' = [inbox EXCEPT ![s] = None]
  /\ UNCHANGED mainVars

ThreadEnds(s, to) ==
  /\ thread' = [thread EXCEPT ![s] = to]
  /\ inbox' = [inbox EXCEPT ![s] = None]
  /\ UNCHANGED <<mainVars, outbox>>

Exit(s) == thread[s] \in Running /\ s \in terminated /\ ThreadEnds(s, "dead")

Crash(s) ==
  /\ thread[s] \in Running \ {"silent"}
  /\ \/ "exit" \in Faults /\ ThreadEnds(s, "dead")
     \/ "error" \in Faults /\ ThreadEnds(s, "failed")

-----------------------------------------------------------------------------
Main(s) == \/ Online(s) \/ Dropped(s) \/ InitAnswered(s) \/ InitFailed(s)
           \/ PrewarmAnswered(s) \/ ErrorEvent(s) \/ ExitEvent(s)
Create == CompileFails \/ Compiled \/ TimeOut \/ TornDown
Thread(s) == Handle(s) \/ Exit(s)

Next == Create \/ \E s \in Slots : Main(s) \/ Thread(s) \/ Crash(s)

(* The event loop runs, a timer that is due fires, threads run and         *)
(* terminate() ends even a silent one.  Nothing forces a fault.            *)
Fairness == /\ WF_vars(Create)
            /\ \A s \in Slots : WF_vars(Main(s)) /\ WF_vars(Thread(s))

Spec == Init /\ [][Next]_vars
FairSpec == Spec /\ Fairness

-----------------------------------------------------------------------------
TypeOK ==
  /\ phase \in Phases
  /\ ready \in [Slots -> Promise] /\ inits \in [Slots -> Promise]
  /\ call \in [Slots -> Ops \cup {None}]
  /\ terminated \subseteq Slots
  /\ thread \in [Slots -> Threads]
  /\ inbox \in [Slots -> Ops \cup {None}]
  /\ outbox \in [Slots -> Replies]

(* All or nothing, first half ("tear down any workers we did manage to     *)
(* spawn"): when create() rejects, no worker thread is left, neither one   *)
(* that came online or answered after the deadline nor a silent one.       *)
RejectedLeavesNoThread ==
  phase = "rejected" => \A s \in Slots : thread[s] \in {"unspawned", "gone"}

(* Second half: the pool that create() builds, and pre-warms before it     *)
(* returns it, has in every slot a worker whose init set its waf and that  *)
(* nobody told to stop, whatever the order of answers, late onlines and    *)
(* the deadline; one that does not serve has ended by itself.              *)
HandedOver == phase \in {"prewarming", "resolved"}
HandedOverInitialised ==
  HandedOver => \A s \in Slots :
    thread[s] \in {"serving"} \cup Ended /\ s \notin terminated

(* The prewarm leaves nothing behind: when create() returns, no call of    *)
(* its is pending in a slot or queued at a worker, so that the first       *)
(* request meets an idle pool.                                             *)
ResolvedIsIdle ==
  phase = "resolved" => \A s \in Slots : call[s] = None /\ inbox[s] = None

ReturnedPoolIsReady == HandedOverInitialised /\ ResolvedIsIdle

(* With a deadline create() settles, also when a thread is silent, unless  *)
(* a worker ends by itself after it had answered init: the prewarm has no  *)
(* deadline, and a call posted to a thread that is gone is never answered. *)
EndedAfterInit(s) == inits[s] = "resolved" /\ thread[s] \in Ended
CreateSettles ==
  HasDeadline => <>(\/ phase \in {"resolved", "rejected"}
                    \/ \E s \in Slots \ terminated : EndedAfterInit(s))
=============================================================================
