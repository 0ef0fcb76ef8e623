--------------------------- MODULE PoolBootProofs ---------------------------
(***************************************************************************)
(* The safety of create(), for any set of slots and any faults: the        *)
(* invariants of PoolBoot follow from BootInv, which is inductive.         *)
(*                                                                         *)
(* The rules of the pool, for any options: what loading the directives of  *)
(* recommended() leaves of the rule set is computed group by group, by     *)
(* induction over the directives of a group.                               *)
(*                                                                         *)
(* The binary of the pool, for any sections: a number is read back where   *)
(* it lies, so the walk comes upon each section in turn, finds the one of  *)
(* the memory, and what is put together is the encoding of the same        *)
(* sections with more pages.                                               *)
(***************************************************************************)
EXTENDS PoolRules, Recursion, SequenceTheorems, TLAPS

(* How far a slot is, told by any of its promises, its two queues or its   *)
(* thread: each agrees with the others, also after the thread has ended.   *)
SlotInv(s) ==
  /\ thread[s] \in {"unspawned", "silent", "starting"} =>
       /\ call[s] = None /\ inbox[s] = None /\ outbox[s] = Empty
       /\ inits[s] # "resolved"
  /\ \/ inits[s] = "resolved"
     \/ outbox[s] = [op |-> "init", ok |-> TRUE]
     => thread[s] \in {"serving"} \cup Ended
  /\ ready[s] = "pending" => inits[s] # "resolved"
  /\ call[s] = "init" => inits[s] # "resolved" /\ ready[s] = "resolved"
  /\ call[s] \in Ops \ {"init"} => phase = "prewarming"
  /\ inbox[s] # None =>
       thread[s] \in Running /\ call[s] = inbox[s] /\ outbox[s] = Empty
  /\ thread[s] \in Running /\ outbox[s] # Empty => call[s] = outbox[s].op

(* What the phase of create() says of all slots.                           *)
PhaseInv ==
  /\ phase = "compiling" => \A s \in Slots : thread[s] = "unspawned"
  /\ phase = "terminating" => terminated = Slots
  /\ phase \notin {"terminating", "rejected"} => terminated = {}
  /\ HandedOver => \A s \in Slots : inits[s] = "resolved"
  /\ phase = "resolved" => \A s \in Slots : call[s] = None
  /\ RejectedLeavesNoThread

BootInv == TypeOK /\ PhaseInv /\ \A s \in Slots : SlotInv(s)

-----------------------------------------------------------------------------
LEMMA InitHolds == Init => BootInv
  BY BootAssumption
  DEF Init, BootInv, TypeOK, PhaseInv, SlotInv, RejectedLeavesNoThread,
      HandedOver, Phases, Promise, Threads, Running, Ended, Ops, None, Empty,
      Replies

LEMMA CompileFailsKeeps == ASSUME BootInv, CompileFails PROVE BootInv'
<1> USE BootAssumption
    DEF BootInv, CompileFails, mainVars, threadVars
<1>1. TypeOK'
  BY DEF TypeOK, Phases, Promise, Threads, Running, Ended, Ops, None, Empty,
         Replies, FaultKinds
<1>2. PhaseInv'
  BY DEF TypeOK, PhaseInv, SlotInv, RejectedLeavesNoThread, HandedOver,
         Running, Ended, Ops, None, Empty
<1>3. ASSUME NEW o \in Slots PROVE SlotInv(o)'
  BY DEF TypeOK, PhaseInv, SlotInv, HandedOver, Running, Ended, Ops, None,
         Empty
<1> QED BY <1>1, <1>2, <1>3

LEMMA CompiledKeeps == ASSUME BootInv, Compiled PROVE BootInv'
<1> USE BootAssumption
    DEF BootInv, Compiled, mainVars, threadVars
<1>1. TypeOK'
  BY DEF TypeOK, Phases, Promise, Threads, Running, Ended, Ops, None, Empty,
         Replies, FaultKinds
<1>2. PhaseInv'
  BY DEF TypeOK, PhaseInv, SlotInv, RejectedLeavesNoThread, HandedOver,
         Running, Ended, Ops, None, Empty
<1>3. ASSUME NEW o \in Slots PROVE SlotInv(o)'
  BY DEF TypeOK, PhaseInv, SlotInv, HandedOver, Running, Ended, Ops, None,
         Empty
<1> QED BY <1>1, <1>2, <1>3

LEMMA TimeOutKeeps == ASSUME BootInv, TimeOut PROVE BootInv'
<1> USE BootAssumption
    DEF BootInv, TimeOut, GiveUp, Deadline, ToTerminate, mainVars, threadVars
<1>1. TypeOK'
  BY DEF TypeOK, Phases, Promise, Threads, Running, Ended, Ops, None, Empty,
         Replies, FaultKinds
<1>2. PhaseInv'
  BY DEF TypeOK, PhaseInv, SlotInv, RejectedLeavesNoThread, HandedOver,
         Running, Ended, Ops, None, Empty
<1>3. ASSUME NEW o \in Slots PROVE SlotInv(o)'
  BY DEF TypeOK, PhaseInv, SlotInv, HandedOver, Running, Ended, Ops, None,
         Empty
<1> QED BY <1>1, <1>2, <1>3

LEMMA TornDownKeeps == ASSUME BootInv, TornDown PROVE BootInv'
<1> USE BootAssumption
    DEF BootInv, TornDown, mainVars, threadVars
<1>1. TypeOK'
  BY DEF TypeOK, Phases, Promise, Threads, Running, Ended, Ops, None, Empty,
         Replies, FaultKinds
<1>2. PhaseInv'
  BY DEF TypeOK, PhaseInv, SlotInv, RejectedLeavesNoThread, HandedOver,
         Running, Ended, Ops, None, Empty
<1>3. ASSUME NEW o \in Slots PROVE SlotInv(o)'
  BY DEF TypeOK, PhaseInv, SlotInv, HandedOver, Running, Ended, Ops, None,
         Empty
<1> QED BY <1>1, <1>2, <1>3

LEMMA OnlineKeeps ==
  ASSUME NEW s \in Slots, BootInv, Online(s) PROVE BootInv'
<1> USE BootAssumption
    DEF BootInv, Online, Post, mainVars, threadVars
<1>1. TypeOK'
  BY DEF TypeOK, Phases, Promise, Threads, Running, Ended, Ops, None, Empty,
         Replies, FaultKinds
<1>2. PhaseInv'
  BY DEF TypeOK, PhaseInv, SlotInv, RejectedLeavesNoThread, HandedOver,
         Running, Ended, Ops, None, Empty
<1>3. ASSUME NEW o \in Slots PROVE SlotInv(o)'
  BY DEF TypeOK, PhaseInv, SlotInv, HandedOver, Running, Ended, Ops, None,
         Empty
<1> QED BY <1>1, <1>2, <1>3

LEMMA DroppedKeeps ==
  ASSUME NEW s \in Slots, BootInv, Dropped(s) PROVE BootInv'
<1> USE BootAssumption
    DEF BootInv, Dropped, mainVars, threadVars
<1>1. TypeOK'
  BY DEF TypeOK, Phases, Promise, Threads, Running, Ended, Ops, None, Empty,
         Replies, FaultKinds
<1>2. PhaseInv'
  BY DEF TypeOK, PhaseInv, SlotInv, RejectedLeavesNoThread, HandedOver,
         Running, Ended, Ops, None, Empty
<1>3. ASSUME NEW o \in Slots PROVE SlotInv(o)'
  BY DEF TypeOK, PhaseInv, SlotInv, HandedOver, Running, Ended, Ops, None,
         Empty
<1> QED BY <1>1, <1>2, <1>3

LEMMA InitAnsweredKeeps ==
  ASSUME NEW s \in Slots, BootInv, InitAnswered(s) PROVE BootInv'
<1> USE BootAssumption
    DEF BootInv, InitAnswered, Answered, LastOfAll, Post, mainVars, threadVars
<1>1. TypeOK'
  BY DEF TypeOK, Phases, Promise, Threads, Running, Ended, Ops, None, Empty,
         Replies, FaultKinds
<1>2. PhaseInv'
  BY DEF TypeOK, PhaseInv, SlotInv, RejectedLeavesNoThread, HandedOver,
         Running, Ended, Ops, None, Empty
<1>3. ASSUME NEW o \in Slots PROVE SlotInv(o)'
  <2>1. SlotInv(s) /\ SlotInv(o)
    OBVIOUS
  <2>2. CASE o = s
    BY <2>1, <2>2 DEF TypeOK, PhaseInv, SlotInv, HandedOver, Running, Ended,
       Ops, None, Empty, Replies
  <2>3. CASE o # s
    BY <2>1, <2>3 DEF TypeOK, PhaseInv, SlotInv, HandedOver, Running, Ended,
       Ops, None, Empty, Replies
  <2> QED BY <2>2, <2>3
<1> QED BY <1>1, <1>2, <1>3

LEMMA InitFailedKeeps ==
  ASSUME NEW s \in Slots, BootInv, InitFailed(s) PROVE BootInv'
<1> USE BootAssumption
    DEF BootInv, InitFailed, Answered, GiveUp, ToTerminate, mainVars,
        threadVars
<1>1. TypeOK'
  BY DEF TypeOK, Phases, Promise, Threads, Running, Ended, Ops, None, Empty,
         Replies, FaultKinds
<1>2. PhaseInv'
  BY DEF TypeOK, PhaseInv, SlotInv, RejectedLeavesNoThread, HandedOver,
         Running, Ended, Ops, None, Empty
<1>3. ASSUME NEW o \in Slots PROVE SlotInv(o)'
  <2>1. SlotInv(s) /\ SlotInv(o)
    OBVIOUS
  <2>2. CASE o = s
    BY <2>1, <2>2 DEF TypeOK, PhaseInv, SlotInv, HandedOver, Running, Ended,
       Ops, None, Empty, Replies
  <2>3. CASE o # s
    BY <2>1, <2>3 DEF TypeOK, PhaseInv, SlotInv, HandedOver, Running, Ended,
       Ops, None, Empty, Replies
  <2> QED BY <2>2, <2>3
<1> QED BY <1>1, <1>2, <1>3

LEMMA HandleKeeps ==
  ASSUME NEW s \in Slots, BootInv, Handle(s) PROVE BootInv'
<1> USE BootAssumption
    DEF BootInv, Handle, mainVars, threadVars
<1>1. TypeOK'
  BY DEF TypeOK, Phases, Promise, Threads, Running, Ended, Ops, None, Empty,
         Replies, FaultKinds
<1>2. PhaseInv'
  BY DEF TypeOK, PhaseInv, SlotInv, RejectedLeavesNoThread, HandedOver,
         Running, Ended, Ops, None, Empty
<1>3. ASSUME NEW o \in Slots PROVE SlotInv(o)'
  <2>1. SlotInv(s) /\ SlotInv(o)
    OBVIOUS
  <2>2. CASE o = s
    BY <2>1, <2>2 DEF TypeOK, PhaseInv, SlotInv, HandedOver, Running, Ended,
       Ops, None, Empty, Replies
  <2>3. CASE o # s
    BY <2>1, <2>3 DEF TypeOK, PhaseInv, SlotInv, HandedOver, Running, Ended,
       Ops, None, Empty, Replies
  <2> QED BY <2>2, <2>3
<1> QED BY <1>1, <1>2, <1>3

LEMMA ExitKeeps ==
  ASSUME NEW s \in Slots, BootInv, Exit(s) PROVE BootInv'
<1> USE BootAssumption
    DEF BootInv, Exit, ThreadEnds, mainVars, threadVars
<1>1. TypeOK'
  BY DEF TypeOK, Phases, Promise, Threads, Running, Ended, Ops, None, Empty,
         Replies, FaultKinds
<1>2. PhaseInv'
  BY DEF TypeOK, PhaseInv, SlotInv, RejectedLeavesNoThread, HandedOver,
         Running, Ended, Ops, None, Empty
<1>3. ASSUME NEW o \in Slots PROVE SlotInv(o)'
  BY DEF TypeOK, PhaseInv, SlotInv, HandedOver, Running, Ended, Ops, None,
         Empty
<1> QED BY <1>1, <1>2, <1>3

LEMMA CrashKeeps ==
  ASSUME NEW s \in Slots, BootInv, Crash(s) PROVE BootInv'
<1> USE BootAssumption
    DEF BootInv, Crash, ThreadEnds, mainVars, threadVars
<1>1. TypeOK'
  BY DEF TypeOK, Phases, Promise, Threads, Running, Ended, Ops, None, Empty,
         Replies, FaultKinds
<1>2. PhaseInv'
  BY DEF TypeOK, PhaseInv, SlotInv, RejectedLeavesNoThread, HandedOver,
         Running, Ended, Ops, None, Empty
<1>3. ASSUME NEW o \in Slots PROVE SlotInv(o)'
  <2>1. SlotInv(s) /\ SlotInv(o)
    OBVIOUS
  <2>2. CASE o = s
    BY <2>1, <2>2 DEF TypeOK, PhaseInv, SlotInv, HandedOver, Running, Ended,
       Ops, None, Empty, Replies
  <2>3. CASE o # s
    BY <2>1, <2>3 DEF TypeOK, PhaseInv, SlotInv, HandedOver, Running, Ended,
       Ops, None, Empty, Replies
  <2> QED BY <2>2, <2>3
<1> QED BY <1>1, <1>2, <1>3

(* The end of a thread that no longer runs, in its two events: what the    *)
(* rejected call sets off keeps the invariant.                             *)
LEMMA RejectPendingKeeps ==
  ASSUME NEW s \in Slots, BootInv,
         NEW unready \in BOOLEAN, RejectPending(s, unready),
         NEW to \in {"dead", "gone"},
         thread[s] \in {"failed", "dead"},
         thread' = [thread EXCEPT ![s] = to],
         IF unready
         THEN ready[s] = "pending" /\ ready' = [ready EXCEPT ![s] = "rejected"]
         ELSE ready' = ready,
         outbox' = outbox
  PROVE  BootInv'
<1> USE BootAssumption DEF BootInv, Ops, None
<1>0. thread[s] \notin Running /\ inbox[s] = None
  BY DEF TypeOK, SlotInv, Running
<1>1. CASE
        /\ call[s] = "init" \/ unready
        /\ inits' = [inits EXCEPT ![s] = "rejected"]
        /\ call' = [call EXCEPT ![s] = None]
        /\ GiveUp
        /\ UNCHANGED inbox
  <2>1. /\ inits' = [inits EXCEPT ![s] = "rejected"]
        /\ call' = [call EXCEPT ![s] = None]
        /\ UNCHANGED inbox
        /\ IF phase = "initing"
           THEN phase' = "terminating" /\ terminated' = Slots
           ELSE UNCHANGED <<phase, terminated>>
    BY <1>1 DEF GiveUp, ToTerminate
  <2>2. TypeOK'
    BY <2>1 DEF TypeOK, Phases, Promise, Threads, Running, Ended
  <2>3. PhaseInv'
    BY <1>0, <1>1, <2>1 DEF TypeOK, PhaseInv, SlotInv, Running, Ended,
       RejectedLeavesNoThread, HandedOver
  <2>4. ASSUME NEW o \in Slots PROVE SlotInv(o)'
    <3>1. SlotInv(s) /\ SlotInv(o)
      OBVIOUS
    <3>2. phase' = phase \/ (phase = "initing" /\ phase' = "terminating")
      BY <2>1
    <3>3. CASE o = s
      BY <1>0, <2>1, <3>1, <3>2, <3>3 DEF TypeOK, SlotInv, Running, Ended,
         Empty, Replies
    <3>4. CASE o # s
      BY <2>1, <3>1, <3>2, <3>4 DEF TypeOK, SlotInv, Running, Ended
    <3> QED BY <3>3, <3>4
  <2> QED BY <2>2, <2>3, <2>4
<1>2. CASE
        /\ call[s] \in Ops \ {"init"}
        /\ Warm(s, call[s], FALSE)
        /\ UNCHANGED <<inits, terminated>>
  <2>1. UNCHANGED <<inits, terminated>>
    BY <1>2
  <2>2. /\ call' = [o \in Slots |-> IF o = s THEN After(call[s], FALSE)
                                             ELSE call[o]]
        /\ UNCHANGED inbox
        /\ phase' = IF AllWarm(call') THEN "resolved" ELSE phase
    BY <1>0, <1>2 DEF Warm, Post, TypeOK
  <2>3. /\ phase = "prewarming" /\ thread'[s] \notin Running
        /\ ready' = ready
    BY <1>2 DEF TypeOK, PhaseInv, HandedOver, SlotInv, Running
  <2>4. After(call[s], FALSE) \in {"close", None}
    BY DEF After
  <2>5. TypeOK'
    BY <2>1, <2>2, <2>4, <2>3 DEF TypeOK, Phases, Threads, Running, Ended
  <2>6. PhaseInv'
    BY <2>1, <2>2, <2>4, <2>3 DEF TypeOK, PhaseInv, HandedOver, AllWarm,
       RejectedLeavesNoThread
  <2>7. ASSUME NEW o \in Slots PROVE SlotInv(o)'
    <3>1. SlotInv(s) /\ SlotInv(o)
      OBVIOUS
    <3>2. CASE o = s
      BY <1>0, <2>1, <2>2, <2>4, <2>3, <3>1, <3>2 DEF TypeOK, SlotInv, Running,
         Ended, Empty, AllWarm
    <3>3. CASE o # s
      BY <2>1, <2>2, <2>3, <3>1, <3>3 DEF TypeOK, SlotInv, Running,
         Ended, AllWarm
    <3> QED BY <3>2, <3>3
  <2> QED BY <2>5, <2>6, <2>7
<1>3. CASE
        /\ call[s] = None /\ ~unready
        /\ UNCHANGED <<phase, call, inits, terminated, inbox>>
  <2>1. UNCHANGED <<phase, call, inits, terminated, inbox, outbox, ready>>
    BY <1>3
  <2>2. TypeOK'
    BY <2>1 DEF TypeOK, Threads, Running, Ended
  <2>3. PhaseInv'
    BY <2>1 DEF TypeOK, PhaseInv, HandedOver, RejectedLeavesNoThread
  <2>4. ASSUME NEW o \in Slots PROVE SlotInv(o)'
    <3>1. SlotInv(s) /\ SlotInv(o)
      OBVIOUS
    <3> QED BY <1>0, <2>1, <3>1 DEF TypeOK, SlotInv, Running, Ended
  <2> QED BY <2>2, <2>3, <2>4
<1> QED BY <1>1, <1>2, <1>3 DEF RejectPending

LEMMA ErrorEventKeeps ==
  ASSUME NEW s \in Slots, BootInv, ErrorEvent(s) PROVE BootInv'
<1>1. /\ thread[s] = "failed" /\ outbox' = outbox
      /\ RejectPending(s, ready[s] = "pending")
      /\ thread' = [thread EXCEPT ![s] = "dead"]
      /\ IF ready[s] = "pending"
         THEN ready' = [ready EXCEPT ![s] = "rejected"]
         ELSE ready' = ready
  BY DEF ErrorEvent, BootInv, TypeOK
<1> QED BY <1>1, RejectPendingKeeps

LEMMA ExitEventKeeps ==
  ASSUME NEW s \in Slots, BootInv, ExitEvent(s) PROVE BootInv'
<1>1. /\ thread[s] = "dead" /\ RejectPending(s, FALSE)
      /\ outbox' = outbox /\ ready' = ready
      /\ thread' = [thread EXCEPT ![s] = "gone"]
  BY DEF ExitEvent
<1> QED BY <1>1, RejectPendingKeeps

LEMMA PrewarmAnsweredKeeps ==
  ASSUME NEW s \in Slots, BootInv, PrewarmAnswered(s) PROVE BootInv'
<1> USE BootAssumption DEF BootInv, Ops, None
<1>1. PICK op \in Ops \ {"init"}, ok \in BOOLEAN :
        /\ Answered(s, op, ok) /\ Warm(s, op, ok)
        /\ UNCHANGED <<ready, inits, terminated, thread>>
  BY DEF PrewarmAnswered
<1> DEFINE next == After(op, ok)
<1>2. next \in {"bundle", "close", None}
  BY DEF After
<1>3. /\ outbox[s] # Empty /\ call[s] = op
      /\ outbox' = [outbox EXCEPT ![s] = Empty]
      /\ call' = [o \in Slots |-> IF o = s THEN next ELSE call[o]]
      /\ inbox' = [o \in Slots |-> IF o = s /\ thread[o] \in Running
                                   THEN next ELSE inbox[o]]
      /\ phase = "prewarming"
      /\ phase' = IF AllWarm(call') THEN "resolved" ELSE phase
  BY <1>1 DEF Answered, Warm, Post, SlotInv, TypeOK, Empty
<1> HIDE DEF next
<1>4. TypeOK'
  BY <1>1, <1>2, <1>3 DEF TypeOK, Phases, Replies
<1>5. PhaseInv'
  BY <1>1, <1>2, <1>3 DEF TypeOK, PhaseInv, HandedOver, AllWarm,
     RejectedLeavesNoThread
<1>6. ASSUME NEW o \in Slots PROVE SlotInv(o)'
  <2>1. SlotInv(s) /\ SlotInv(o)
    OBVIOUS
  <2>2. CASE o = s
    BY <1>1, <1>2, <1>3, <2>1, <2>2 DEF TypeOK, SlotInv, Running, Ended, Empty,
       AllWarm
  <2>3. CASE o # s
    BY <1>1, <1>3, <2>1, <2>3 DEF TypeOK, SlotInv, Running, Ended, AllWarm
  <2> QED BY <2>2, <2>3
<1> QED BY <1>4, <1>5, <1>6

LEMMA StepKeeps == BootInv /\ [Next]_vars => BootInv'
<1> SUFFICES ASSUME BootInv, [Next]_vars PROVE BootInv'
  OBVIOUS
<1>1. CASE Create
  BY <1>1, CompileFailsKeeps, CompiledKeeps, TimeOutKeeps, TornDownKeeps
  DEF Create
<1>2. ASSUME NEW s \in Slots, Main(s) PROVE BootInv'
  BY <1>2, OnlineKeeps, DroppedKeeps, InitAnsweredKeeps, InitFailedKeeps,
     PrewarmAnsweredKeeps, ErrorEventKeeps, ExitEventKeeps
  DEF Main
<1>3. ASSUME NEW s \in Slots, Thread(s) PROVE BootInv'
  BY <1>3, HandleKeeps, ExitKeeps DEF Thread
<1>4. CASE UNCHANGED vars
  BY <1>4 DEF vars, mainVars, threadVars, BootInv, TypeOK, PhaseInv, SlotInv,
     HandedOver, RejectedLeavesNoThread
<1> QED BY <1>1, <1>2, <1>3, <1>4, CrashKeeps DEF Next

LEMMA BootInvHolds == Spec => []BootInv
  BY InitHolds, StepKeeps, PTL DEF Spec

(* create() keeps its variables in their types: a slot never has two calls *)
(* of create() pending, queued or answered at once.                        *)
THEOREM BootTypeCorrect == Spec => []TypeOK
  BY BootInvHolds, PTL DEF BootInv

(* When create() rejects no thread is left, for any number of slots, any   *)
(* faults, with and without a deadline.                                    *)
THEOREM RejectionTearsDown == Spec => []RejectedLeavesNoThread
<1>1. BootInv => RejectedLeavesNoThread
  BY DEF BootInv, PhaseInv
<1> QED BY <1>1, BootInvHolds, PTL

(* The pool create() hands over has an initialised worker in every slot    *)
(* and none that was told to stop, and when create() returns, its prewarm  *)
(* has left no call and no message.                                        *)
THEOREM HandoverIsReady == Spec => []ReturnedPoolIsReady
<1>1. BootInv => HandedOverInitialised
  BY DEF BootInv, PhaseInv, SlotInv, HandedOverInitialised, HandedOver
<1>2. BootInv => ResolvedIsIdle
  BY DEF BootInv, PhaseInv, SlotInv, ResolvedIsIdle
<1> QED BY <1>1, <1>2, BootInvHolds, PTL DEF ReturnedPoolIsReady

-----------------------------------------------------------------------------
(***************************************************************************)
(* The rules of a pool.  X holds the values of the tuning variables.       *)
(***************************************************************************)
Engine(X) == [rules : SUBSET Nat, tx : [TuningVars -> X], tuned : [TuningVars -> X]]

Pushing == {Include(f) : f \in Nat}
Directives(X) ==
  {Setup("coraza.conf-recommended"), Setup("crs-setup.conf.example"), [op |-> "extra"]}
    \cup {Set(var, x) : var \in TuningVars, x \in X}
    \cup Pushing \cup {RemoveBy(cat) : cat \in CrsCategory}

(* Loading ds brings the engine from v to w.                               *)
Goes(X, v, ds, w) ==
  \E e \in [0..Len(ds) -> Engine(X)] :
    /\ e[0] = v /\ e[Len(ds)] = w
    /\ \A k \in 1..Len(ds) : e[k] = Load(e[k - 1], ds[k])

LEMMA LoadTyped ==
  ASSUME NEW X, NEW v \in Engine(X), NEW d \in Directives(X)
  PROVE  Load(v, d) \in Engine(X)
<1>1. CASE d \in {Setup("coraza.conf-recommended"), Setup("crs-setup.conf.example"), [op |-> "extra"]}
  <2>1. d.op \in {"setup", "extra"}
    BY <1>1 DEF Setup
  <2>2. Load(v, d) = v
    BY <2>1 DEF Load
  <2> QED BY <2>2
<1>2. CASE d \in {Set(var, x) : var \in TuningVars, x \in X}
  <2>1. d.op = "set" /\ d.var \in TuningVars /\ d.val \in X
    BY <1>2 DEF Set
  <2>2. Load(v, d) = LoadAction(v, d)
    BY <2>1 DEF Load
  <2> QED BY <2>1, <2>2 DEF LoadAction, Engine
<1>3. CASE d \in Pushing
  <2>1. d.op = "include" /\ d.file \in Nat
    BY <1>3 DEF Include, Pushing
  <2>2. Load(v, d) = LoadFile(v, d)
    BY <2>1 DEF Load
  <2>3. Load(v, d) = [rules |-> v.rules \cup {d.file}, tx |-> v.tx,
                      tuned |-> IF d.file = Initialization THEN v.tx ELSE v.tuned]
    BY <2>2 DEF LoadFile, Engine
  <2>4. /\ v.rules \subseteq Nat
        /\ v.tx \in [TuningVars -> X] /\ v.tuned \in [TuningVars -> X]
    BY DEF Engine
  <2>5. v.rules \cup {d.file} \in SUBSET Nat
    BY <2>1, <2>4
  <2> QED BY <2>3, <2>4, <2>5 DEF Engine
<1>4. CASE d \in {RemoveBy(cat) : cat \in CrsCategory}
  <2>1. d.op = "remove"
    BY <1>4 DEF RemoveBy
  <2>2. Load(v, d) = RemoveById(v, d)
    BY <2>1 DEF Load
  <2> QED BY <2>2 DEF RemoveById, Engine
<1> QED BY <1>1, <1>2, <1>3, <1>4 DEF Directives

LEMMA LoadingGoes ==
  ASSUME NEW X, Undefined \in X, NEW ds \in Seq(Directives(X))
  PROVE  Goes(X, Nothing, ds, Loading(ds)[Len(ds)])
<1> DEFINE n == Len(ds)
           g == [k \in 1..n |-> [v \in Engine(X) |-> Load(v, ds[k])]]
           Loads(r) == r = [k \in 0..n |-> IF k = 0 THEN Nothing ELSE Load(r[k - 1], ds[k])]
<1>1. n \in Nat /\ \A k \in 1..n : ds[k] \in Directives(X)
  BY LenProperties, ElementOfSeq
<1>2. Nothing \in Engine(X)
  BY DEF Nothing, Unset, Engine
<1>3. g \in [1..n -> [Engine(X) -> Engine(X)]]
  BY <1>1, LoadTyped
<1>4. \A k \in 1..n : \A v \in Engine(X) : g[k][v] = Load(v, ds[k])
  OBVIOUS
<1>5. Loading(ds) = CHOOSE r : Loads(r)
  BY DEF Loading
<1> HIDE DEF n, g
<1>6. PICK f : f \in [0..n -> Engine(X)] /\ RecursTo(n, f, Nothing, g)
  BY <1>1, <1>2, <1>3, FiniteRecursionExists
<1>7. \A k \in 0..n : f[k] = IF k = 0 THEN Nothing ELSE Load(f[k - 1], ds[k])
  <2>1. ASSUME NEW k \in 0..n, k # 0
        PROVE  f[k] = Load(f[k - 1], ds[k])
    <3>1. k \in 1..n /\ k - 1 \in 0..n
      BY <1>1, <2>1
    <3>2. f[k] = g[k][f[k - 1]]
      BY <1>6, <2>1 DEF RecursTo
    <3> QED BY <1>4, <1>6, <3>1, <3>2
  <2>2. 0 \in 0..n /\ f[0] = Nothing
    BY <1>1, <1>6 DEF RecursTo
  <2> QED BY <2>1, <2>2
<1>8. Loads(f)
  BY <1>6, <1>7
<1> DEFINE e == Loading(ds)
<1>9. Loads(e)
  BY <1>5, <1>8
<1>10. \A k \in 0..n : e[k] = IF k = 0 THEN Nothing ELSE Load(e[k - 1], ds[k])
  BY <1>9
<1>11. DOMAIN e = 0..n /\ e = [k \in 0..n |-> e[k]]
  BY <1>9
<1> HIDE DEF e, Loads
<1>12. \A k \in 0..n : e[k] \in Engine(X)
  <2> DEFINE T == {k \in Nat : k \in 0..n => e[k] \in Engine(X)}
  <2>1. 0 \in T
    BY <1>1, <1>2, <1>10
  <2>2. ASSUME NEW k \in Nat, k \in T PROVE k + 1 \in T
    <3>1. ASSUME k + 1 \in 0..n PROVE e[k + 1] \in Engine(X)
      <4>1. k \in 0..n /\ k + 1 \in 1..n /\ (k + 1) - 1 = k /\ k + 1 # 0
        BY <1>1, <3>1
      <4>2. e[k] \in Engine(X)
        BY <2>2, <4>1
      <4>3. e[k + 1] = Load(e[k], ds[k + 1])
        BY <1>10, <3>1, <4>1
      <4> QED BY <1>1, <4>1, <4>2, <4>3, LoadTyped
    <3> QED BY <3>1
  <2> HIDE DEF T
  <2>3. Nat \subseteq T
    BY <2>1, <2>2, Induction
  <2> QED BY <1>1, <2>3 DEF T
<1>13. e \in [0..n -> Engine(X)]
  BY <1>11, <1>12
<1>14. e[0] = Nothing /\ \A k \in 1..n : e[k] = Load(e[k - 1], ds[k])
  BY <1>1, <1>10
<1> QED BY <1>13, <1>14 DEF Goes, e, n

LEMMA GoesOn ==
  ASSUME NEW X, NEW v, NEW w, NEW a \in Seq(Directives(X)), NEW b \in Seq(Directives(X)),
         Goes(X, v, a \o b, w)
  PROVE  \E u \in Engine(X) : Goes(X, v, a, u) /\ Goes(X, u, b, w)
<1> DEFINE ab == a \o b
           m == Len(a)
           n == Len(b)
<1>1. /\ m \in Nat /\ n \in Nat /\ Len(ab) = m + n
      /\ \A k \in 1..m : ab[k] = a[k]
      /\ \A k \in 1..n : ab[m + k] = b[k]
  <2>1. m \in Nat /\ n \in Nat /\ Len(ab) = m + n
    BY ConcatProperties, LenProperties
  <2>2. \A k \in 1..(m + n) : ab[k] = IF k <= m THEN a[k] ELSE b[k - m]
    BY ConcatProperties
  <2>3. \A k \in 1..m : k \in 1..(m + n) /\ k <= m
    BY <2>1
  <2>4. \A k \in 1..n : m + k \in 1..(m + n) /\ ~ (m + k <= m) /\ (m + k) - m = k
    BY <2>1
  <2> HIDE DEF ab, m, n
  <2> QED BY <2>1, <2>2, <2>3, <2>4
<1> HIDE DEF ab
<1>2. PICK e \in [0..(m + n) -> Engine(X)] :
        /\ e[0] = v /\ e[m + n] = w
        /\ \A k \in 1..(m + n) : e[k] = Load(e[k - 1], ab[k])
  BY <1>1 DEF Goes, ab
<1> HIDE DEF m, n
<1>3. Goes(X, v, a, e[m])
  <2> DEFINE h == [k \in 0..m |-> e[k]]
  <2>1. h \in [0..m -> Engine(X)] /\ h[0] = v /\ h[m] = e[m]
    BY <1>1, <1>2
  <2>2. ASSUME NEW k \in 1..m PROVE h[k] = Load(h[k - 1], a[k])
    <3>1. k \in 1..(m + n) /\ k \in 0..m /\ k - 1 \in 0..m
      BY <1>1
    <3>2. e[k] = Load(e[k - 1], a[k])
      BY <1>1, <1>2, <3>1
    <3> QED BY <3>1, <3>2
  <2> HIDE DEF h
  <2> QED BY <2>1, <2>2 DEF Goes, m
<1>4. Goes(X, e[m], b, w)
  <2> DEFINE h == [k \in 0..n |-> e[m + k]]
  <2>1. h \in [0..n -> Engine(X)] /\ h[0] = e[m] /\ h[n] = w
    BY <1>1, <1>2
  <2>2. ASSUME NEW k \in 1..n PROVE h[k] = Load(h[k - 1], b[k])
    <3>1. m + k \in 1..(m + n) /\ k \in 0..n /\ k - 1 \in 0..n /\ m + (k - 1) = (m + k) - 1
      BY <1>1
    <3>2. e[m + k] = Load(e[(m + k) - 1], b[k])
      BY <1>1, <1>2, <3>1
    <3> QED BY <3>1, <3>2
  <2> HIDE DEF h
  <2> QED BY <2>1, <2>2 DEF Goes, n
<1> QED BY <1>1, <1>2, <1>3, <1>4

(* What holds after k directives, for every k.                             *)
LEMMA GoesThrough ==
  ASSUME NEW X, NEW v, NEW w, NEW ds, Len(ds) \in Nat, Goes(X, v, ds, w),
         NEW S, v \in S[0],
         \A k \in 1..Len(ds) : \A u \in Engine(X) : u \in S[k - 1] => Load(u, ds[k]) \in S[k]
  PROVE  w \in S[Len(ds)]
<1>1. PICK e \in [0..Len(ds) -> Engine(X)] :
        /\ e[0] = v /\ e[Len(ds)] = w
        /\ \A k \in 1..Len(ds) : e[k] = Load(e[k - 1], ds[k])
  BY DEF Goes
<1> DEFINE T == {k \in Nat : k <= Len(ds) => e[k] \in S[k]}
<1>2. 0 \in T
  BY <1>1
<1>3. ASSUME NEW k \in Nat, k \in T PROVE k + 1 \in T
  <2>1. ASSUME k + 1 <= Len(ds) PROVE e[k + 1] \in S[k + 1]
    <3>1. k <= Len(ds) /\ k + 1 \in 1..Len(ds) /\ (k + 1) - 1 = k /\ k \in 0..Len(ds)
      BY <2>1
    <3>2. e[k] \in S[k] /\ e[k] \in Engine(X)
      BY <1>1, <1>3, <3>1
    <3>3. e[k + 1] = Load(e[k], ds[k + 1])
      BY <1>1, <3>1
    <3> QED BY <3>1, <3>2, <3>3
  <2> QED BY <2>1
<1> HIDE DEF T
<1>4. Nat \subseteq T
  BY <1>2, <1>3, Induction
<1>5. Len(ds) \in T
  BY <1>4
<1> QED BY <1>1, <1>5 DEF T

-----------------------------------------------------------------------------
(* The directives of recommended(), one group after the other.             *)
Blocks(options) == Or(options, "anomalyBlock", TRUE)
Tuned(options) ==
  [var \in TuningVars |->
     CASE var = "paranoia" -> Or(options, "paranoia", 1)
       [] var = "inbound"  -> Or(options, "inboundAnomalyThreshold", 5)
       [] var = "outbound" -> Or(options, "outboundAnomalyThreshold", 4)
       [] var = "early_blocking" ->
            IF Blocks(options) THEN Undefined ELSE 0]
Values(options) ==
  {Undefined, 0, Or(options, "paranoia", 1), Or(options, "inboundAnomalyThreshold", 5),
   Or(options, "outboundAnomalyThreshold", 4)}

LEMMA GoesNowhere ==
  ASSUME NEW X, NEW v, NEW w, Goes(X, v, << >>, w)
  PROVE  w = v
BY DEF Goes

LEMMA GoesOnce ==
  ASSUME NEW X, NEW v, NEW w, NEW d, Goes(X, v, <<d>>, w)
  PROVE  w = Load(v, d)
BY DEF Goes

LEMMA PrologueLoads ==
  ASSUME NEW X, NEW v, NEW w, Goes(X, v, Prologue, w)
  PROVE  w = v
<1> DEFINE a == Setup("coraza.conf-recommended")
           b == Setup("crs-setup.conf.example")
<1>1. a.op = "setup" /\ b.op = "setup"
  BY DEF Setup
<1>2. \A u : Load(u, a) = u /\ Load(u, b) = u
  BY <1>1 DEF Load
<1>3. Goes(X, v, <<a, b>>, w)
  BY DEF Prologue
<1> HIDE DEF a, b
<1>4. w = Load(Load(v, a), b)
  BY <1>3 DEF Goes
<1> QED BY <1>2, <1>4

LEMMA SetLoads ==
  ASSUME NEW v, NEW X, v \in Engine(X), NEW var \in TuningVars, NEW x
  PROVE  Load(v, Set(var, x)) = [rules |-> v.rules, tx |-> [v.tx EXCEPT ![var] = x], tuned |-> v.tuned]
<1>1. Set(var, x).op = "set" /\ Set(var, x).var = var /\ Set(var, x).val = x
  BY DEF Set
<1>2. Load(v, Set(var, x)) = LoadAction(v, Set(var, x))
  BY <1>1 DEF Load
<1> QED BY <1>1, <1>2 DEF LoadAction, Engine

LEMMA TuningLoads ==
  ASSUME NEW options, Blocks(options) \in BOOLEAN,
         NEW w, Goes(Values(options), Nothing, Tuning(options), w)
  PROVE  w = [rules |-> {}, tx |-> Tuned(options), tuned |-> Unset]
<1> DEFINE X == Values(options)
           p == Or(options, "paranoia", 1)
           i == Or(options, "inboundAnomalyThreshold", 5)
           o == Or(options, "outboundAnomalyThreshold", 4)
           block == Blocks(options)
           a == Set("paranoia", p)
           b == Set("inbound", i)
           c == Set("outbound", o)
           d == Set("early_blocking", 0)
           rest == IF block THEN << >> ELSE <<d>>
           t == [var \in TuningVars |->
                   CASE var = "paranoia" -> p [] var = "inbound" -> i
                     [] var = "outbound" -> o [] var = "early_blocking" -> Undefined]
<1>1. /\ p \in X /\ i \in X /\ o \in X /\ 0 \in X /\ Undefined \in X
      /\ {"paranoia", "inbound", "outbound", "early_blocking"} = TuningVars
  BY DEF Values, TuningVars
<1>2. {a, b, c, d} \subseteq Directives(X)
  BY <1>1 DEF Directives
<1>3. Tuning(options) = <<a, b, c>> \o rest
  BY DEF Tuning, Blocks
<1>4. Nothing \in Engine(X)
  BY <1>1 DEF Nothing, Unset, Engine
<1>5. Tuned(options) = [t EXCEPT !["early_blocking"] = IF block THEN Undefined ELSE 0]
  BY <1>1 DEF Tuned
<1> HIDE DEF X
<1>6. \A v \in Engine(X) :
        /\ Load(v, a) = [rules |-> v.rules, tx |-> [v.tx EXCEPT !["paranoia"] = p], tuned |-> v.tuned]
        /\ Load(v, b) = [rules |-> v.rules, tx |-> [v.tx EXCEPT !["inbound"] = i], tuned |-> v.tuned]
        /\ Load(v, c) = [rules |-> v.rules, tx |-> [v.tx EXCEPT !["outbound"] = o], tuned |-> v.tuned]
        /\ Load(v, d) = [rules |-> v.rules, tx |-> [v.tx EXCEPT !["early_blocking"] = 0], tuned |-> v.tuned]
  BY <1>1, SetLoads
<1>7. \A v \in Engine(X) : Load(v, a) \in Engine(X) /\ Load(v, b) \in Engine(X) /\ Load(v, c) \in Engine(X)
  BY <1>2, LoadTyped
<1> HIDE DEF a, b, c, d
<1>8. <<a, b, c>> \in Seq(Directives(X)) /\ rest \in Seq(Directives(X))
  <2>1. \A D : {a, b, c, d} \subseteq D => <<a, b, c>> \in Seq(D) /\ <<d>> \in Seq(D) /\ << >> \in Seq(D)
    OBVIOUS
  <2> QED BY <1>2, <2>1
<1> HIDE DEF rest
<1>9. PICK u \in Engine(X) : Goes(X, Nothing, <<a, b, c>>, u) /\ Goes(X, u, rest, w)
  BY <1>3, <1>8, GoesOn DEF X
<1>10. u = Load(Load(Load(Nothing, a), b), c)
  <2> DEFINE ds == <<a, b, c>>
  <2>1. Len(ds) = 3 /\ ds[1] = a /\ ds[2] = b /\ ds[3] = c
    OBVIOUS
  <2>2. Goes(X, Nothing, ds, u)
    BY <1>9
  <2> HIDE DEF ds
  <2>3. PICK e \in [0..3 -> Engine(X)] :
          e[0] = Nothing /\ e[3] = u /\ \A k \in 1..3 : e[k] = Load(e[k - 1], ds[k])
    BY <2>1, <2>2 DEF Goes
  <2>4. e[1] = Load(e[0], a) /\ e[2] = Load(e[1], b) /\ e[3] = Load(e[2], c)
    BY <2>1, <2>3
  <2> QED BY <2>3, <2>4
<1>11. u = [rules |-> {}, tx |-> t, tuned |-> Unset]
  <2> DEFINE v1 == Load(Nothing, a)
             v2 == Load(v1, b)
  <2>1. v1 = [rules |-> {}, tx |-> [Unset EXCEPT !["paranoia"] = p], tuned |-> Unset]
    BY <1>4, <1>6 DEF Nothing
  <2>2. v1 \in Engine(X) /\ v2 \in Engine(X)
    BY <1>4, <1>7
  <2> HIDE DEF v1
  <2>3. v2 = [rules |-> {}, tx |-> [[Unset EXCEPT !["paranoia"] = p] EXCEPT !["inbound"] = i], tuned |-> Unset]
    BY <1>6, <2>1, <2>2
  <2> HIDE DEF v2
  <2>4. u = [rules |-> {},
             tx |-> [[[Unset EXCEPT !["paranoia"] = p] EXCEPT !["inbound"] = i] EXCEPT !["outbound"] = o],
             tuned |-> Unset]
    <3>1. u = Load(v2, c)
      BY <1>10 DEF v1, v2
    <3> QED BY <1>6, <2>2, <2>3, <3>1
  <2>5. [[[Unset EXCEPT !["paranoia"] = p] EXCEPT !["inbound"] = i] EXCEPT !["outbound"] = o] = t
    <3> HIDE DEF p, i, o
    <3> QED BY <1>1 DEF Unset
  <2> QED BY <2>4, <2>5
<1>12. CASE block = TRUE
  <2>1. rest = << >>
    BY <1>12 DEF rest
  <2>2. w = u
    BY <1>9, <2>1, GoesNowhere
  <2>3. Tuned(options) = t
    BY <1>1, <1>5, <1>12
  <2> QED BY <1>11, <2>2, <2>3
<1>13. CASE block = FALSE
  <2>1. rest = <<d>>
    BY <1>13 DEF rest
  <2>2. w = Load(u, d)
    BY <1>9, <2>1, GoesOnce
  <2>3. Tuned(options) = [t EXCEPT !["early_blocking"] = 0]
    BY <1>5, <1>13
  <2> HIDE DEF t
  <2> QED BY <1>6, <1>9, <1>11, <2>2, <2>3
<1> QED BY <1>12, <1>13

(* The files, one number each.                                             *)
LEMMA FilesTyped ==
  /\ CrsFiles \in Seq(Nat) /\ Len(CrsFiles) = 25 /\ CrsFiles[1] = Initialization
  /\ \A k \in 1..25 : CrsFiles[k] \in Nat
  /\ 1..25 = DOMAIN CrsFiles
BY DEF CrsFiles, Initialization

LEMMA PushedFiles ==
  ASSUME NEW skip
  PROVE  /\ Pushed(skip)[Len(CrsFiles)] \in Seq(Pushing)
         /\ \A d : d \in ToSet(Pushed(skip)[Len(CrsFiles)]) <=>
                     \E f \in ToSet(CrsFiles) \ skip : d = Include(f)
<1> DEFINE n == Len(CrsFiles)
           V == Seq(Pushing)
           step(k, v) == Push(v, CrsFiles[k], skip)
           g == [k \in 1..n |-> [v \in V |-> step(k, v)]]
           Pushes(r) == r = [k \in 0..n |->
                         IF k = 0 THEN << >> ELSE Push(r[k - 1], CrsFiles[k], skip)]
           e == Pushed(skip)
<1>1. n \in Nat /\ (\A k \in 1..n : CrsFiles[k] \in Nat) /\ DOMAIN CrsFiles = 1..n
  BY FilesTyped
<1>2. << >> \in V /\ g \in [1..n -> [V -> V]]
  <2>1. \A k \in 1..n : Include(CrsFiles[k]) \in Pushing
    BY <1>1 DEF Pushing
  <2>2. \A k \in 1..n : \A v \in V : step(k, v) \in V
    BY <2>1, AppendProperties DEF Push
  <2> HIDE DEF step, V
  <2>3. g \in [1..n -> [V -> V]]
    BY <2>2
  <2>4. << >> \in V
    BY DEF V
  <2> QED BY <2>3, <2>4
<1>3. \A k \in 1..n : \A v \in V : g[k][v] = step(k, v)
  OBVIOUS
<1>4. e = CHOOSE r : Pushes(r)
  BY DEF Pushed
<1> HIDE DEF n, g, V
<1>5. PICK f : f \in [0..n -> V] /\ RecursTo(n, f, << >>, g)
  BY <1>1, <1>2, FiniteRecursionExists
<1>6. ASSUME NEW k \in 0..n
      PROVE  f[k] = IF k = 0 THEN << >> ELSE Push(f[k - 1], CrsFiles[k], skip)
  <2>1. CASE k = 0
    BY <1>5, <2>1 DEF RecursTo
  <2>2. CASE k # 0
    <3>1. k \in 1..n /\ k - 1 \in 0..n
      BY <1>1, <2>2
    <3>2. f[k] = g[k][f[k - 1]] /\ f[k - 1] \in V
      BY <1>5, <2>2, <3>1 DEF RecursTo
    <3>3. f[k] = step(k, f[k - 1])
      BY <1>3, <3>1, <3>2
    <3> QED BY <2>2, <3>3
  <2> QED BY <2>1, <2>2
<1>7. Pushes(f)
  BY <1>5, <1>6
<1> HIDE DEF e
<1>8. Pushes(e)
  BY <1>4, <1>7
<1>9. e[0] = << >> /\ \A k \in 1..n : e[k] = step(k, e[k - 1])
  <2>1. 0 \in 0..n /\ \A k \in 1..n : k \in 0..n /\ k # 0
    BY <1>1
  <2> QED BY <1>8, <2>1
<1> HIDE DEF Pushes
<1> DEFINE Holds(k) == /\ e[k] \in V
                       /\ \A d : d \in ToSet(e[k]) <=>
                            \E j \in 1..k : CrsFiles[j] \notin skip /\ d = Include(CrsFiles[j])
           T == {k \in Nat : k \in 0..n => Holds(k)}
<1>10. 0 \in T
  <2>1. ToSet(<< >>) = {}
    BY DEF ToSet
  <2> QED BY <1>2, <1>9, <2>1
<1>11. ASSUME NEW k \in Nat, k \in T PROVE k + 1 \in T
  <2>1. ASSUME k + 1 \in 0..n PROVE Holds(k + 1)
    <3>1. k \in 0..n /\ k + 1 \in 1..n /\ (k + 1) - 1 = k
      BY <1>1, <2>1
    <3>2. Holds(k)
      BY <1>11, <3>1
    <3>3. e[k + 1] = step(k + 1, e[k])
      BY <1>9, <3>1
    <3>4. \A j : j \in 1..(k + 1) <=> j \in 1..k \/ j = k + 1
      OBVIOUS
    <3>5. CASE CrsFiles[k + 1] \in skip
      <4>1. e[k + 1] = e[k]
        BY <3>3, <3>5 DEF Push
      <4> QED BY <3>2, <3>4, <3>5, <4>1
    <3>6. CASE CrsFiles[k + 1] \notin skip
      <4> DEFINE s == e[k]
                 x == Include(CrsFiles[k + 1])
      <4>1. s \in Seq(Pushing) /\ x \in Pushing
        BY <1>1, <3>1, <3>2 DEF V, Pushing
      <4>2. e[k + 1] = Append(s, x)
        BY <3>3, <3>6 DEF Push
      <4>3. Append(s, x) \in Seq(Pushing) /\ \A d : d \in ToSet(Append(s, x)) <=> d \in ToSet(s) \/ d = x
        <5> HIDE DEF s, x
        <5>1. /\ Append(s, x) \in Seq(Pushing) /\ Len(Append(s, x)) = Len(s) + 1
              /\ \A j \in 1..Len(s) : Append(s, x)[j] = s[j]
              /\ Append(s, x)[Len(s) + 1] = x /\ Len(s) \in Nat
          BY <4>1, AppendProperties, LenProperties
        <5>2. DOMAIN Append(s, x) = 1..(Len(s) + 1) /\ DOMAIN s = 1..Len(s)
          BY <4>1, <5>1, LenProperties
        <5>3. \A j : j \in 1..(Len(s) + 1) <=> j \in 1..Len(s) \/ j = Len(s) + 1
          BY <5>1
        <5> QED BY <5>1, <5>2, <5>3 DEF ToSet
      <4> HIDE DEF s
      <4>4. \A d : d \in ToSet(s) <=>
              \E j \in 1..k : CrsFiles[j] \notin skip /\ d = Include(CrsFiles[j])
        BY <3>2 DEF s
      <4>5. \A d : d \in ToSet(e[k + 1]) <=>
              \E j \in 1..(k + 1) : CrsFiles[j] \notin skip /\ d = Include(CrsFiles[j])
        BY <3>4, <3>6, <4>2, <4>3, <4>4
      <4> QED BY <4>2, <4>3, <4>5 DEF V
    <3> QED BY <3>5, <3>6
  <2> QED BY <2>1
<1>12. \A k \in Nat : k \in T <=> (k \in 0..n => Holds(k))
  OBVIOUS
<1> HIDE DEF T, Holds
<1>13. Nat \subseteq T
  BY <1>10, <1>11, Induction
<1>14. Holds(n)
  BY <1>1, <1>12, <1>13
<1>15. \A file : file \in ToSet(CrsFiles) <=> \E j \in 1..n : file = CrsFiles[j]
  BY <1>1 DEF ToSet
<1> QED BY <1>14, <1>15 DEF Holds, V, e, n

LEMMA SkippedFiles ==
  ASSUME NEW exclude, NEW outbound
  PROVE  \A f : f \in FilesToSkip(exclude, outbound) <=>
           \/ f = 933 /\ "php" \in exclude
           \/ f = 944 /\ "java" \in exclude
           \/ f = 952 /\ "java" \in outbound
           \/ f = 953 /\ "php" \in outbound
           \/ f = 954 /\ "iis" \in outbound
<1>1. /\ DOMAIN RequestLangFiles = {"php", "java"}
      /\ RequestLangFiles["php"] = 933 /\ RequestLangFiles["java"] = 944
  BY DEF RequestLangFiles
<1>2. /\ DOMAIN ResponseLangFiles = {"java", "php", "iis"}
      /\ ResponseLangFiles["java"] = 952 /\ ResponseLangFiles["php"] = 953
      /\ ResponseLangFiles["iis"] = 954
  BY DEF ResponseLangFiles
<1>3. \A f : f \in FilesOf(exclude, RequestLangFiles) <=>
        \/ f = 933 /\ "php" \in exclude
        \/ f = 944 /\ "java" \in exclude
  <2>1. \A f : f \in FilesOf(exclude, RequestLangFiles) <=>
          \E l \in {"php", "java"} : l \in exclude /\ f = RequestLangFiles[l]
    BY <1>1 DEF FilesOf
  <2> QED BY <1>1, <2>1
<1>4. \A f : f \in FilesOf(outbound, ResponseLangFiles) <=>
        \/ f = 952 /\ "java" \in outbound
        \/ f = 953 /\ "php" \in outbound
        \/ f = 954 /\ "iis" \in outbound
  <2>1. \A f : f \in FilesOf(outbound, ResponseLangFiles) <=>
          \E l \in {"java", "php", "iis"} : l \in outbound /\ f = ResponseLangFiles[l]
    BY <1>2 DEF FilesOf
  <2> QED BY <1>2, <2>1
<1>5. \A f : f \in FilesToSkip(exclude, outbound) <=>
        f \in FilesOf(exclude, RequestLangFiles) \/ f \in FilesOf(outbound, ResponseLangFiles)
  BY DEF FilesToSkip
<1> QED BY <1>3, <1>4, <1>5

Skipped(options) ==
  FilesToSkip(Or(options, "exclude", DefaultExclude), Or(options, "outboundExclude", {}))

LEMMA IncludesLoad ==
  ASSUME NEW options, NEW X, NEW v \in Engine(X), NEW w, Goes(X, v, Includes(options), w)
  PROVE  w = [rules |-> v.rules \cup (ToSet(CrsFiles) \ Skipped(options)),
              tx |-> v.tx, tuned |-> v.tx]
<1> DEFINE ds == Includes(options)
           n == Len(ds)
           Some(k) == \E j \in 1..k : ds[j].file = Initialization
           Fits(k, s) == /\ s \in Engine(X) /\ s.tx = v.tx
                         /\ \A f : f \in s.rules <=> f \in v.rules \/ \E j \in 1..k : f = ds[j].file
                         /\ s.tuned = IF Some(k) THEN v.tx ELSE v.tuned
           S == [k \in 0..n |-> {s \in Engine(X) : Fits(k, s)}]
<1>1. /\ ds \in Seq(Pushing)
      /\ \A d : d \in ToSet(ds) <=> \E f \in ToSet(CrsFiles) \ Skipped(options) : d = Include(f)
  BY PushedFiles DEF Includes, Skipped
<1> HIDE DEF ds
<1>2. /\ n \in Nat /\ DOMAIN ds = 1..n
      /\ \A k \in 1..n : ds[k].op = "include" /\ ds[k].file \in Nat /\ ds[k] = Include(ds[k].file)
  <2>1. n \in Nat /\ DOMAIN ds = 1..n /\ \A k \in 1..n : ds[k] \in Pushing
    BY <1>1, LenProperties, ElementOfSeq
  <2> QED BY <2>1 DEF Pushing, Include
<1>3. \A k \in 1..n : ds[k] \in Directives(X)
  BY <1>2 DEF Directives, Pushing
<1> HIDE DEF n
<1>4. v \in S[0]
  BY <1>2
<1>5. ASSUME NEW k \in 1..n, NEW u \in Engine(X), u \in S[k - 1]
      PROVE  Load(u, ds[k]) \in S[k]
  <2> DEFINE s == Load(u, ds[k])
  <2>1. k - 1 \in 0..n /\ k \in 0..n /\ \A j : j \in 1..k <=> j \in 1..(k - 1) \/ j = k
    BY <1>2
  <2>2. Fits(k - 1, u)
    BY <1>5, <2>1
  <2>3. s = LoadFile(u, ds[k])
    BY <1>2 DEF Load
  <2>4. s \in Engine(X)
    BY <1>3, LoadTyped
  <2>5. s = [rules |-> u.rules \cup {ds[k].file}, tx |-> u.tx,
             tuned |-> IF ds[k].file = Initialization THEN u.tx ELSE u.tuned]
    BY <2>3 DEF LoadFile, Engine
  <2> HIDE DEF s
  <2>6. s.tx = v.tx
    BY <2>2, <2>5
  <2>7. \A f : f \in s.rules <=> f \in v.rules \/ \E j \in 1..k : f = ds[j].file
    BY <2>1, <2>2, <2>5
  <2>8. s.tuned = IF Some(k) THEN v.tx ELSE v.tuned
    <3>1. Some(k) <=> Some(k - 1) \/ ds[k].file = Initialization
      BY <2>1
    <3>2. u.tuned = (IF Some(k - 1) THEN v.tx ELSE v.tuned) /\ u.tx = v.tx
      BY <2>2
    <3> HIDE DEF Some
    <3> QED BY <2>5, <3>1, <3>2
  <2>9. Fits(k, s)
    BY <2>4, <2>6, <2>7, <2>8
  <2> QED BY <2>1, <2>4, <2>9 DEF s
<1> HIDE DEF S
<1>6. w \in S[n]
  BY <1>2, <1>4, <1>5, GoesThrough DEF n, ds
<1>7. Fits(n, w)
  BY <1>2, <1>6 DEF S
<1> HIDE DEF Fits, Some
<1>8. \A f : (\E j \in 1..n : f = ds[j].file) <=> f \in ToSet(CrsFiles) \ Skipped(options)
  <2>1. \A d : d \in ToSet(ds) <=> \E j \in 1..n : d = ds[j]
    BY <1>2 DEF ToSet
  <2>2. \A f : Include(f).file = f
    BY DEF Include
  <2>3. ASSUME NEW f, NEW j \in 1..n, f = ds[j].file
        PROVE  f \in ToSet(CrsFiles) \ Skipped(options)
    <3>1. PICK g \in ToSet(CrsFiles) \ Skipped(options) : ds[j] = Include(g)
      BY <1>1, <2>1
    <3> QED BY <2>2, <2>3, <3>1
  <2>4. ASSUME NEW f \in ToSet(CrsFiles) \ Skipped(options)
        PROVE  \E j \in 1..n : f = ds[j].file
    BY <1>1, <2>1, <2>2
  <2> QED BY <2>3, <2>4
<1>9. Some(n)
  <2>1. Initialization \in ToSet(CrsFiles)
    BY FilesTyped DEF ToSet
  <2>2. Initialization \notin Skipped(options)
    BY SkippedFiles DEF Skipped, Initialization
  <2> QED BY <1>8, <2>1, <2>2 DEF Some
<1>10. /\ w \in Engine(X) /\ w.tx = v.tx /\ w.tuned = v.tx
       /\ \A f : f \in w.rules <=> f \in v.rules \/ f \in ToSet(CrsFiles) \ Skipped(options)
  BY <1>7, <1>8, <1>9 DEF Fits
<1>11. w.rules = v.rules \cup (ToSet(CrsFiles) \ Skipped(options))
  BY <1>10
<1> QED BY <1>10, <1>11 DEF Engine

Outside(f, cat) == f < CategoryRanges[cat][1] \/ f > CategoryRanges[cat][2]

LEMMA RemovalsLoad ==
  ASSUME NEW options, NEW cats \in Seq(CrsCategory), cats = Or(options, "excludeCategories", << >>),
         NEW X, NEW v \in Engine(X), NEW w, Goes(X, v, Removals(options), w)
  PROVE  w = [rules |-> {f \in v.rules : \A cat \in ToSet(cats) : Outside(f, cat)},
              tx |-> v.tx, tuned |-> v.tuned]
<1> DEFINE ds == Removals(options)
           n == Len(cats)
           Fits(k, s) == /\ s \in Engine(X) /\ s.tx = v.tx /\ s.tuned = v.tuned
                         /\ \A f : f \in s.rules <=> f \in v.rules /\ \A j \in 1..k : Outside(f, cats[j])
           S == [k \in 0..n |-> {s \in Engine(X) : Fits(k, s)}]
<1>1. n \in Nat /\ DOMAIN cats = 1..n /\ \A k \in 1..n : cats[k] \in CrsCategory
  BY LenProperties, ElementOfSeq
<1>2. ds = [k \in 1..n |-> RemoveBy(cats[k])]
  BY <1>1 DEF Removals
<1>3. Len(ds) = n /\ \A k \in 1..n : ds[k] = RemoveBy(cats[k])
  BY <1>1, <1>2
<1> HIDE DEF ds, n
<1>4. v \in S[0]
  BY <1>1
<1>5. ASSUME NEW k \in 1..n, NEW u \in Engine(X), u \in S[k - 1]
      PROVE  Load(u, ds[k]) \in S[k]
  <2> DEFINE s == Load(u, ds[k])
  <2>1. k - 1 \in 0..n /\ k \in 0..n /\ \A j : j \in 1..k <=> j \in 1..(k - 1) \/ j = k
    BY <1>1
  <2>2. Fits(k - 1, u)
    BY <1>5, <2>1
  <2>3. ds[k].op = "remove" /\ ds[k].range = CategoryRanges[cats[k]]
    BY <1>3 DEF RemoveBy
  <2>4. s = RemoveById(u, ds[k])
    BY <2>3 DEF Load
  <2>5. s = [rules |-> {f \in u.rules : Outside(f, cats[k])}, tx |-> u.tx, tuned |-> u.tuned]
    BY <2>3, <2>4 DEF RemoveById, Engine, Outside
  <2>6. s \in Engine(X)
    BY <2>5 DEF Engine
  <2> HIDE DEF s
  <2>7. \A f : f \in s.rules <=> f \in v.rules /\ \A j \in 1..k : Outside(f, cats[j])
    BY <2>1, <2>2, <2>5
  <2>8. s.tx = v.tx /\ s.tuned = v.tuned
    BY <2>2, <2>5
  <2>9. Fits(k, s)
    BY <2>6, <2>7, <2>8
  <2> QED BY <2>1, <2>6, <2>9 DEF s
<1> HIDE DEF S
<1>6. w \in S[n]
  BY <1>1, <1>3, <1>4, <1>5, GoesThrough DEF ds
<1>7. Fits(n, w)
  BY <1>1, <1>6 DEF S
<1>8. \A f : (\A j \in 1..n : Outside(f, cats[j])) <=> \A cat \in ToSet(cats) : Outside(f, cat)
  BY <1>1 DEF ToSet
<1>9. w.rules = {f \in v.rules : \A cat \in ToSet(cats) : Outside(f, cat)}
  BY <1>7, <1>8
<1> QED BY <1>7, <1>9 DEF Engine

LEMMA ExtraLoads ==
  ASSUME NEW options, NEW X, NEW v, NEW w, Goes(X, v, Extra(options), w)
  PROVE  w = v
<1> DEFINE d == [op |-> "extra"]
<1>1. Load(v, d) = v
  BY DEF Load
<1>2. Extra(options) = << >> \/ Extra(options) = <<d>>
  BY DEF Extra
<1> HIDE DEF d
<1> QED BY <1>1, <1>2, GoesNowhere, GoesOnce

-----------------------------------------------------------------------------
(* The options of the caller over those of a profile.                      *)
LEMMA Joined ==
  ASSUME NEW profile, NEW o, NEW name, NEW default
  PROVE  Or(Spread(profile, o), name, default) =
           IF name \in DOMAIN o THEN (IF o[name] = Undefined THEN default ELSE o[name])
           ELSE Or(profile, name, default)
<1> DEFINE options == Spread(profile, o)
<1>1. /\ name \in DOMAIN options <=> name \in DOMAIN profile \/ name \in DOMAIN o
      /\ name \in DOMAIN o => options[name] = o[name]
      /\ name \in DOMAIN profile \ DOMAIN o => options[name] = profile[name]
  BY DEF Spread
<1> HIDE DEF options
<1>2. Or(options, name, default) =
        IF name \in DOMAIN o THEN (IF o[name] = Undefined THEN default ELSE o[name])
        ELSE Or(profile, name, default)
  BY <1>1 DEF Or
<1> QED BY <1>2 DEF options

Presets == {"paranoia", "inboundAnomalyThreshold", "outboundAnomalyThreshold", "anomalyBlock"}

LEMMA ProfilesSay ==
  ASSUME NEW p \in DOMAIN Profiles, NEW P, P = Profiles[p]
  PROVE  /\ DOMAIN P \subseteq Presets
         /\ Or(P, "paranoia", 1) = IF p = "strict" THEN 2 ELSE 1
         /\ Or(P, "inboundAnomalyThreshold", 5) =
              IF p = "strict" THEN 3 ELSE IF p = "permissive" THEN 10 ELSE 5
         /\ Or(P, "outboundAnomalyThreshold", 4) = IF p = "permissive" THEN 8 ELSE 4
         /\ Blocks(P) \in BOOLEAN /\ (Blocks(P) = FALSE <=> p = "permissive")
<1>1. p \in {"recommended", "balanced", "strict", "permissive"}
  BY DEF Profiles
<1>2. Undefined \notin {1, 2, 3, 8, 10, TRUE, FALSE}
  <2>1. {1, 2, 3, 8, 10} \subseteq Nat /\ TRUE \in BOOLEAN /\ FALSE \in BOOLEAN
    OBVIOUS
  <2> QED BY <2>1, UndefinedAssumption
<1>3. CASE p = "recommended"
  <2>1. DOMAIN P = {}
    BY <1>3 DEF Profiles
  <2> QED BY <1>3, <2>1 DEF Or, Blocks, Presets
<1>4. CASE p = "balanced"
  <2>1. DOMAIN P = {"paranoia"} /\ P["paranoia"] = 1
    BY <1>4 DEF Profiles
  <2> QED BY <1>2, <1>4, <2>1 DEF Or, Blocks, Presets
<1>5. CASE p = "strict"
  <2>1. /\ DOMAIN P = {"paranoia", "inboundAnomalyThreshold"}
        /\ P["paranoia"] = 2 /\ P["inboundAnomalyThreshold"] = 3
    BY <1>5 DEF Profiles
  <2> QED BY <1>2, <1>5, <2>1 DEF Or, Blocks, Presets
<1>6. CASE p = "permissive"
  <2>1. /\ DOMAIN P = Presets
        /\ P["paranoia"] = 1 /\ P["inboundAnomalyThreshold"] = 10
        /\ P["outboundAnomalyThreshold"] = 8 /\ P["anomalyBlock"] = FALSE
    BY <1>6 DEF Profiles, Presets
  <2> QED BY <1>2, <1>6, <2>1 DEF Or, Blocks, Presets
<1> QED BY <1>1, <1>3, <1>4, <1>5, <1>6

LEMMA NotPreset ==
  ASSUME NEW p \in DOMAIN Profiles, NEW o, NEW options, options = Spread(Profiles[p], o),
         NEW name, name \notin Presets, NEW default
  PROVE  Or(options, name, default) = Or(o, name, default)
<1>1. name \notin DOMAIN Profiles[p]
  BY ProfilesSay
<1>2. Or(Profiles[p], name, default) = default
  BY <1>1 DEF Or
<1>3. Or(options, name, default) =
        IF name \in DOMAIN o THEN (IF o[name] = Undefined THEN default ELSE o[name]) ELSE default
  BY <1>2, Joined
<1> QED BY <1>3 DEF Or

LEMMA BlocksAsAsked ==
  ASSUME NEW p \in DOMAIN Profiles, NEW o \in Overrides,
         NEW options, options = Spread(Profiles[p], o)
  PROVE  /\ Blocks(options) \in BOOLEAN
         /\ Blocks(options) = FALSE <=>
              IF "anomalyBlock" \in DOMAIN o THEN o.anomalyBlock = FALSE ELSE p = "permissive"
<1> DEFINE given == o["anomalyBlock"]
           mine == Blocks(Profiles[p])
<1>1. "anomalyBlock" \in DOMAIN o =>
        Blocks(options) = IF given = Undefined THEN TRUE ELSE given
  <2>1. ASSUME NEW default, "anomalyBlock" \in DOMAIN o
        PROVE  Or(options, "anomalyBlock", default) = IF given = Undefined THEN default ELSE given
    BY <2>1, Joined
  <2> HIDE DEF given
  <2> QED BY <2>1 DEF Blocks
<1>2. "anomalyBlock" \notin DOMAIN o => Blocks(options) = mine
  <2>1. ASSUME NEW default, "anomalyBlock" \notin DOMAIN o
        PROVE  Or(options, "anomalyBlock", default) = Or(Profiles[p], "anomalyBlock", default)
    BY <2>1, Joined
  <2> QED BY <2>1 DEF Blocks
<1>3. mine \in BOOLEAN /\ (mine = FALSE <=> p = "permissive")
  BY ProfilesSay
<1>4. "anomalyBlock" \in DOMAIN o => given \in BOOLEAN \cup {Undefined}
  BY OverridesAssumption
<1> HIDE DEF mine
<1>5. Undefined # FALSE
  BY UndefinedAssumption
<1>6. CASE "anomalyBlock" \in DOMAIN o
  BY <1>1, <1>4, <1>5, <1>6
<1>7. CASE "anomalyBlock" \notin DOMAIN o
  BY <1>2, <1>3, <1>7
<1> QED BY <1>6, <1>7

LEMMA CategoriesTyped ==
  ASSUME NEW o \in Overrides
  PROVE  Or(o, "excludeCategories", << >>) \in Seq(CrsCategory)
<1>1. << >> \in Seq(CrsCategory)
  OBVIOUS
<1>2. "excludeCategories" \in DOMAIN o =>
        o["excludeCategories"] = Undefined \/ o["excludeCategories"] \in Seq(CrsCategory)
  BY OverridesAssumption
<1> QED BY <1>1, <1>2 DEF Or

(* What loading the configuration leaves of the rule set.                  *)
LEMMA WhatIsLoaded ==
  ASSUME NEW p \in DOMAIN Profiles, NEW o \in Overrides,
         NEW options, options = Spread(Profiles[p], o),
         NEW cats, cats = Or(o, "excludeCategories", << >>)
  PROVE  Loaded(p, o) =
           [rules |-> {f \in ToSet(CrsFiles) \ Skipped(options) :
                         \A cat \in ToSet(cats) : Outside(f, cat)},
            tx |-> Tuned(options), tuned |-> Tuned(options)]
<1> DEFINE X == Values(options)
           D == Directives(X)
           ds == Recommended(options)
           a == Prologue
           b == Tuning(options)
           c == Includes(options)
           d == Removals(options)
           e == Extra(options)
<1>1. /\ Blocks(options) \in BOOLEAN
      /\ cats \in Seq(CrsCategory) /\ cats = Or(options, "excludeCategories", << >>)
  <2>1. "excludeCategories" \notin Presets
    BY DEF Presets
  <2>2. Or(options, "excludeCategories", << >>) = Or(o, "excludeCategories", << >>)
    BY <2>1, NotPreset
  <2>3. Blocks(options) \in BOOLEAN
    BY BlocksAsAsked
  <2> QED BY <2>2, <2>3, CategoriesTyped
<1>2. a \in Seq(D)
  <2>1. /\ Setup("coraza.conf-recommended") \in D /\ Setup("crs-setup.conf.example") \in D
    BY DEF Directives
  <2> HIDE DEF D
  <2> QED BY <2>1 DEF Prologue
<1>3. b \in Seq(D)
  <2> DEFINE s1 == Set("paranoia", Or(options, "paranoia", 1))
             s2 == Set("inbound", Or(options, "inboundAnomalyThreshold", 5))
             s3 == Set("outbound", Or(options, "outboundAnomalyThreshold", 4))
             s4 == Set("early_blocking", 0)
             rest == IF Blocks(options) THEN << >> ELSE <<s4>>
  <2>1. s1 \in D /\ s2 \in D /\ s3 \in D /\ s4 \in D
    BY DEF Directives, Values, TuningVars
  <2>2. b = <<s1, s2, s3>> \o rest
    BY DEF Tuning, Blocks
  <2> HIDE DEF D, s1, s2, s3, s4
  <2>3. <<s1, s2, s3>> \in Seq(D) /\ << >> \in Seq(D) /\ <<s4>> \in Seq(D)
    BY <2>1
  <2>4. rest \in Seq(D)
    BY <1>1, <2>3
  <2> HIDE DEF rest, b
  <2> QED BY <2>2, <2>3, <2>4, ConcatProperties
<1>4. c \in Seq(D)
  <2>1. c \in Seq(Pushing)
    BY PushedFiles DEF Includes
  <2>2. Pushing \subseteq D
    BY DEF Directives
  <2> HIDE DEF c, D
  <2>3. c \in [1..Len(c) -> Pushing] /\ Len(c) \in Nat
    BY <2>1, LenProperties
  <2>4. c \in [1..Len(c) -> D]
    BY <2>2, <2>3
  <2> QED BY <2>3, <2>4, SeqDef
<1>5. d \in Seq(D)
  <2>1. Len(cats) \in Nat /\ DOMAIN cats = 1..Len(cats) /\ \A k \in 1..Len(cats) : cats[k] \in CrsCategory
    BY <1>1, LenProperties, ElementOfSeq
  <2>2. d = [k \in 1..Len(cats) |-> RemoveBy(cats[k])]
    BY <1>1, <2>1 DEF Removals
  <2>3. \A k \in 1..Len(cats) : RemoveBy(cats[k]) \in D
    BY <2>1 DEF Directives
  <2> HIDE DEF d, D
  <2>4. d \in [1..Len(cats) -> D]
    BY <2>2, <2>3
  <2> QED BY <2>1, <2>4, SeqDef
<1>6. e \in Seq(D)
  <2>1. [op |-> "extra"] \in D
    BY DEF Directives
  <2> HIDE DEF D
  <2>2. << >> \in Seq(D) /\ \A x \in D : <<x>> \in Seq(D)
    OBVIOUS
  <2>3. e = << >> \/ e = <<[op |-> "extra"]>>
    BY DEF Extra
  <2> HIDE DEF e
  <2> QED BY <2>1, <2>2, <2>3
<1>7. ds = (((a \o b) \o c) \o d) \o e
  BY DEF Recommended
<1>8. Loaded(p, o) = Loading(ds)[Len(ds)]
  BY DEF Loaded
<1>9. Undefined \in X
  BY DEF Values
<1> HIDE DEF X, D, ds, a, b, c, d, e
<1>10. /\ a \o b \in Seq(D) /\ (a \o b) \o c \in Seq(D) /\ ((a \o b) \o c) \o d \in Seq(D)
       /\ ds \in Seq(D)
  BY <1>2, <1>3, <1>4, <1>5, <1>6, <1>7, ConcatProperties
<1>11. Goes(X, Nothing, ds, Loaded(p, o))
  BY <1>8, <1>9, <1>10, LoadingGoes DEF D
<1>12. PICK v4 \in Engine(X) : Goes(X, Nothing, ((a \o b) \o c) \o d, v4) /\ Goes(X, v4, e, Loaded(p, o))
  BY <1>6, <1>7, <1>10, <1>11, GoesOn DEF D
<1>13. PICK v3 \in Engine(X) : Goes(X, Nothing, (a \o b) \o c, v3) /\ Goes(X, v3, d, v4)
  BY <1>5, <1>10, <1>12, GoesOn DEF D
<1>14. PICK v2 \in Engine(X) : Goes(X, Nothing, a \o b, v2) /\ Goes(X, v2, c, v3)
  BY <1>4, <1>10, <1>13, GoesOn DEF D
<1>15. PICK v1 \in Engine(X) : Goes(X, Nothing, a, v1) /\ Goes(X, v1, b, v2)
  BY <1>2, <1>3, <1>14, GoesOn DEF D
<1>16. v1 = Nothing
  BY <1>15, PrologueLoads DEF a
<1>17. v2 = [rules |-> {}, tx |-> Tuned(options), tuned |-> Unset]
  <2>1. Goes(Values(options), Nothing, Tuning(options), v2)
    BY <1>15, <1>16 DEF b, X
  <2> QED BY <1>1, <2>1, TuningLoads
<1>18. v3 = [rules |-> v2.rules \cup (ToSet(CrsFiles) \ Skipped(options)), tx |-> v2.tx, tuned |-> v2.tx]
  BY <1>14, IncludesLoad DEF c
<1>19. v4 = [rules |-> {f \in v3.rules : \A cat \in ToSet(cats) : Outside(f, cat)},
             tx |-> v3.tx, tuned |-> v3.tuned]
  BY <1>1, <1>13, RemovalsLoad DEF d
<1>20. Loaded(p, o) = v4
  BY <1>12, ExtraLoads DEF e
<1> QED BY <1>17, <1>18, <1>19, <1>20

LEMMA RangesHold ==
  /\ \A cat \in CrsCategory :
       LET lo == CategoryRanges[cat][1]
           hi == CategoryRanges[cat][2]
       IN lo \in Nat /\ hi \in Nat /\ 910 <= lo /\ lo <= hi
  /\ CategoryRanges["scanner-detection"] = <<910, 913>>
  /\ CategoryRanges["dos-protection"] = <<912, 912>>
  /\ CategoryRanges["protocol-attacks"] = <<920, 921>>
BY DEF CategoryRanges, CrsCategory

LEMMA LanguagesDropped == LanguagesAreDropped
<1> SUFFICES ASSUME NEW p \in DOMAIN Profiles, NEW o \in Overrides,
                    Or(o, "excludeCategories", << >>) = << >>, NEW f \in ToSet(CrsFiles)
             PROVE  f \notin Loaded(p, o).rules <=>
                      \/ f = 933 /\ "php" \in Or(o, "exclude", {"php", "java"})
                      \/ f = 944 /\ "java" \in Or(o, "exclude", {"php", "java"})
                      \/ f = 952 /\ "java" \in Or(o, "outboundExclude", {})
                      \/ f = 953 /\ "php" \in Or(o, "outboundExclude", {})
                      \/ f = 954 /\ "iis" \in Or(o, "outboundExclude", {})
  BY DEF LanguagesAreDropped
<1> DEFINE options == Spread(Profiles[p], o)
<1>1. Loaded(p, o).rules = {g \in ToSet(CrsFiles) \ Skipped(options) :
                              \A cat \in ToSet(<< >>) : Outside(g, cat)}
  BY WhatIsLoaded
<1>2. ToSet(<< >>) = {}
  BY DEF ToSet
<1>3. f \notin Loaded(p, o).rules <=> f \in Skipped(options)
  BY <1>1, <1>2
<1>4. /\ Or(options, "exclude", DefaultExclude) = Or(o, "exclude", DefaultExclude)
      /\ Or(options, "outboundExclude", {}) = Or(o, "outboundExclude", {})
  <2>1. "exclude" \notin Presets /\ "outboundExclude" \notin Presets
    BY DEF Presets
  <2> QED BY <2>1, NotPreset
<1> HIDE DEF options
<1>5. \A l \in {"php", "java"} :
        l \in Or(o, "exclude", DefaultExclude) <=> l \in Or(o, "exclude", {"php", "java"})
  BY DEF Or, DefaultExclude
<1>6. f \in Skipped(options) <=>
        \/ f = 933 /\ "php" \in Or(o, "exclude", DefaultExclude)
        \/ f = 944 /\ "java" \in Or(o, "exclude", DefaultExclude)
        \/ f = 952 /\ "java" \in Or(o, "outboundExclude", {})
        \/ f = 953 /\ "php" \in Or(o, "outboundExclude", {})
        \/ f = 954 /\ "iis" \in Or(o, "outboundExclude", {})
  BY <1>4, SkippedFiles DEF Skipped
<1> QED BY <1>3, <1>5, <1>6

LEMMA CategoriesDropped == CategoriesAreDropped
<1> SUFFICES ASSUME NEW p \in DOMAIN Profiles, NEW o \in Overrides,
                    NEW cat \in ToSet(Or(o, "excludeCategories", << >>)),
                    NEW f \in Named(cat), f \in Loaded(p, o).rules
             PROVE  FALSE
  BY DEF CategoriesAreDropped
<1> DEFINE cats == Or(o, "excludeCategories", << >>)
<1>1. Outside(f, cat)
  BY WhatIsLoaded
<1>2. cat \in CrsCategory
  <2>1. cats \in Seq(CrsCategory)
    BY CategoriesTyped
  <2> HIDE DEF cats
  <2>2. \A k \in DOMAIN cats : cats[k] \in CrsCategory
    BY <2>1, LenProperties, ElementOfSeq
  <2> QED BY <2>2 DEF ToSet, cats
<1>3. \/ cat = "scanner-detection" /\ f = 913
      \/ cat = "dos-protection" /\ f = 912
      \/ cat = "protocol-attacks" /\ f = 921
      \/ f = CategoryRanges[cat][1]
  BY DEF Named
<1> QED BY <1>1, <1>2, <1>3, RangesHold DEF Outside

LEMMA TuningReaches == TuningReachesTheRules
<1> SUFFICES ASSUME NEW p \in DOMAIN Profiles, NEW o \in Overrides
             PROVE  LET engine == Loaded(p, o)
                        tuned  == engine.tuned
                        Level(name, var, default) ==
                          IF name \in DOMAIN o
                          THEN tuned[var] = (IF o[name] = Undefined THEN default ELSE o[name])
                          ELSE CASE p = "strict" /\ var = "paranoia" -> tuned[var] = 2
                                 [] p = "strict" /\ var = "inbound" -> tuned[var] < 5
                                 [] p = "permissive" /\ var # "paranoia" -> tuned[var] > default
                                 [] OTHER -> tuned[var] = default
                    IN /\ Initialization \in engine.rules
                       /\ \A var \in TuningVars \ {"early_blocking"} : tuned[var] # Undefined
                       /\ Level("paranoia", "paranoia", 1)
                       /\ Level("inboundAnomalyThreshold", "inbound", 5)
                       /\ Level("outboundAnomalyThreshold", "outbound", 4)
                       /\ tuned["early_blocking"] # Undefined <=>
                            IF "anomalyBlock" \in DOMAIN o
                            THEN o.anomalyBlock = FALSE ELSE p = "permissive"
  BY DEF TuningReachesTheRules
<1> DEFINE options == Spread(Profiles[p], o)
           P == Profiles[p]
           tuned == Loaded(p, o).tuned
           given(name, default) == IF o[name] = Undefined THEN default ELSE o[name]
           cats == Or(o, "excludeCategories", << >>)
<1>1. /\ tuned = Tuned(options)
      /\ Loaded(p, o).rules = {f \in ToSet(CrsFiles) \ Skipped(options) :
                                 \A cat \in ToSet(cats) : Outside(f, cat)}
  BY WhatIsLoaded
<1>2. Initialization \in Loaded(p, o).rules
  <2>1. Initialization \in ToSet(CrsFiles)
    BY FilesTyped DEF ToSet
  <2>2. Initialization \notin Skipped(options)
    BY SkippedFiles DEF Skipped, Initialization
  <2>3. ASSUME NEW cat \in ToSet(cats) PROVE Outside(Initialization, cat)
    <3>1. cats \in Seq(CrsCategory)
      BY CategoriesTyped
    <3> HIDE DEF cats
    <3>2. cat \in CrsCategory
      BY <3>1, LenProperties, ElementOfSeq DEF ToSet
    <3> QED BY <3>2, RangesHold DEF Outside, Initialization
  <2> QED BY <1>1, <2>1, <2>2, <2>3
<1>3. /\ tuned["paranoia"] = Or(options, "paranoia", 1)
      /\ tuned["inbound"] = Or(options, "inboundAnomalyThreshold", 5)
      /\ tuned["outbound"] = Or(options, "outboundAnomalyThreshold", 4)
      /\ tuned["early_blocking"] = IF Blocks(options) THEN Undefined ELSE 0
  BY <1>1 DEF Tuned, TuningVars
<1>4. \A name, default :
        Or(options, name, default) = IF name \in DOMAIN o THEN given(name, default) ELSE Or(P, name, default)
  BY Joined
<1>5. /\ Blocks(options) \in BOOLEAN
      /\ Blocks(options) = FALSE <=>
           IF "anomalyBlock" \in DOMAIN o THEN o.anomalyBlock = FALSE ELSE p = "permissive"
  BY BlocksAsAsked
<1>6. /\ Or(P, "paranoia", 1) = IF p = "strict" THEN 2 ELSE 1
      /\ Or(P, "inboundAnomalyThreshold", 5) =
           IF p = "strict" THEN 3 ELSE IF p = "permissive" THEN 10 ELSE 5
      /\ Or(P, "outboundAnomalyThreshold", 4) = IF p = "permissive" THEN 8 ELSE 4
  BY ProfilesSay
<1> HIDE DEF options, P, tuned
<1>7. \A n \in {0, 1, 2, 3, 4, 5, 8, 10} : n # Undefined
  BY UndefinedAssumption
<1>8. /\ tuned["paranoia"] = IF "paranoia" \in DOMAIN o THEN given("paranoia", 1)
                             ELSE IF p = "strict" THEN 2 ELSE 1
      /\ tuned["inbound"] = IF "inboundAnomalyThreshold" \in DOMAIN o
                            THEN given("inboundAnomalyThreshold", 5)
                            ELSE IF p = "strict" THEN 3 ELSE IF p = "permissive" THEN 10 ELSE 5
      /\ tuned["outbound"] = IF "outboundAnomalyThreshold" \in DOMAIN o
                             THEN given("outboundAnomalyThreshold", 4)
                             ELSE IF p = "permissive" THEN 8 ELSE 4
  <2> HIDE DEF given
  <2> QED BY <1>3, <1>4, <1>6
<1>9. \A var \in TuningVars \ {"early_blocking"} : tuned[var] # Undefined
  BY <1>7, <1>8 DEF TuningVars
<1>10. tuned["early_blocking"] # Undefined <=> Blocks(options) = FALSE
  BY <1>3, <1>5, <1>7
<1> QED BY <1>2, <1>5, <1>8, <1>9, <1>10 DEF tuned

(* For every profile and whatever options a caller passes over it: any     *)
(* languages, any sequence of categories and any levels.                   *)
THEOREM RulesAreExact == AllAsAsked
BY LanguagesDropped, CategoriesDropped, TuningReaches DEF AllAsAsked

(* ... and so for a pool that create() returns, at any time.               *)
THEOREM RulesAreAlwaysAsAsked == Spec => []RulesAreAsAsked
<1>1. RulesAreAsAsked
  BY RulesAreExact DEF RulesAreAsAsked
<1> QED BY <1>1, PTL

-----------------------------------------------------------------------------
(***************************************************************************)
(* The binary of a pool: numbers and their digits.                         *)
(***************************************************************************)
LEMMA Divided ==
  ASSUME NEW v \in Nat
  PROVE  /\ v \div Base \in Nat /\ v % Base \in 0 .. Base - 1
         /\ v = (v % Base) + Base * (v \div Base)
<1>1. v \div Base \in Nat
  BY WidthAssumption
<1>2. v % Base \in 0 .. Base - 1
  BY WidthAssumption
<1>3. v = (v % Base) + Base * (v \div Base)
  BY WidthAssumption
<1> QED BY <1>1, <1>2, <1>3

LEMMA DividedSmaller ==
  ASSUME NEW v \in Nat
  PROVE  /\ v # 0 => v \div Base < v
         /\ v = 0 => v \div Base = 0
         /\ v \div Base = 0 => v % Base = v
<1>1. v # 0 => v \div Base < v
  BY Divided, WidthAssumption
<1>2. v = 0 => v \div Base = 0
  BY WidthAssumption
<1>3. v \div Base = 0 => v % Base = v
  BY WidthAssumption
<1> QED BY <1>1, <1>2, <1>3

LEMMA RestGiven ==
  ASSUME NEW value \in Nat
  PROVE  /\ Rest(value)[0] = value
         /\ \A k \in Nat : /\ Rest(value)[k] \in Nat
                           /\ Rest(value)[k + 1] = Rest(value)[k] \div Base
<1> DEFINE g == [v \in Nat |-> v \div Base]
           Left(r) == r = [k \in Nat |-> IF k = 0 THEN value ELSE r[k - 1] \div Base]
<1>1. g \in [Nat -> Nat] /\ \A v \in Nat : g[v] = v \div Base
  BY Divided
<1>2. Rest(value) = CHOOSE r : Left(r)
  BY DEF Rest
<1> HIDE DEF g
<1>3. PICK f : f \in [Nat -> Nat] /\ Repeats(f, value, g)
  BY <1>1, RepetitionExists
<1>4. \A k \in Nat : f[k] = IF k = 0 THEN value ELSE f[k - 1] \div Base
  <2>1. ASSUME NEW k \in Nat, k # 0 PROVE f[k] = f[k - 1] \div Base
    <3>1. k - 1 \in Nat /\ f[k] = g[f[k - 1]]
      BY <1>3, <2>1 DEF Repeats
    <3> QED BY <1>1, <1>3, <3>1
  <2>2. f[0] = value
    BY <1>3 DEF Repeats
  <2> QED BY <2>1, <2>2
<1>5. Left(f)
  BY <1>3, <1>4
<1> DEFINE r == Rest(value)
<1>6. Left(r)
  BY <1>2, <1>5
<1>7. \A k \in Nat : r[k] = IF k = 0 THEN value ELSE r[k - 1] \div Base
  BY <1>6
<1> HIDE DEF r, Left
<1>8. r[0] = value /\ \A k \in Nat : r[k + 1] = r[k] \div Base
  <2>1. ASSUME NEW k \in Nat PROVE r[k + 1] = r[k] \div Base
    <3>1. k + 1 \in Nat /\ k + 1 # 0 /\ (k + 1) - 1 = k
      OBVIOUS
    <3> QED BY <1>7, <3>1
  <2> QED BY <1>7, <2>1
<1>9. \A k \in Nat : r[k] \in Nat
  <2>1. \A k \in Nat : r[k] \in Nat => r[k + 1] \in Nat
    BY <1>8, Divided
  <2> QED BY <1>8, <2>1, EveryValue
<1> QED BY <1>8, <1>9 DEF r

Needs(value, n) ==
  Rest(value)[n] = 0 /\ \A k \in 1 .. n - 1 : Rest(value)[k] # 0

LEMMA DigitsNeeded ==
  ASSUME NEW value \in Nat
  PROVE  \E n \in 1 .. value + 1 : Needs(value, n)
<1> DEFINE r == Rest(value)
           T == {k \in Nat : r[k] = 0 \/ r[k] + k <= value}
           E == {k \in Nat : k # 0 /\ r[k] = 0}
<1>1. /\ r[0] = value
      /\ \A k \in Nat : r[k] \in Nat /\ r[k + 1] = r[k] \div Base
  BY RestGiven
<1> HIDE DEF r
<1>2. 0 \in T
  BY <1>1
<1>3. ASSUME NEW k \in Nat, k \in T PROVE k + 1 \in T
  <2>1. r[k] = 0 => r[k + 1] = 0
    BY <1>1, DividedSmaller
  <2>2. r[k] # 0 => r[k + 1] < r[k] /\ r[k + 1] \in Nat
    BY <1>1, DividedSmaller
  <2>3. r[k] # 0 => r[k + 1] + (k + 1) <= value
    BY <1>1, <1>3, <2>2
  <2> QED BY <2>1, <2>3
<1>4. value + 1 \in T
  <2> HIDE DEF T
  <2>1. Nat \subseteq T
    BY <1>2, <1>3, Induction
  <2> QED BY <2>1
<1>5. value + 1 \in E
  BY <1>1, <1>4
<1>6. E \subseteq Nat /\ E # {}
  BY <1>5
<1>7. PICK n \in E : \A k \in E : n <= k
  <2> HIDE DEF E
  <2> QED BY <1>6, LeastNumber
<1>8. n \in 1 .. value + 1
  BY <1>5, <1>7
<1>9. \A k \in 1 .. n - 1 : r[k] # 0
  BY <1>7
<1> QED BY <1>7, <1>8, <1>9 DEF Needs, r

LEMMA DigitsGiven ==
  ASSUME NEW value \in Nat, NEW pad \in Nat
  PROVE  Digits(value, pad) \in Nat \ {0} /\ Rest(value)[Digits(value, pad)] = 0
<1> DEFINE needed == CHOOSE n \in 1 .. value + 1 : Needs(value, n)
<1>1. needed \in 1 .. value + 1 /\ Needs(value, needed)
  BY DigitsNeeded
<1>2. Digits(value, pad) = IF pad > needed THEN pad ELSE needed
  BY DEF Digits, Needs
<1> HIDE DEF needed
<1> DEFINE r == Rest(value)
           T == {k \in Nat : k >= needed => r[k] = 0}
<1>3. \A k \in Nat : r[k] \in Nat /\ r[k + 1] = r[k] \div Base
  BY RestGiven
<1>4. r[needed] = 0
  BY <1>1 DEF Needs
<1> HIDE DEF r
<1>5. 0 \in T
  BY <1>1
<1>6. ASSUME NEW k \in Nat, k \in T PROVE k + 1 \in T
  <2>1. r[k] = 0 => r[k + 1] = 0
    BY <1>3, DividedSmaller
  <2>2. k + 1 >= needed => k >= needed \/ k + 1 = needed
    BY <1>1
  <2> QED BY <1>4, <1>6, <2>1, <2>2
<1>7. \A k \in Nat : k >= needed => r[k] = 0
  <2> HIDE DEF T
  <2>1. Nat \subseteq T
    BY <1>5, <1>6, Induction
  <2> QED BY <2>1 DEF T
<1>8. Digits(value, pad) \in Nat \ {0} /\ Digits(value, pad) >= needed
  BY <1>1, <1>2
<1> QED BY <1>7, <1>8 DEF r

(* What is written is one digit after the other, and without padding.      *)
LEMMA WritesUnpadded ==
  ASSUME NEW value \in Nat
  PROVE  WriteULEB(value) = ULEB(value, 1)
<1> DEFINE needed == CHOOSE n \in 1 .. value + 1 : Needs(value, n)
<1>1. needed \in 1 .. value + 1 /\ Needs(value, needed)
  BY DigitsNeeded
<1>2. Digits(value, 1) = IF 1 > needed THEN 1 ELSE needed
  BY DEF Digits, Needs
<1>3. WriteULEB(value) = [k \in 1 .. needed |->
        Digit(value, k) + (IF Rest(value)[k] # 0 THEN Base ELSE 0)]
  BY DEF WriteULEB, Needs
<1> HIDE DEF needed
<1>4. Digits(value, 1) = needed
  BY <1>1, <1>2
<1>5. \A k \in 1 .. needed : Rest(value)[k] # 0 <=> k < needed
  BY <1>1 DEF Needs
<1>6. ULEB(value, 1) = [k \in 1 .. needed |->
        Digit(value, k) + (IF k < needed THEN Base ELSE 0)]
  BY <1>4 DEF ULEB
<1> QED BY <1>3, <1>5, <1>6

LEMMA DigitsTyped ==
  ASSUME NEW value \in Nat, NEW pad \in Nat
  PROVE  /\ ULEB(value, pad) \in Seq(Byte) /\ Len(ULEB(value, pad)) = Digits(value, pad)
         /\ \A k \in 1 .. Digits(value, pad) :
              /\ Digit(value, k) \in 0 .. Base - 1
              /\ ULEB(value, pad)[k] =
                   Digit(value, k) + (IF k < Digits(value, pad) THEN Base ELSE 0)
<1> DEFINE n == Digits(value, pad)
           u == ULEB(value, pad)
<1>1. n \in Nat
  BY DigitsGiven
<1>2. u = [k \in 1 .. n |-> Digit(value, k) + (IF k < n THEN Base ELSE 0)]
  BY DEF ULEB
<1> HIDE DEF n, u
<1>3. ASSUME NEW k \in 1 .. n PROVE Digit(value, k) \in 0 .. Base - 1
  <2>1. k - 1 \in Nat
    BY <1>1
  <2>2. Rest(value)[k - 1] \in Nat
    BY <2>1, RestGiven
  <2> QED BY <2>2, Divided DEF Digit
<1>4. \A k \in 1 .. n : Digit(value, k) + (IF k < n THEN Base ELSE 0) \in Byte
  BY <1>3, WidthAssumption DEF Byte
<1>5. u \in [1 .. n -> Byte]
  BY <1>2, <1>4
<1>6. u \in Seq(Byte) /\ Len(u) = n
  BY <1>1, <1>5, SequenceOf
<1> QED BY <1>2, <1>3, <1>6 DEF n, u

LEMMA BytesTyped ==
  ASSUME NEW wasm \in Seq(Byte), NEW i \in Nat
  PROVE  /\ At(wasm, i) \in Byte /\ At(wasm, i) \in Nat /\ At(wasm, i) % Base \in Nat
         /\ i >= Len(wasm) => At(wasm, i) = 0
<1>1. Len(wasm) \in Nat /\ \A k \in 1 .. Len(wasm) : wasm[k] \in Byte
  BY LenProperties, ElementOfSeq
<1>2. i < Len(wasm) => i + 1 \in 1 .. Len(wasm)
  BY <1>1
<1>3. 0 \in Byte /\ Byte \subseteq Nat
  BY WidthAssumption DEF Byte
<1>4. At(wasm, i) \in Byte
  BY <1>1, <1>2, <1>3 DEF At
<1>5. At(wasm, i) \in Nat
  BY <1>3, <1>4
<1>6. At(wasm, i) % Base \in Nat
  <2>1. At(wasm, i) % Base \in 0 .. Base - 1
    BY <1>5, Divided
  <2> QED BY <2>1, WidthAssumption
<1>7. i >= Len(wasm) => At(wasm, i) = 0
  BY <1>1 DEF At
<1> QED BY <1>4, <1>5, <1>6, <1>7

(* What the reader does with any bytes: the number whose digits end with   *)
(* the byte at last.                                                       *)
Sums(wasm, last, i, f) ==
  f = [k \in 0 .. last - i |->
         (At(wasm, last - k) % Base) + (IF k = 0 THEN 0 ELSE Base * f[k - 1])]

LEMMA NumberSummed ==
  ASSUME NEW wasm \in Seq(Byte), NEW i \in Nat, NEW n \in Nat
  PROVE  /\ \E f : Sums(wasm, i + n, i, f)
         /\ \A f : Sums(wasm, i + n, i, f) => \A k \in 0 .. n : f[k] \in Nat
<1> DEFINE last == i + n
           d == [k \in 0 .. n |-> At(wasm, last - k) % Base]
           g == [k \in 1 .. n |-> [v \in Nat |-> d[k] + Base * v]]
<1>1. last - i = n
  OBVIOUS
<1>2. \A k \in 0 .. n : d[k] = At(wasm, last - k) % Base /\ d[k] \in Nat
  <2>1. \A k \in 0 .. n : last - k \in Nat
    OBVIOUS
  <2> HIDE DEF last
  <2> QED BY <2>1, BytesTyped
<1> HIDE DEF d, last
<1>3. 0 \in 0 .. n /\ \A k \in 1 .. n : k \in 0 .. n /\ k - 1 \in 0 .. n /\ k # 0
  OBVIOUS
<1>4. \A k \in 0 .. n : \A v \in Nat : d[k] + Base * v \in Nat
  BY <1>2, WidthAssumption
<1>5. g \in [1 .. n -> [Nat -> Nat]] /\ \A k \in 1 .. n : \A v \in Nat : g[k][v] = d[k] + Base * v
  BY <1>3, <1>4
<1>6. d[0] \in Nat
  BY <1>2, <1>3
<1> HIDE DEF g
<1>7. \E f : Sums(wasm, last, i, f)
  <2>1. PICK f : f \in [0 .. n -> Nat] /\ RecursTo(n, f, d[0], g)
    BY <1>5, <1>6, FiniteRecursionExists
  <2>2. f[0] = d[0] /\ \A k \in 1 .. n : f[k] = g[k][f[k - 1]] /\ f[k - 1] \in Nat
    BY <1>3, <2>1 DEF RecursTo
  <2>3. ASSUME NEW k \in 1 .. n
        PROVE  f[k] = (At(wasm, last - k) % Base) + Base * f[k - 1]
    <3>1. f[k] = g[k][f[k - 1]] /\ f[k - 1] \in Nat
      BY <2>2
    <3>2. f[k] = d[k] + Base * f[k - 1]
      BY <1>5, <3>1
    <3>3. d[k] = At(wasm, last - k) % Base
      BY <1>2, <1>3
    <3> QED BY <3>2, <3>3
  <2>4. f[0] = (At(wasm, last - 0) % Base) + 0
    BY <1>2, <1>3, <2>2
  <2>5. \A k \in 0 .. n : k # 0 => k \in 1 .. n
    OBVIOUS
  <2>6. \A k \in 0 .. n :
          f[k] = (At(wasm, last - k) % Base) + (IF k = 0 THEN 0 ELSE Base * f[k - 1])
    BY <2>3, <2>4, <2>5
  <2> QED BY <1>1, <2>1, <2>6 DEF Sums
<1>8. ASSUME NEW f, Sums(wasm, last, i, f)
      PROVE  \A k \in 0 .. n : f[k] \in Nat
  <2> DEFINE T == {k \in Nat : k \in 0 .. n => f[k] \in Nat}
  <2>1. \A k \in 0 .. n :
          f[k] = (At(wasm, last - k) % Base) + (IF k = 0 THEN 0 ELSE Base * f[k - 1])
    BY <1>1, <1>8 DEF Sums
  <2>2. 0 \in T
    BY <1>2, <1>3, <2>1
  <2>3. ASSUME NEW k \in Nat, k \in T PROVE k + 1 \in T
    <3>1. ASSUME k + 1 \in 0 .. n PROVE f[k + 1] \in Nat
      <4>1. k \in 0 .. n /\ k + 1 # 0 /\ (k + 1) - 1 = k
        BY <3>1
      <4>2. f[k + 1] = d[k + 1] + Base * f[k]
        BY <1>2, <2>1, <3>1, <4>1
      <4> QED BY <1>4, <2>3, <3>1, <4>1, <4>2
    <3> QED BY <3>1
  <2> HIDE DEF T
  <2>4. Nat \subseteq T
    BY <2>2, <2>3, Induction
  <2> QED BY <2>4 DEF T
<1> QED BY <1>7, <1>8 DEF last

LEMMA NumberRead ==
  ASSUME NEW wasm \in Seq(Byte), NEW i \in Nat
  PROVE  \E n \in Nat : \E f :
           /\ Ends(wasm, i, i + n)
           /\ \A k \in 0 .. n :
                /\ f[k] \in Nat
                /\ f[k] = (At(wasm, (i + n) - k) % Base) + (IF k = 0 THEN 0 ELSE Base * f[k - 1])
           /\ ReadULEB(wasm, i) = [value |-> f[n], after |-> i + n + 1]
<1> DEFINE last == CHOOSE k \in i .. i + Len(wasm) : Ends(wasm, i, k)
           E == {k \in Nat : k >= i /\ At(wasm, k) < Base}
           f == CHOOSE x : Sums(wasm, last, i, x)
           n == last - i
<1>1. ReadULEB(wasm, i) = [value |-> f[last - i], after |-> last + 1]
  BY DEF ReadULEB, Sums
<1>2. Len(wasm) \in Nat
  BY LenProperties
<1>3. i + Len(wasm) \in E
  <2>1. i + Len(wasm) \in Nat /\ i + Len(wasm) >= Len(wasm) /\ i + Len(wasm) >= i
    BY <1>2
  <2>2. At(wasm, i + Len(wasm)) = 0
    BY <2>1, BytesTyped
  <2> QED BY <2>1, <2>2, WidthAssumption
<1>4. E \subseteq Nat /\ E # {}
  BY <1>3
<1>5. PICK m \in E : \A k \in E : m <= k
  <2> HIDE DEF E
  <2> QED BY <1>4, LeastNumber
<1>6. m \in i .. i + Len(wasm)
  BY <1>2, <1>3, <1>5
<1>7. ASSUME NEW k \in i .. m - 1 PROVE At(wasm, k) >= Base
  <2>1. k \in Nat /\ k >= i /\ ~ (m <= k)
    BY <1>6, <1>2
  <2>2. ~ (At(wasm, k) < Base)
    BY <1>5, <2>1
  <2>3. At(wasm, k) \in Nat
    BY <2>1, BytesTyped
  <2> QED BY <2>2, <2>3, WidthAssumption
<1>8. Ends(wasm, i, m)
  BY <1>5, <1>7 DEF Ends
<1>9. last \in i .. i + Len(wasm) /\ Ends(wasm, i, last)
  BY <1>6, <1>8
<1> HIDE DEF last, f
<1>10. n \in Nat /\ i + n = last
  BY <1>2, <1>9
<1> HIDE DEF n
<1>11. Sums(wasm, i + n, i, f)
  <2>1. \E x : Sums(wasm, i + n, i, x)
    BY <1>10, NumberSummed
  <2> QED BY <1>10, <2>1 DEF f
<1>12. \A k \in 0 .. n : f[k] \in Nat
  BY <1>10, <1>11, NumberSummed
<1>13. (i + n) - i = n
  BY <1>10
<1>14. \A k \in 0 .. n :
         f[k] = (At(wasm, (i + n) - k) % Base) + (IF k = 0 THEN 0 ELSE Base * f[k - 1])
  <2>1. f = [k \in 0 .. n |->
              (At(wasm, (i + n) - k) % Base) + (IF k = 0 THEN 0 ELSE Base * f[k - 1])]
    BY <1>10, <1>11, <1>13 DEF Sums
  <2> QED BY <2>1
<1>15. ReadULEB(wasm, i) = [value |-> f[n], after |-> i + n + 1]
  BY <1>1, <1>10 DEF n
<1> QED BY <1>9, <1>10, <1>12, <1>14, <1>15

LEMMA NumberTyped ==
  ASSUME NEW wasm \in Seq(Byte), NEW i \in Nat
  PROVE  /\ ReadULEB(wasm, i).value \in Nat
         /\ ReadULEB(wasm, i).after \in Nat /\ ReadULEB(wasm, i).after > i
<1>4. PICK n \in Nat : \E f :
        /\ Ends(wasm, i, i + n)
        /\ \A k \in 0 .. n :
             /\ f[k] \in Nat
             /\ f[k] = (At(wasm, (i + n) - k) % Base) + (IF k = 0 THEN 0 ELSE Base * f[k - 1])
        /\ ReadULEB(wasm, i) = [value |-> f[n], after |-> i + n + 1]
  BY NumberRead
<1>1. PICK f :
        /\ \A k \in 0 .. n : f[k] \in Nat
        /\ ReadULEB(wasm, i) = [value |-> f[n], after |-> i + n + 1]
  BY <1>4
<1>2. n \in 0 .. n
  OBVIOUS
<1>3. i + n + 1 \in Nat /\ i + n + 1 > i
  OBVIOUS
<1> QED BY <1>1, <1>2, <1>3

(* A number is read back where it lies.                                    *)
LEMMA NumberReadBack ==
  ASSUME NEW value \in Nat, NEW pad \in Nat, NEW wasm \in Seq(Byte), NEW i \in Nat,
         Lies(wasm, i, ULEB(value, pad))
  PROVE  ReadULEB(wasm, i) = [value |-> value, after |-> i + Len(ULEB(value, pad))]
<1> DEFINE n == Digits(value, pad)
           u == ULEB(value, pad)
           r == Rest(value)
<1>1. n \in Nat \ {0} /\ r[n] = 0
  BY DigitsGiven
<1>2. Len(u) = n /\ \A k \in 1 .. n : /\ Digit(value, k) \in 0 .. Base - 1
                                      /\ u[k] = Digit(value, k) + (IF k < n THEN Base ELSE 0)
  BY DigitsTyped
<1>3. r[0] = value /\ \A k \in Nat : r[k] \in Nat /\ r[k + 1] = r[k] \div Base
  BY RestGiven
<1>4. \A k \in 1 .. n : Digit(value, k) = r[k - 1] % Base
  BY DEF Digit
<1>5. Len(wasm) \in Nat
  BY LenProperties
<1>6. i + n <= Len(wasm) /\ \A k \in 1 .. n : wasm[i + k] = u[k]
  BY <1>2 DEF Lies
<1> HIDE DEF n, u, r
<1>7. ASSUME NEW k \in 0 .. n - 1
      PROVE  /\ At(wasm, i + k) = Digit(value, k + 1) + (IF k + 1 < n THEN Base ELSE 0)
             /\ Digit(value, k + 1) \in 0 .. Base - 1
             /\ Digit(value, k + 1) = r[k] % Base
  <2>1. k + 1 \in 1 .. n /\ i + k < Len(wasm) /\ i + k + 1 = i + (k + 1) /\ (k + 1) - 1 = k
    BY <1>1, <1>5, <1>6
  <2>2. At(wasm, i + k) = wasm[i + (k + 1)]
    BY <2>1 DEF At
  <2> QED BY <1>2, <1>4, <1>6, <2>1, <2>2
<1>8. PICK m \in Nat : \E f :
        /\ Ends(wasm, i, i + m)
        /\ \A k \in 0 .. m :
             /\ f[k] \in Nat
             /\ f[k] = (At(wasm, (i + m) - k) % Base) + (IF k = 0 THEN 0 ELSE Base * f[k - 1])
        /\ ReadULEB(wasm, i) = [value |-> f[m], after |-> i + m + 1]
  BY NumberRead
<1>15. PICK f :
        /\ Ends(wasm, i, i + m)
        /\ \A k \in 0 .. m :
             /\ f[k] \in Nat
             /\ f[k] = (At(wasm, (i + m) - k) % Base) + (IF k = 0 THEN 0 ELSE Base * f[k - 1])
        /\ ReadULEB(wasm, i) = [value |-> f[m], after |-> i + m + 1]
  BY <1>8
<1>9. m = n - 1
  <2>1. m + 1 >= n
    <3>1. SUFFICES ASSUME m + 1 < n PROVE FALSE
      BY <1>1
    <3>2. m \in 0 .. n - 1
      BY <1>1, <3>1
    <3>3. At(wasm, i + m) = Digit(value, m + 1) + Base
      BY <1>7, <3>1, <3>2
    <3>4. At(wasm, i + m) < Base
      BY <1>15 DEF Ends
    <3> QED BY <1>7, <3>2, <3>3, <3>4, WidthAssumption
  <2>2. m + 1 <= n
    <3>1. SUFFICES ASSUME m > n - 1 PROVE FALSE
      BY <1>1
    <3>2. n - 1 \in 0 .. n - 1 /\ (n - 1) + 1 = n /\ ~ (n < n)
      BY <1>1
    <3>3. At(wasm, i + (n - 1)) = Digit(value, n) + 0
      BY <1>7, <3>2
    <3>4. i + (n - 1) \in i .. (i + m) - 1
      BY <1>1, <3>1
    <3>5. At(wasm, i + (n - 1)) >= Base
      BY <1>15, <3>4 DEF Ends
    <3> QED BY <1>7, <3>2, <3>3, <3>5, WidthAssumption
  <2> QED BY <1>1, <2>1, <2>2
<1>10. ASSUME NEW k \in 0 .. m
       PROVE  At(wasm, (i + m) - k) % Base = r[m - k] % Base
  <2> DEFINE j == m - k
             c == Digit(value, j + 1)
  <2>1. j \in 0 .. n - 1 /\ i + j = (i + m) - k
    BY <1>1, <1>9
  <2> HIDE DEF j
  <2>2. At(wasm, i + j) = c + (IF j + 1 < n THEN Base ELSE 0) /\ c = r[j] % Base
    BY <1>7, <2>1
  <2>3. c \in Nat /\ c < Base
    BY <1>7, <2>1, WidthAssumption
  <2> HIDE DEF c
  <2>4. (c + 0) % Base = c
    BY <2>3, WidthAssumption
  <2>5. (c + Base) % Base = c
    BY <2>3, WidthAssumption
  <2>6. At(wasm, i + j) % Base = c
    BY <2>2, <2>4, <2>5
  <2> QED BY <2>1, <2>2, <2>6 DEF j
<1> DEFINE T == {k \in Nat : k \in 0 .. m => f[k] = r[m - k]}
<1>11. 0 \in T
  <2>1. 0 \in 0 .. m /\ m + 1 = n /\ m - 0 = m /\ (i + m) - 0 = i + m
    BY <1>1, <1>9
  <2>2. f[0] = (r[m] % Base) + 0
    <3>1. f[0] = (At(wasm, (i + m) - 0) % Base) + 0
      BY <1>15, <2>1
    <3>2. At(wasm, (i + m) - 0) % Base = r[m - 0] % Base
      BY <1>10, <2>1
    <3> QED BY <2>1, <3>1, <3>2
  <2>3. r[m] \in Nat /\ r[m] \div Base = 0
    BY <1>1, <1>3, <2>1
  <2>4. r[m] % Base = r[m]
    BY <2>3, DividedSmaller
  <2> QED BY <2>1, <2>2, <2>3, <2>4
<1>12. ASSUME NEW k \in Nat, k \in T PROVE k + 1 \in T
  <2>1. ASSUME k + 1 \in 0 .. m PROVE f[k + 1] = r[m - (k + 1)]
    <3> DEFINE j == m - (k + 1)
    <3>1. k \in 0 .. m /\ k + 1 # 0 /\ (k + 1) - 1 = k /\ j \in Nat /\ j + 1 = m - k
      BY <2>1
    <3>2. f[k + 1] = (At(wasm, (i + m) - (k + 1)) % Base) + Base * f[k]
      BY <1>15, <2>1, <3>1
    <3>3. At(wasm, (i + m) - (k + 1)) % Base = r[j] % Base
      BY <1>10, <2>1
    <3> HIDE DEF j
    <3>4. f[k] = r[j] \div Base
      BY <1>3, <1>12, <3>1
    <3>5. r[j] = (r[j] % Base) + Base * (r[j] \div Base)
      BY <1>3, <3>1, Divided
    <3> QED BY <3>2, <3>3, <3>4, <3>5 DEF j
  <2> QED BY <2>1
<1>13. f[m] = value
  <2>1. m \in 0 .. m /\ m - m = 0
    OBVIOUS
  <2>2. Nat \subseteq T
    <3> HIDE DEF T
    <3> QED BY <1>11, <1>12, Induction
  <2> QED BY <1>3, <2>1, <2>2
<1>14. i + m + 1 = i + n
  BY <1>1, <1>9
<1> QED BY <1>2, <1>15, <1>13, <1>14 DEF u

-----------------------------------------------------------------------------
(***************************************************************************)
(* Sections.                                                               *)
(***************************************************************************)
Size(s) == ULEB(Len(Content(s)), s.sizePad)

LEMMA BytesAre ==
  /\ 0 \in Byte /\ 1 \in Byte /\ SectionMemory \in Byte /\ Byte \subseteq Nat
  /\ \A b \in Byte : <<b>> \in Seq(Byte) /\ Len(<<b>>) = 1
<1>1. 0 \in Byte /\ 1 \in Byte /\ Byte \subseteq Nat
  BY WidthAssumption DEF Byte
<1>2. \A b \in Byte : <<b>> \in Seq(Byte) /\ Len(<<b>>) = 1
  OBVIOUS
<1> QED BY <1>1, <1>2, ModulesAssumption

LEMMA BytesJoin == \A a, b, c \in Seq(Byte) : (a \o b) \o c = a \o (b \o c)
BY ConcatAssociative

LEMMA LimitsTyped ==
  ASSUME NEW s \in OneMemory
  PROVE  Limits(s) \in Seq(Byte)
<1>1. s.flags \in Byte /\ s.min \in Nat /\ s.minPad \in Nat /\ s.max \in Nat /\ s.maxPad \in Nat
  BY DEF OneMemory
<1>2. <<s.flags>> \in Seq(Byte)
  BY <1>1
<1>3. ULEB(s.min, s.minPad) \in Seq(Byte) /\ ULEB(s.max, s.maxPad) \in Seq(Byte)
  BY <1>1, DigitsTyped
<1>4. << >> \in Seq(Byte)
  BY EmptySeq
<1>5. <<s.flags>> \o ULEB(s.min, s.minPad) \in Seq(Byte)
  BY <1>2, <1>3, ConcatProperties
<1>6. (IF HasMax(s.flags) THEN ULEB(s.max, s.maxPad) ELSE << >>) \in Seq(Byte)
  BY <1>3, <1>4
<1> QED BY <1>5, <1>6, ConcatProperties DEF Limits

LEMMA ContentTyped ==
  ASSUME NEW s \in Section
  PROVE  /\ Content(s) \in Seq(Byte) /\ Len(Content(s)) \in Nat
         /\ Id(s) \in Byte /\ s.sizePad \in Nat
         /\ s.kind = "other" => Id(s) # SectionMemory
         /\ s.kind # "other" => Id(s) = SectionMemory
<1>1. CASE s \in OneMemory
  <2>1. s.kind = "memory" /\ s.countPad \in Nat /\ s.sizePad \in Nat
    BY <1>1 DEF OneMemory
  <2>2. Content(s) = ULEB(1, s.countPad) \o Limits(s)
    BY <2>1 DEF Content
  <2>3. ULEB(1, s.countPad) \in Seq(Byte) /\ Limits(s) \in Seq(Byte)
    BY <1>1, <2>1, DigitsTyped, LimitsTyped
  <2>4. Content(s) \in Seq(Byte)
    BY <2>2, <2>3, ConcatProperties
  <2> QED BY <2>1, <2>4, LenProperties, BytesAre DEF Id
<1>2. CASE s \in Memories
  <2>1. s.kind = "memories" /\ s.count \in Nat /\ s.countPad \in Nat /\ s.sizePad \in Nat
        /\ s.content \in Seq(Byte)
    BY <1>2 DEF Memories
  <2>2. Content(s) = ULEB(s.count, s.countPad) \o s.content
    BY <2>1 DEF Content
  <2>3. ULEB(s.count, s.countPad) \in Seq(Byte)
    BY <2>1, DigitsTyped
  <2>4. Content(s) \in Seq(Byte)
    BY <2>1, <2>2, <2>3, ConcatProperties
  <2> QED BY <2>1, <2>4, LenProperties, BytesAre DEF Id
<1>3. CASE s \in OtherSection
  <2>1. s.kind = "other" /\ s.id \in Byte /\ s.id # SectionMemory /\ s.sizePad \in Nat
        /\ s.content \in Seq(Byte)
    BY <1>3 DEF OtherSection
  <2>2. Content(s) = s.content
    BY <2>1 DEF Content
  <2> QED BY <2>1, <2>2, LenProperties DEF Id
<1> QED BY <1>1, <1>2, <1>3 DEF Section

LEMMA SectionTyped ==
  ASSUME NEW s \in Section
  PROVE  /\ Size(s) \in Seq(Byte) /\ Len(Size(s)) \in Nat
         /\ EncodeSection(s) = <<Id(s)>> \o (Size(s) \o Content(s))
         /\ EncodeSection(s) \in Seq(Byte)
         /\ Len(EncodeSection(s)) = 1 + Len(Size(s)) + Len(Content(s))
<1>1. <<Id(s)>> \in Seq(Byte) /\ Len(<<Id(s)>>) = 1 /\ Content(s) \in Seq(Byte)
  BY ContentTyped
<1>2. Size(s) \in Seq(Byte) /\ Len(Size(s)) \in Nat
  BY ContentTyped, DigitsTyped, LenProperties DEF Size
<1>3. EncodeSection(s) = (<<Id(s)>> \o Size(s)) \o Content(s)
  BY DEF EncodeSection, Size
<1>4. EncodeSection(s) = <<Id(s)>> \o (Size(s) \o Content(s))
  BY <1>1, <1>2, <1>3, ConcatAssociative
<1>5. /\ Size(s) \o Content(s) \in Seq(Byte)
      /\ Len(Size(s) \o Content(s)) = Len(Size(s)) + Len(Content(s))
  BY <1>1, <1>2, ConcatProperties
<1>6. /\ <<Id(s)>> \o (Size(s) \o Content(s)) \in Seq(Byte)
      /\ Len(<<Id(s)>> \o (Size(s) \o Content(s))) = 1 + (Len(Size(s)) + Len(Content(s)))
  BY <1>1, <1>5, ConcatProperties
<1>7. Len(Content(s)) \in Nat
  BY ContentTyped
<1> QED BY <1>2, <1>4, <1>6, <1>7

LEMMA SectionReadBack ==
  ASSUME NEW s \in Section, NEW wasm \in Seq(Byte), NEW i \in Nat,
         Lies(wasm, i, EncodeSection(s))
  PROVE  /\ SectionAt(wasm, i) = [id |-> Id(s), at |-> i, start |-> i + 1 + Len(Size(s)),
                                  end |-> i + Len(EncodeSection(s))]
         /\ Lies(wasm, i + 1 + Len(Size(s)), Content(s))
<1>1. /\ <<Id(s)>> \in Seq(Byte) /\ Len(<<Id(s)>>) = 1
      /\ Content(s) \in Seq(Byte) /\ Len(Content(s)) \in Nat /\ s.sizePad \in Nat
  BY ContentTyped
<1>2. Size(s) \in Seq(Byte) /\ Len(Size(s)) \in Nat /\ Size(s) \o Content(s) \in Seq(Byte)
  BY <1>1, SectionTyped, ConcatProperties
<1>3. Len(wasm) \in Nat
  BY LenProperties
<1>4. Lies(wasm, i, <<Id(s)>> \o (Size(s) \o Content(s)))
  BY SectionTyped
<1>5. Lies(wasm, i, <<Id(s)>>) /\ Lies(wasm, i + Len(<<Id(s)>>), Size(s) \o Content(s))
  BY <1>1, <1>2, <1>3, <1>4, LiesApart
<1>6. i + 1 \in Nat /\ Lies(wasm, i + 1, Size(s) \o Content(s))
  BY <1>1, <1>5
<1>7. Lies(wasm, i + 1, Size(s)) /\ Lies(wasm, i + 1 + Len(Size(s)), Content(s))
  BY <1>1, <1>2, <1>3, <1>6, LiesApart
<1>8. ReadULEB(wasm, i + 1) = [value |-> Len(Content(s)), after |-> i + 1 + Len(Size(s))]
  BY <1>1, <1>6, <1>7, NumberReadBack DEF Size
<1>9. At(wasm, i) = Id(s)
  <2>1. i + 1 <= Len(wasm) /\ wasm[i + 1] = <<Id(s)>>[1]
    BY <1>1, <1>5 DEF Lies
  <2>2. i < Len(wasm)
    BY <1>3, <2>1
  <2> QED BY <2>1, <2>2 DEF At
<1>10. i + 1 + Len(Size(s)) + Len(Content(s)) = i + Len(EncodeSection(s))
  <2>1. Len(EncodeSection(s)) = 1 + Len(Size(s)) + Len(Content(s))
    BY SectionTyped
  <2> QED BY <1>1, <1>2, <2>1
<1>11. SectionAt(wasm, i) = [id |-> Id(s), at |-> i, start |-> i + 1 + Len(Size(s)),
                             end |-> i + 1 + Len(Size(s)) + Len(Content(s))]
  <2> DEFINE size == ReadULEB(wasm, i + 1)
  <2>1. SectionAt(wasm, i) = [id |-> At(wasm, i), at |-> i, start |-> size.after,
                              end |-> size.after + size.value]
    BY DEF SectionAt
  <2>2. size.value = Len(Content(s)) /\ size.after = i + 1 + Len(Size(s))
    BY <1>8
  <2> HIDE DEF size
  <2> QED BY <1>9, <2>1, <2>2
<1> QED BY <1>7, <1>10, <1>11

-----------------------------------------------------------------------------
(***************************************************************************)
(* The walk over the sections.                                             *)
(***************************************************************************)
LEMMA SectionEnds ==
  ASSUME NEW wasm \in Seq(Byte), NEW i \in Nat
  PROVE  SectionAt(wasm, i).end \in Nat /\ SectionAt(wasm, i).end > i
<1>1. i + 1 \in Nat
  OBVIOUS
<1> DEFINE size == ReadULEB(wasm, i + 1)
<1>2. size.value \in Nat /\ size.after \in Nat /\ size.after > i + 1
  BY <1>1, NumberTyped
<1>3. SectionAt(wasm, i).end = size.after + size.value
  BY DEF SectionAt
<1> HIDE DEF size
<1> QED BY <1>2, <1>3

LEMMA PositionsGiven ==
  ASSUME NEW wasm \in Seq(Byte)
  PROVE  /\ Positions(wasm)[0] = 0
         /\ \A k \in Nat :
              /\ Positions(wasm)[k] \in Nat /\ Positions(wasm)[k] >= k
              /\ Positions(wasm)[k + 1] = SectionAt(wasm, Positions(wasm)[k]).end
<1> DEFINE g == [i \in Nat |-> SectionAt(wasm, i).end]
           Walks(r) == r = [k \in Nat |-> IF k = 0 THEN 0 ELSE SectionAt(wasm, r[k - 1]).end]
<1>1. g \in [Nat -> Nat] /\ \A i \in Nat : g[i] = SectionAt(wasm, i).end
  BY SectionEnds
<1>2. Positions(wasm) = CHOOSE r : Walks(r)
  BY DEF Positions
<1> HIDE DEF g
<1>3. PICK f : f \in [Nat -> Nat] /\ Repeats(f, 0, g)
  BY <1>1, RepetitionExists
<1>4. \A k \in Nat : f[k] = IF k = 0 THEN 0 ELSE SectionAt(wasm, f[k - 1]).end
  <2>1. ASSUME NEW k \in Nat, k # 0 PROVE f[k] = SectionAt(wasm, f[k - 1]).end
    <3>1. k - 1 \in Nat /\ f[k] = g[f[k - 1]]
      BY <1>3, <2>1 DEF Repeats
    <3> QED BY <1>1, <1>3, <3>1
  <2>2. f[0] = 0
    BY <1>3 DEF Repeats
  <2> QED BY <2>1, <2>2
<1>5. Walks(f)
  BY <1>3, <1>4
<1> DEFINE r == Positions(wasm)
<1>6. Walks(r)
  BY <1>2, <1>5
<1>7. \A k \in Nat : r[k] = IF k = 0 THEN 0 ELSE SectionAt(wasm, r[k - 1]).end
  BY <1>6
<1> HIDE DEF r, Walks
<1>8. r[0] = 0 /\ \A k \in Nat : r[k + 1] = SectionAt(wasm, r[k]).end
  <2>1. ASSUME NEW k \in Nat PROVE r[k + 1] = SectionAt(wasm, r[k]).end
    <3>1. k + 1 \in Nat /\ k + 1 # 0 /\ (k + 1) - 1 = k
      OBVIOUS
    <3> QED BY <1>7, <3>1
  <2> QED BY <1>7, <2>1
<1> DEFINE T == {k \in Nat : r[k] \in Nat /\ r[k] >= k}
<1>9. 0 \in T
  BY <1>8
<1>10. ASSUME NEW k \in Nat, k \in T PROVE k + 1 \in T
  <2>1. r[k + 1] \in Nat /\ r[k + 1] > r[k] /\ r[k] \in Nat /\ r[k] >= k
    BY <1>8, <1>10, SectionEnds
  <2> QED BY <2>1
<1>11. \A k \in Nat : r[k] \in Nat /\ r[k] >= k
  <2> HIDE DEF T
  <2>1. Nat \subseteq T
    BY <1>9, <1>10, Induction
  <2> QED BY <2>1 DEF T
<1> QED BY <1>8, <1>11 DEF r

LEMMA WalkStops ==
  ASSUME NEW wasm \in Seq(Byte), NEW id, NEW start, NEW n \in 0 .. Len(wasm),
         Stops(wasm, n, id, start), \A m \in 0 .. n - 1 : ~ Stops(wasm, m, id, start)
  PROVE  Walk(wasm, id, start) =
           IF Positions(wasm)[n] >= Len(wasm) THEN NoSection
           ELSE SectionAt(wasm, Positions(wasm)[n])
<1> DEFINE IsFirst(k) == /\ Stops(wasm, k, id, start)
                         /\ \A m \in 0 .. k - 1 : ~ Stops(wasm, m, id, start)
           k == CHOOSE m \in 0 .. Len(wasm) : IsFirst(m)
<1>1. Walk(wasm, id, start) =
        IF Positions(wasm)[k] >= Len(wasm) THEN NoSection
        ELSE SectionAt(wasm, Positions(wasm)[k])
  BY DEF Walk, Found, FirstStop
<1>2. IsFirst(n)
  OBVIOUS
<1>3. Len(wasm) \in Nat
  BY LenProperties
<1>4. ASSUME NEW m \in 0 .. Len(wasm), IsFirst(m) PROVE m = n
  <2>1. ~ (m < n)
    <3>1. m < n => m \in 0 .. n - 1
      BY <1>3
    <3> QED BY <1>4, <3>1
  <2>2. ~ (n < m)
    <3>1. n < m => n \in 0 .. m - 1
      BY <1>3
    <3> QED BY <1>4, <3>1
  <2> QED BY <1>3, <2>1, <2>2
<1> HIDE DEF IsFirst
<1>5. k = n
  BY <1>2, <1>4
<1> QED BY <1>1, <1>5

(* A binary as it is encoded, section by section: F[k] is its first k.     *)
Encodings(sections) == [k \in DOMAIN sections |-> EncodeSection(sections[k])]
Laid(sections, F) == sections \in Seq(Section) /\ Flattening(F, Encodings(sections), Byte)

LEMMA EncodingsTyped ==
  ASSUME NEW T \in Seq(Section)
  PROVE  /\ Len(T) \in Nat /\ DOMAIN T = 1 .. Len(T)
         /\ Encodings(T) \in Seq(Seq(Byte)) /\ Len(Encodings(T)) = Len(T)
         /\ \A k \in 1 .. Len(T) : /\ T[k] \in Section
                                   /\ Encodings(T)[k] = EncodeSection(T[k])
<1>1. Len(T) \in Nat /\ DOMAIN T = 1 .. Len(T)
  BY LenProperties
<1>2. \A k \in 1 .. Len(T) : T[k] \in Section /\ EncodeSection(T[k]) \in Seq(Byte)
  BY ElementOfSeq, SectionTyped
<1>3. Encodings(T) = [k \in 1 .. Len(T) |-> EncodeSection(T[k])]
  BY <1>1 DEF Encodings
<1>4. Encodings(T) \in [1 .. Len(T) -> Seq(Byte)]
  BY <1>2, <1>3
<1>5. Encodings(T) \in Seq(Seq(Byte)) /\ Len(Encodings(T)) = Len(T)
  BY <1>1, <1>4, SequenceOf
<1> QED BY <1>1, <1>2, <1>3, <1>5

LEMMA LaidOut ==
  ASSUME NEW T \in Seq(Section)
  PROVE  \E F : Laid(T, F)
BY EncodingsTyped, FlatteningExists DEF Laid

LEMMA LaidGiven ==
  ASSUME NEW T, NEW F, Laid(T, F)
  PROVE  /\ Len(T) \in Nat /\ Encode(T) = F[Len(T)] /\ F[0] = << >> /\ Len(F[0]) = 0
         /\ Encode(T) \in Seq(Byte) /\ Len(Encode(T)) \in Nat
         /\ \A k \in 0 .. Len(T) : F[k] \in Seq(Byte) /\ Len(F[k]) \in Nat
         /\ \A k \in 1 .. Len(T) :
              /\ k - 1 \in 0 .. Len(T) /\ k \in 0 .. Len(T) /\ T[k] \in Section
              /\ F[k] = F[k - 1] \o EncodeSection(T[k])
              /\ Len(F[k]) = Len(F[k - 1]) + Len(EncodeSection(T[k]))
<1> DEFINE n == Len(T)
           e == Encodings(T)
<1>1. T \in Seq(Section) /\ Flattening(F, e, Byte)
  BY DEF Laid
<1>2. /\ n \in Nat /\ e \in Seq(Seq(Byte)) /\ Len(e) = n
      /\ \A k \in 1 .. n : T[k] \in Section /\ e[k] = EncodeSection(T[k])
  BY <1>1, EncodingsTyped
<1>3. Encode(T) = FlattenSeq(e)
  BY DEF Encode, Encodings
<1> HIDE DEF n, e
<1>4. Encode(T) = F[n]
  BY <1>1, <1>2, <1>3, FlattensTo
<1>5. /\ F \in [0 .. n -> Seq(Byte)] /\ F[0] = << >>
      /\ \A k \in 1 .. n : F[k] = F[k - 1] \o e[k]
  BY <1>1, <1>2 DEF Flattening
<1>6. \A k \in 0 .. n : F[k] \in Seq(Byte) /\ Len(F[k]) \in Nat
  BY <1>5, LenProperties
<1>7. n \in 0 .. n /\ \A k \in 1 .. n : k - 1 \in 0 .. n /\ k \in 0 .. n
  BY <1>2
<1>8. Len(F[0]) = 0
  BY <1>5, EmptySeq
<1>9. ASSUME NEW k \in 1 .. n
      PROVE  Len(F[k]) = Len(F[k - 1]) + Len(EncodeSection(T[k]))
  <2>1. F[k - 1] \in Seq(Byte) /\ EncodeSection(T[k]) \in Seq(Byte)
    BY <1>2, <1>6, <1>7, SectionTyped
  <2>2. Len(F[k - 1] \o EncodeSection(T[k])) = Len(F[k - 1]) + Len(EncodeSection(T[k]))
    BY <2>1, ConcatProperties
  <2>3. F[k] = F[k - 1] \o EncodeSection(T[k])
    BY <1>2, <1>5
  <2> QED BY <2>2, <2>3
<1> QED BY <1>2, <1>4, <1>5, <1>6, <1>7, <1>8, <1>9 DEF n

LEMMA SectionsLie ==
  ASSUME NEW T, NEW F, Laid(T, F)
  PROVE  /\ \A k \in 0 .. Len(T) : Lies(Encode(T), 0, F[k])
         /\ \A k \in 1 .. Len(T) :
              /\ Len(F[k - 1]) < Len(Encode(T))
              /\ SectionAt(Encode(T), Len(F[k - 1])) =
                   [id |-> Id(T[k]), at |-> Len(F[k - 1]),
                    start |-> Len(F[k - 1]) + 1 + Len(Size(T[k])), end |-> Len(F[k])]
              /\ Lies(Encode(T), Len(F[k - 1]) + 1 + Len(Size(T[k])), Content(T[k]))
         /\ \A k \in 0 .. Len(T) : Positions(Encode(T))[k] = Len(F[k])
<1> DEFINE n == Len(T)
           e == Encodings(T)
           w == Encode(T)
<1>1. T \in Seq(Section) /\ Flattening(F, e, Byte)
  BY DEF Laid
<1>2. /\ n \in Nat /\ e \in Seq(Seq(Byte)) /\ Len(e) = n
      /\ \A k \in 1 .. n : T[k] \in Section /\ e[k] = EncodeSection(T[k])
  BY <1>1, EncodingsTyped
<1>3. /\ w = F[n] /\ w \in Seq(Byte) /\ Len(w) \in Nat /\ Len(F[0]) = 0
      /\ \A k \in 0 .. n : F[k] \in Seq(Byte) /\ Len(F[k]) \in Nat
      /\ \A k \in 1 .. n : /\ k - 1 \in 0 .. n /\ k \in 0 .. n
                           /\ Len(F[k]) = Len(F[k - 1]) + Len(EncodeSection(T[k]))
  BY LaidGiven
<1> HIDE DEF n, e, w
<1>4. Lies(w, 0, F[Len(e)])
  BY <1>2, <1>3, LiesInItself
<1>5. /\ \A k \in 0 .. n : Lies(w, 0, F[k])
      /\ \A k \in 1 .. n : Lies(w, 0 + Len(F[k - 1]), e[k])
  BY <1>1, <1>2, <1>3, <1>4, LiesFlat
<1>6. ASSUME NEW k \in 1 .. n
      PROVE  /\ Len(F[k - 1]) < Len(w)
             /\ SectionAt(w, Len(F[k - 1])) =
                  [id |-> Id(T[k]), at |-> Len(F[k - 1]),
                   start |-> Len(F[k - 1]) + 1 + Len(Size(T[k])), end |-> Len(F[k])]
             /\ Lies(w, Len(F[k - 1]) + 1 + Len(Size(T[k])), Content(T[k]))
  <2> DEFINE i == Len(F[k - 1])
             s == T[k]
  <2>1. /\ s \in Section /\ i \in Nat /\ e[k] = EncodeSection(s)
        /\ Len(F[k]) = i + Len(EncodeSection(s))
    BY <1>2, <1>3
  <2>2. 0 + i = i
    BY <2>1
  <2>3. Lies(w, 0 + i, e[k])
    BY <1>5
  <2> HIDE DEF i, s
  <2>4. Lies(w, i, EncodeSection(s))
    BY <2>1, <2>2, <2>3
  <2>5. /\ SectionAt(w, i) = [id |-> Id(s), at |-> i, start |-> i + 1 + Len(Size(s)),
                              end |-> i + Len(EncodeSection(s))]
        /\ Lies(w, i + 1 + Len(Size(s)), Content(s))
    BY <1>3, <2>1, <2>4, SectionReadBack
  <2>6. i < Len(w)
    <3>1. Len(EncodeSection(s)) \in Nat /\ Len(EncodeSection(s)) > 0
      <4>1. Len(EncodeSection(s)) = 1 + Len(Size(s)) + Len(Content(s)) /\ Len(Size(s)) \in Nat
        BY <2>1, SectionTyped
      <4>2. Len(Content(s)) \in Nat
        BY <2>1, ContentTyped
      <4> QED BY <4>1, <4>2
    <3>2. i + Len(EncodeSection(s)) <= Len(w)
      BY <2>4 DEF Lies
    <3> QED BY <1>3, <2>1, <3>1, <3>2
  <2> QED BY <2>1, <2>5, <2>6 DEF i, s
<1> DEFINE T1 == {k \in Nat : k \in 0 .. n => Positions(w)[k] = Len(F[k])}
<1>7. /\ Positions(w)[0] = 0
      /\ \A k \in Nat : Positions(w)[k + 1] = SectionAt(w, Positions(w)[k]).end
  BY <1>3, PositionsGiven
<1>8. 0 \in T1
  BY <1>3, <1>7
<1>9. ASSUME NEW k \in Nat, k \in T1 PROVE k + 1 \in T1
  <2>1. ASSUME k + 1 \in 0 .. n PROVE Positions(w)[k + 1] = Len(F[k + 1])
    <3>1. k \in 0 .. n /\ k + 1 \in 1 .. n /\ (k + 1) - 1 = k
      BY <1>2, <2>1
    <3>2. Positions(w)[k] = Len(F[k])
      BY <1>9, <3>1
    <3>3. SectionAt(w, Len(F[k])).end = Len(F[k + 1])
      <4> DEFINE j == k + 1
      <4>1. j \in 1 .. n /\ j - 1 = k
        BY <3>1
      <4> HIDE DEF j
      <4>2. SectionAt(w, Len(F[j - 1])) =
              [id |-> Id(T[j]), at |-> Len(F[j - 1]),
               start |-> Len(F[j - 1]) + 1 + Len(Size(T[j])), end |-> Len(F[j])]
        BY <1>6, <4>1
      <4>3. SectionAt(w, Len(F[j - 1])).end = Len(F[j])
        BY <4>2
      <4> QED BY <4>1, <4>3 DEF j
    <3> QED BY <1>7, <3>2, <3>3
  <2> QED BY <2>1
<1>10. \A k \in 0 .. n : Positions(w)[k] = Len(F[k])
  <2> HIDE DEF T1
  <2>1. Nat \subseteq T1
    BY <1>8, <1>9, Induction
  <2> QED BY <2>1, <1>2 DEF T1
<1> QED BY <1>5, <1>6, <1>10 DEF n, w

(* The walk finds the one section with this id, and none if there is none. *)
LEMMA WalkPasses ==
  ASSUME NEW T, NEW F, Laid(T, F), NEW id, NEW start, NEW k \in 1 .. Len(T), Id(T[k]) # id
  PROVE  ~ Stops(Encode(T), k - 1, id, start)
<1>1. k - 1 \in 0 .. Len(T)
  BY LaidGiven
<1>2. /\ Positions(Encode(T))[k - 1] = Len(F[k - 1])
      /\ Len(F[k - 1]) < Len(Encode(T))
      /\ SectionAt(Encode(T), Len(F[k - 1])) =
           [id |-> Id(T[k]), at |-> Len(F[k - 1]),
            start |-> Len(F[k - 1]) + 1 + Len(Size(T[k])), end |-> Len(F[k])]
  BY <1>1, SectionsLie
<1>3. Len(F[k - 1]) \in Nat /\ Len(Encode(T)) \in Nat
  BY <1>1, LaidGiven
<1>4. ~ (Len(F[k - 1]) >= Len(Encode(T)))
  BY <1>2, <1>3
<1>5. ~ IsWanted(SectionAt(Encode(T), Len(F[k - 1])), id, start)
  <2>1. SectionAt(Encode(T), Len(F[k - 1])).id = Id(T[k])
    BY <1>2
  <2> QED BY <2>1 DEF IsWanted
<1> QED BY <1>2, <1>4, <1>5 DEF Stops, StopsAt

LEMMA WalkFinds ==
  ASSUME NEW T, NEW F, Laid(T, F), NEW id, NEW k \in 1 .. Len(T), Id(T[k]) = id,
         \A j \in 1 .. Len(T) : Id(T[j]) = id => j = k,
         NEW start, start \in {Anywhere, Len(F[k - 1]) + 1 + Len(Size(T[k]))}
  PROVE  Walk(Encode(T), id, start) = SectionAt(Encode(T), Len(F[k - 1]))
<1> DEFINE w == Encode(T)
           n == k - 1
<1>1. w \in Seq(Byte) /\ Len(w) \in Nat /\ Len(T) \in Nat /\ n \in 0 .. Len(T)
      /\ Len(F[n]) \in Nat
  BY LaidGiven
<1>9. SectionAt(w, Len(F[n])) =
        [id |-> Id(T[k]), at |-> Len(F[n]),
         start |-> Len(F[n]) + 1 + Len(Size(T[k])), end |-> Len(F[k])]
  BY SectionsLie
<1>2. /\ Positions(w)[n] = Len(F[n]) /\ Len(F[n]) < Len(w)
      /\ SectionAt(w, Len(F[n])).id = id
      /\ SectionAt(w, Len(F[n])).start = Len(F[n]) + 1 + Len(Size(T[k]))
  <2>1. Positions(w)[n] = Len(F[n])
    BY <1>1, SectionsLie
  <2>2. Len(F[n]) < Len(w)
    BY SectionsLie
  <2> QED BY <1>9, <2>1, <2>2
<1>3. Positions(w)[n] >= n
  <2>1. n \in Nat
    BY <1>1
  <2> HIDE DEF n
  <2> QED BY <1>1, <2>1, PositionsGiven
<1>4. ASSUME NEW m \in 0 .. n - 1 PROVE ~ Stops(w, m, id, start)
  <2>1. m + 1 \in 1 .. Len(T) /\ m + 1 # k /\ (m + 1) - 1 = m
    BY <1>1
  <2>2. Id(T[m + 1]) # id
    BY <2>1
  <2>3. ~ Stops(w, (m + 1) - 1, id, start)
    BY <2>1, <2>2, WalkPasses
  <2> QED BY <2>1, <2>3
<1>5. IsWanted(SectionAt(w, Len(F[n])), id, start)
  BY <1>2 DEF IsWanted
<1>6. Stops(w, n, id, start)
  BY <1>2, <1>5 DEF Stops, StopsAt
<1> HIDE DEF w, n
<1>7. n \in 0 .. Len(w) /\ ~ (Positions(w)[n] >= Len(w))
  BY <1>1, <1>2, <1>3
<1>8. Walk(w, id, start) = SectionAt(w, Positions(w)[n])
  BY <1>1, <1>4, <1>6, <1>7, WalkStops
<1> QED BY <1>2, <1>8 DEF w, n

LEMMA WalkFindsNone ==
  ASSUME NEW T, NEW F, Laid(T, F), NEW id, NEW start,
         \A j \in 1 .. Len(T) : Id(T[j]) # id
  PROVE  Walk(Encode(T), id, start) = NoSection
<1> DEFINE w == Encode(T)
           n == Len(T)
<1>1. w \in Seq(Byte) /\ Len(w) \in Nat /\ n \in Nat /\ n \in 0 .. n /\ w = F[n]
  <2>1. w \in Seq(Byte) /\ Len(w) \in Nat /\ n \in Nat /\ w = F[n]
    BY LaidGiven
  <2> QED BY <2>1
<1>2. Positions(w)[n] = Len(w)
  BY <1>1, SectionsLie
<1>3. Positions(w)[n] >= n
  BY <1>1, PositionsGiven
<1>4. ASSUME NEW m \in 0 .. n - 1 PROVE ~ Stops(w, m, id, start)
  <2>1. m + 1 \in 1 .. Len(T) /\ (m + 1) - 1 = m
    BY <1>1
  <2>2. ~ Stops(w, (m + 1) - 1, id, start)
    BY <2>1, WalkPasses
  <2> QED BY <2>1, <2>2
<1>5. Positions(w)[n] >= Len(w) /\ n \in 0 .. Len(w)
  BY <1>1, <1>2, <1>3
<1>6. Stops(w, n, id, start)
  BY <1>5 DEF Stops, StopsAt
<1> HIDE DEF w, n
<1>7. Walk(w, id, start) = NoSection
  BY <1>1, <1>4, <1>5, <1>6, WalkStops
<1> QED BY <1>7 DEF w

-----------------------------------------------------------------------------
(***************************************************************************)
(* The limits of the memory.                                               *)
(***************************************************************************)
Counted(s) == ULEB(1, s.countPad)
Least(s) == ULEB(s.min, s.minPad)
Greatest(s) == IF HasMax(s.flags) THEN ULEB(s.max, s.maxPad) ELSE << >>

LEMMA LimitsAre ==
  ASSUME NEW s \in OneMemory
  PROVE  /\ s \in Section /\ s.kind = "memory" /\ Id(s) = SectionMemory
         /\ s.flags \in Byte /\ s.min \in Nat /\ s.minPad \in Nat /\ s.countPad \in Nat
         /\ Counted(s) \in Seq(Byte) /\ Least(s) \in Seq(Byte) /\ Greatest(s) \in Seq(Byte)
         /\ Content(s) = Counted(s) \o (<<s.flags>> \o (Least(s) \o Greatest(s)))
<1>1. /\ s.kind = "memory" /\ s.flags \in Byte /\ s.min \in Nat /\ s.minPad \in Nat
      /\ s.max \in Nat /\ s.maxPad \in Nat /\ s.countPad \in Nat
  BY DEF OneMemory
<1>2. s \in Section /\ Id(s) = SectionMemory
  BY <1>1 DEF Section, Id
<1>3. Counted(s) \in Seq(Byte) /\ Least(s) \in Seq(Byte)
  BY <1>1, DigitsTyped DEF Counted, Least
<1>4. Greatest(s) \in Seq(Byte)
  BY <1>1, DigitsTyped, EmptySeq DEF Greatest
<1>5. <<s.flags>> \in Seq(Byte)
  BY <1>1
<1>6. Content(s) = Counted(s) \o ((<<s.flags>> \o Least(s)) \o Greatest(s))
  BY <1>1 DEF Content, Limits, Counted, Least, Greatest
<1>7. (<<s.flags>> \o Least(s)) \o Greatest(s) = <<s.flags>> \o (Least(s) \o Greatest(s))
  BY <1>3, <1>4, <1>5, ConcatAssociative
<1> QED BY <1>1, <1>2, <1>3, <1>4, <1>6, <1>7

LEMMA LimitsReadBack ==
  ASSUME NEW s \in OneMemory, NEW wasm \in Seq(Byte), NEW i \in Nat,
         Lies(wasm, i, Content(s)), NEW p, p = i + Len(Counted(s))
  PROVE  /\ p \in Nat
         /\ ReadULEB(wasm, i) = [value |-> 1, after |-> p]
         /\ At(wasm, p) = s.flags
         /\ ReadULEB(wasm, p + 1) = [value |-> s.min, after |-> p + 1 + Len(Least(s))]
         /\ MaxBytes(wasm, s.flags, p + 1 + Len(Least(s)), i + Len(Content(s))) = Greatest(s)
<1> DEFINE c == Counted(s)
           f == <<s.flags>>
           l == Least(s)
           g == Greatest(s)
<1>1. /\ c \in Seq(Byte) /\ l \in Seq(Byte) /\ g \in Seq(Byte) /\ f \in Seq(Byte)
      /\ Len(f) = 1 /\ f[1] = s.flags
      /\ Content(s) = c \o (f \o (l \o g))
      /\ s.min \in Nat /\ s.minPad \in Nat /\ s.countPad \in Nat
  <2>1. s.flags \in Byte /\ Len(f) = 1 /\ f[1] = s.flags
    BY LimitsAre
  <2>2. f \in Seq(Byte)
    BY <2>1
  <2> QED BY <2>1, <2>2, LimitsAre
<1>2. /\ Len(c) \in Nat /\ Len(l) \in Nat /\ Len(g) \in Nat /\ Len(wasm) \in Nat
  BY <1>1, LenProperties
<1>3. /\ l \o g \in Seq(Byte) /\ Len(l \o g) = Len(l) + Len(g)
  BY <1>1, ConcatProperties
<1>4. /\ f \o (l \o g) \in Seq(Byte) /\ Len(f \o (l \o g)) = 1 + (Len(l) + Len(g))
  BY <1>1, <1>3, ConcatProperties
<1>5. Len(Content(s)) = Len(c) + (1 + (Len(l) + Len(g)))
  BY <1>1, <1>4, ConcatProperties
<1>6. c = ULEB(1, s.countPad) /\ l = ULEB(s.min, s.minPad)
  BY DEF Counted, Least
<1>7. HasMax(s.flags) \/ g = << >>
  BY DEF Greatest
<1> HIDE DEF c, l, g
<1> DEFINE fl == f
<1>8. f = fl
  OBVIOUS
<1> HIDE DEF f, fl
<1>9. Lies(wasm, i, c) /\ Lies(wasm, i + Len(c), f \o (l \o g))
  <2>1. Lies(wasm, i, c \o (f \o (l \o g)))
    BY <1>1
  <2>2. c \in Seq(Byte) /\ Len(wasm) \in Nat
    BY <1>1, <1>2
  <2> QED BY <1>4, <2>1, <2>2, LiesApart
<1>10. p \in Nat /\ p + 1 \in Nat /\ p = i + Len(c)
  BY <1>2 DEF c
<1>11. Lies(wasm, p, f) /\ Lies(wasm, p + Len(f), l \o g)
  BY <1>1, <1>2, <1>3, <1>9, <1>10, LiesApart
<1>12. Lies(wasm, p + 1, l) /\ Lies(wasm, p + 1 + Len(l), g)
  <2>1. Lies(wasm, p + 1, l \o g)
    BY <1>1, <1>11
  <2> QED BY <1>1, <1>2, <1>10, <2>1, LiesApart
<1>13. ReadULEB(wasm, i) = [value |-> 1, after |-> p]
  <2>1. Lies(wasm, i, ULEB(1, s.countPad))
    BY <1>6, <1>9
  <2>2. ReadULEB(wasm, i) = [value |-> 1, after |-> i + Len(ULEB(1, s.countPad))]
    BY <1>1, <2>1, NumberReadBack
  <2>3. p = i + Len(ULEB(1, s.countPad))
    BY <1>6, <1>10
  <2> QED BY <2>2, <2>3
<1>14. At(wasm, p) = s.flags
  <2>1. p + 1 <= Len(wasm) /\ wasm[p + 1] = f[1]
    BY <1>1, <1>11 DEF Lies
  <2>2. p < Len(wasm)
    BY <1>2, <1>10, <2>1
  <2> QED BY <1>1, <2>1, <2>2 DEF At
<1>15. ReadULEB(wasm, p + 1) = [value |-> s.min, after |-> p + 1 + Len(l)]
  <2>1. Lies(wasm, p + 1, ULEB(s.min, s.minPad))
    BY <1>6, <1>12
  <2>2. ReadULEB(wasm, p + 1) = [value |-> s.min, after |-> p + 1 + Len(ULEB(s.min, s.minPad))]
    <3>1. p + 1 \in Nat /\ s.min \in Nat /\ s.minPad \in Nat
      BY <1>1, <1>10
    <3> QED BY <2>1, <3>1, NumberReadBack
  <2> QED BY <1>6, <2>2
<1>16. CASE HasMax(s.flags)
  <2> DEFINE q == p + 1 + Len(l)
  <2>1. q \in Nat /\ i + Len(Content(s)) = q + Len(g)
    BY <1>2, <1>5, <1>10
  <2>2. \A j \in 1 .. Len(g) : wasm[q + j] = g[j]
    BY <1>12 DEF Lies
  <2> HIDE DEF q
  <2>3. SubSeq(wasm, q + 1, q + Len(g)) = g
    BY <1>1, <2>1, <2>2, CutOut
  <2>4. MaxBytes(wasm, s.flags, q, i + Len(Content(s))) = g
    BY <1>16, <2>1, <2>3 DEF MaxBytes, Part
  <2> QED BY <1>10, <1>13, <1>14, <1>15, <2>4 DEF q, l, g
<1>17. CASE ~ HasMax(s.flags)
  <2>1. MaxBytes(wasm, s.flags, p + 1 + Len(l), i + Len(Content(s))) = g
    BY <1>7, <1>17 DEF MaxBytes
  <2> QED BY <1>10, <1>13, <1>14, <1>15, <2>1 DEF l, g
<1> QED BY <1>16, <1>17

LEMMA MemoriesReadBack ==
  ASSUME NEW s \in Memories, NEW wasm \in Seq(Byte), NEW i \in Nat,
         Lies(wasm, i, Content(s))
  PROVE  ReadULEB(wasm, i).value # 1
<1>1. s.kind = "memories" /\ s.count \in Nat \ {1} /\ s.countPad \in Nat /\ s.content \in Seq(Byte)
  BY DEF Memories
<1>2. Content(s) = ULEB(s.count, s.countPad) \o s.content
  BY <1>1 DEF Content
<1>3. ULEB(s.count, s.countPad) \in Seq(Byte) /\ Len(wasm) \in Nat
  BY <1>1, DigitsTyped, LenProperties
<1>4. Lies(wasm, i, ULEB(s.count, s.countPad))
  BY <1>1, <1>2, <1>3, LiesApart
<1>5. ReadULEB(wasm, i) = [value |-> s.count, after |-> i + Len(ULEB(s.count, s.countPad))]
  BY <1>1, <1>4, NumberReadBack
<1> QED BY <1>1, <1>5

ContentAt(T, F, m) == Len(F[m - 1]) + 1 + Len(Size(T[m]))

(* The memory section of a binary that has one, and what is read there.    *)
LEMMA MemoryFound ==
  ASSUME NEW T, IsModule(T), NEW F, Laid(T, F), NEW m \in 1 .. Len(T),
         Id(T[m]) = SectionMemory
  PROVE  /\ MemorySection(Encode(T)) # NoSection
         /\ MemorySection(Encode(T)).start = ContentAt(T, F, m)
         /\ MemorySection(Encode(T)).end = Len(F[m])
         /\ FindSectionIdIndex(Encode(T), ContentAt(T, F, m), SectionMemory) = Len(F[m - 1])
         /\ ContentAt(T, F, m) \in Nat /\ Len(F[m - 1]) \in Nat
         /\ Len(F[m]) = ContentAt(T, F, m) + Len(Content(T[m]))
         /\ Lies(Encode(T), ContentAt(T, F, m), Content(T[m]))
<1> DEFINE w == Encode(T)
           a == Len(F[m - 1])
           start == ContentAt(T, F, m)
<1>1. /\ a \in Nat /\ T[m] \in Section
      /\ Len(F[m]) = a + Len(EncodeSection(T[m]))
  BY LaidGiven
<1>2. Len(Size(T[m])) \in Nat /\ Len(EncodeSection(T[m])) = 1 + Len(Size(T[m])) + Len(Content(T[m]))
  BY <1>1, SectionTyped
<1>3. Len(Content(T[m])) \in Nat
  BY <1>1, ContentTyped
<1>4. start \in Nat /\ Len(F[m]) = start + Len(Content(T[m]))
  <2> DEFINE z == Len(Size(T[m]))
             c == Len(Content(T[m]))
  <2>1. start = a + 1 + z
    BY DEF ContentAt
  <2>2. Len(F[m]) = a + (1 + z + c)
    BY <1>1, <1>2
  <2>3. a \in Nat /\ z \in Nat /\ c \in Nat
    BY <1>1, <1>2, <1>3
  <2> HIDE DEF start, a, z, c
  <2>4. start \in Nat /\ Len(F[m]) = start + c
    BY <2>1, <2>2, <2>3
  <2> QED BY <2>4 DEF c
<1>5. /\ SectionAt(w, a) = [id |-> Id(T[m]), at |-> a, start |-> start, end |-> Len(F[m])]
      /\ Lies(w, start, Content(T[m]))
  BY SectionsLie DEF ContentAt
<1>6. \A j \in 1 .. Len(T) : Id(T[j]) = SectionMemory => j = m
  <2>1. T \in Seq(Section)
    BY DEF IsModule
  <2>2. DOMAIN T = 1 .. Len(T)
    BY <2>1, LenProperties
  <2> QED BY <2>2 DEF IsModule
<1>7. Walk(w, SectionMemory, Anywhere) = SectionAt(w, a)
  <2>1. Anywhere \in {Anywhere, Len(F[m - 1]) + 1 + Len(Size(T[m]))}
    OBVIOUS
  <2> QED BY <1>6, <2>1, WalkFinds
<1>8. Walk(w, SectionMemory, start) = SectionAt(w, a)
  <2>1. start \in {Anywhere, Len(F[m - 1]) + 1 + Len(Size(T[m]))}
    BY DEF ContentAt
  <2> QED BY <1>6, <2>1, WalkFinds
<1> HIDE DEF w, a, start
<1>9. MemorySection(w) = [id |-> SectionMemory, at |-> a, start |-> start, end |-> Len(F[m])]
  BY <1>5, <1>7 DEF MemorySection
<1>10. MemorySection(w) # NoSection
  <2>1. MemorySection(w).at = a /\ NoSection.at = -1
    BY <1>9 DEF NoSection
  <2> QED BY <1>1, <2>1
<1>11. FindSectionIdIndex(w, start, SectionMemory) = a
  <2>1. SectionAt(w, a).at = a
    BY <1>5
  <2> QED BY <1>8, <2>1 DEF FindSectionIdIndex
<1>12. MemorySection(w).start = start /\ MemorySection(w).end = Len(F[m])
  BY <1>9
<1> QED BY <1>1, <1>4, <1>5, <1>10, <1>11, <1>12 DEF w, a, start

LEMMA PagesRead ==
  ASSUME NEW T, IsModule(T)
  PROVE  /\ (\A k \in DOMAIN T : T[k] \notin OneMemory) =>
              /\ ReadInitialMemoryPages(Encode(T)) = NoPages
              /\ \A pages : PatchInitialMemory(Encode(T), pages) = Encode(T)
         /\ \A k \in DOMAIN T : T[k] \in OneMemory =>
              ReadInitialMemoryPages(Encode(T)) = T[k].min
<1> DEFINE w == Encode(T)
<1>1. T \in Seq(Section)
  BY DEF IsModule
<1>2. DOMAIN T = 1 .. Len(T) /\ Len(T) \in Nat /\ \A k \in 1 .. Len(T) : T[k] \in Section
  BY <1>1, LenProperties, ElementOfSeq
<1>3. PICK F : Laid(T, F)
  BY <1>1, LaidOut
<1>4. w \in Seq(Byte)
  BY <1>3, LaidGiven
<1>5. ASSUME NEW m \in DOMAIN T, T[m] \in OneMemory
      PROVE  ReadInitialMemoryPages(w) = T[m].min
  <2>0. PICK st : st = ContentAt(T, F, m)
    OBVIOUS
  <2> DEFINE p == st + Len(Counted(T[m]))
             section == MemorySection(w)
  <2>1. m \in 1 .. Len(T) /\ Id(T[m]) = SectionMemory
    BY <1>2, <1>5, LimitsAre
  <2>2. /\ section # NoSection /\ section.start = st /\ st \in Nat
        /\ Lies(w, st, Content(T[m]))
    <3>1. section.start = st
      BY <1>3, <2>0, <2>1, MemoryFound
    <3>2. section # NoSection /\ st \in Nat /\ Lies(w, st, Content(T[m]))
      <4>1. section # NoSection
        BY <1>3, <2>0, <2>1, MemoryFound
      <4>2. st \in Nat
        BY <1>3, <2>0, <2>1, MemoryFound
      <4>3. Lies(w, st, Content(T[m]))
        BY <1>3, <2>0, <2>1, MemoryFound
      <4> QED BY <4>1, <4>2, <4>3
    <3> QED BY <3>1, <3>2
  <2>3. /\ ReadULEB(w, st) = [value |-> 1, after |-> p]
        /\ ReadULEB(w, p + 1) = [value |-> T[m].min, after |-> p + 1 + Len(Least(T[m]))]
    BY <1>4, <1>5, <2>2, LimitsReadBack
  <2> HIDE DEF w, p, section
  <2>4. ReadULEB(w, st).value = 1 /\ ReadULEB(w, st).after = p /\ ReadULEB(w, p + 1).value = T[m].min
    BY <2>3
  <2> QED BY <2>2, <2>4 DEF ReadInitialMemoryPages, section
<1>6. ASSUME \A k \in DOMAIN T : T[k] \notin OneMemory
      PROVE  /\ ReadInitialMemoryPages(w) = NoPages
             /\ \A pages : PatchInitialMemory(w, pages) = w
  <2>1. CASE \A j \in 1 .. Len(T) : Id(T[j]) # SectionMemory
    <3>1. MemorySection(w) = NoSection
      BY <1>3, <2>1, WalkFindsNone DEF MemorySection
    <3> QED BY <3>1 DEF ReadInitialMemoryPages, PatchInitialMemory
  <2>2. ASSUME NEW m \in 1 .. Len(T), Id(T[m]) = SectionMemory
        PROVE  /\ ReadInitialMemoryPages(w) = NoPages
               /\ \A pages : PatchInitialMemory(w, pages) = w
    <3>0. PICK st : st = ContentAt(T, F, m)
      OBVIOUS
    <3> DEFINE section == MemorySection(w)
    <3>1. T[m] \in Memories
      <4>1. T[m] \in Section /\ T[m] \notin OneMemory
        BY <1>2, <1>6
      <4>2. T[m] \notin OtherSection
        <5>1. T[m].kind # "other"
          BY <2>2, <4>1, ContentTyped
        <5> QED BY <5>1 DEF OtherSection
      <4> QED BY <4>1, <4>2 DEF Section
    <3>2. section # NoSection /\ section.start = st /\ st \in Nat /\ Lies(w, st, Content(T[m]))
      <4>1. section.start = st
        BY <1>3, <2>2, <3>0, MemoryFound
      <4>2. section # NoSection /\ st \in Nat /\ Lies(w, st, Content(T[m]))
        <5>1. section # NoSection
          BY <1>3, <2>2, <3>0, MemoryFound
        <5>2. st \in Nat
          BY <1>3, <2>2, <3>0, MemoryFound
        <5>3. Lies(w, st, Content(T[m]))
          BY <1>3, <2>2, <3>0, MemoryFound
        <5> QED BY <5>1, <5>2, <5>3
      <4> QED BY <4>1, <4>2
    <3>3. ReadULEB(w, st).value # 1
      BY <1>4, <3>1, <3>2, MemoriesReadBack
    <3> HIDE DEF w
    <3>4. ReadInitialMemoryPages(w) = NoPages
      BY <3>2, <3>3 DEF ReadInitialMemoryPages
    <3>5. ASSUME NEW pages PROVE PatchInitialMemory(w, pages) = w
      <4>1. PatchInitialMemory(w, pages) = PatchMemorySection(w, st, section.end, pages)
        BY <3>2 DEF PatchInitialMemory
      <4>2. PatchMemorySection(w, st, section.end, pages) = w
        BY <3>3 DEF PatchMemorySection
      <4> QED BY <4>1, <4>2
    <3> QED BY <3>4, <3>5
  <2> QED BY <2>1, <2>2
<1> QED BY <1>5, <1>6

-----------------------------------------------------------------------------
(***************************************************************************)
(* The binary with more pages.                                             *)
(***************************************************************************)
TooSmall(s) == s \in OneMemory /\ s.min < InitialPages

LEMMA RaisedGiven ==
  ASSUME NEW s \in Section
  PROVE  /\ Raised(s) \in Section /\ Id(Raised(s)) = Id(s)
         /\ ~ TooSmall(Raised(s))
         /\ ~ TooSmall(s) => Raised(s) = s
         /\ TooSmall(s) =>
              LET R == Raised(s)
              IN /\ R \in OneMemory /\ R.flags = s.flags /\ R.min = InitialPages
                 /\ R.max = s.max /\ R.maxPad = s.maxPad
                 /\ R.minPad = 1 /\ R.countPad = 1 /\ R.sizePad = 1
<1>1. s.kind = "memory" <=> s \in OneMemory
  BY DEF Section, OneMemory, Memories, OtherSection
<1>2. CASE TooSmall(s)
  <2> DEFINE R == [kind |-> "memory", sizePad |-> 1, countPad |-> 1, flags |-> s.flags,
                   min |-> InitialPages, minPad |-> 1, max |-> s.max, maxPad |-> s.maxPad]
  <2>1. s.flags \in Byte /\ s.max \in Nat /\ s.maxPad \in Nat
    BY <1>2 DEF TooSmall, OneMemory
  <2>2. Raised(s) = R
    BY <1>1, <1>2 DEF Raised, TooSmall
  <2>3. R \in OneMemory
    BY <2>1, WidthAssumption DEF OneMemory
  <2>4. Id(R) = SectionMemory /\ Id(s) = SectionMemory
    BY <1>2, <2>3, LimitsAre DEF TooSmall
  <2>5. ~ TooSmall(R)
    BY WidthAssumption DEF TooSmall
  <2>6. R \in Section
    BY <2>3 DEF Section
  <2> QED BY <1>2, <2>2, <2>3, <2>4, <2>5, <2>6
<1>3. CASE ~ TooSmall(s)
  <2>1. Raised(s) = s
    BY <1>1, <1>3 DEF Raised, TooSmall
  <2> QED BY <1>3, <2>1
<1> QED BY <1>2, <1>3

LEMMA RaisedModuleGiven ==
  ASSUME NEW T, IsModule(T)
  PROVE  /\ T \in Seq(Section) /\ Len(T) \in Nat /\ DOMAIN T = 1 .. Len(T)
         /\ \A k \in 1 .. Len(T) : T[k] \in Section
         /\ IsModule(RaisedModule(T)) /\ Len(RaisedModule(T)) = Len(T)
         /\ RaisedModule(T) \in Seq(Section)
         /\ DOMAIN RaisedModule(T) = 1 .. Len(T)
         /\ \A k \in 1 .. Len(T) : RaisedModule(T)[k] = Raised(T[k])
<1> DEFINE n == Len(T)
           U == RaisedModule(T)
<1>1. T \in Seq(Section)
  BY DEF IsModule
<1>2. DOMAIN T = 1 .. n /\ n \in Nat /\ \A k \in 1 .. n : T[k] \in Section
  BY <1>1, LenProperties, ElementOfSeq
<1>3. U = [k \in 1 .. n |-> Raised(T[k])]
  BY <1>2 DEF RaisedModule
<1> HIDE DEF n, U
<1>4. \A k \in 1 .. n : Raised(T[k]) \in Section /\ Id(Raised(T[k])) = Id(T[k])
  BY <1>2, RaisedGiven
<1>5. U \in [1 .. n -> Section] /\ \A k \in 1 .. n : U[k] = Raised(T[k])
  BY <1>3, <1>4
<1>6. U \in Seq(Section) /\ Len(U) = n /\ DOMAIN U = 1 .. n
  BY <1>2, <1>5, SequenceOf
<1>7. \A j, k \in 1 .. n : Id(T[j]) = SectionMemory /\ Id(T[k]) = SectionMemory => j = k
  BY <1>2 DEF IsModule
<1>8. \A j, k \in 1 .. n : Id(U[j]) = SectionMemory /\ Id(U[k]) = SectionMemory => j = k
  BY <1>4, <1>5, <1>7
<1>9. IsModule(U)
  BY <1>6, <1>8 DEF IsModule
<1> QED BY <1>1, <1>2, <1>5, <1>6, <1>9 DEF n, U

LEMMA RaisedIsRaised ==
  ASSUME NEW T, IsModule(T), \A k \in DOMAIN T : ~ TooSmall(T[k])
  PROVE  RaisedModule(T) = T
<1>1. T \in Seq(Section) /\ DOMAIN T = 1 .. Len(T) /\ \A k \in 1 .. Len(T) : T[k] \in Section
  BY RaisedModuleGiven
<1>2. \A k \in DOMAIN T : Raised(T[k]) = T[k]
  BY <1>1, RaisedGiven
<1>3. T = [k \in DOMAIN T |-> T[k]]
  BY <1>1
<1> QED BY <1>2, <1>3 DEF RaisedModule

LEMMA OneDigit == ULEB(1, 1) = <<1>>
<1>1. Rest(1)[0] = 1 /\ Rest(1)[0 + 1] = Rest(1)[0] \div Base
  BY RestGiven
<1>2. 1 \div Base = 0 /\ 1 % Base = 1
  BY WidthAssumption
<1>3. Rest(1)[1] = 0
  BY <1>1, <1>2
<1> DEFINE needed == CHOOSE n \in 1 .. 1 + 1 : Needs(1, n)
<1>4. needed \in 1 .. 1 + 1 /\ Needs(1, needed)
  BY DigitsNeeded
<1>5. Digits(1, 1) = IF 1 > needed THEN 1 ELSE needed
  BY DEF Digits, Needs
<1> HIDE DEF needed
<1>6. needed = 1
  <2>1. SUFFICES ASSUME needed = 2 PROVE FALSE
    BY <1>4
  <2>2. 1 \in 1 .. needed - 1
    BY <2>1
  <2> QED BY <1>3, <1>4, <2>2 DEF Needs
<1>7. Digits(1, 1) = 1
  BY <1>5, <1>6
<1>8. Digit(1, 1) = 1
  BY <1>1, <1>2 DEF Digit
<1>9. /\ ULEB(1, 1) \in Seq(Byte) /\ Len(ULEB(1, 1)) = 1
      /\ \A k \in 1 .. 1 : ULEB(1, 1)[k] = Digit(1, k) + (IF k < 1 THEN Base ELSE 0)
  BY <1>7, DigitsTyped
<1>10. 1 \in 1 .. 1 /\ ~ (1 < 1)
  OBVIOUS
<1>13. ULEB(1, 1)[1] = Digit(1, 1) + 0
  BY <1>9, <1>10
<1>11. ULEB(1, 1)[1] = 1
  BY <1>8, <1>13
<1>12. /\ <<1>> \in Seq(Byte) /\ Len(<<1>>) = 1 /\ <<1>>[1] = 1
  <2>1. 1 \in Byte
    BY BytesAre
  <2> QED BY <2>1
<1>14. \A k \in 1 .. 1 : ULEB(1, 1)[k] = <<1>>[k]
  <2>1. \A k \in 1 .. 1 : k = 1
    OBVIOUS
  <2> QED BY <1>11, <1>12, <2>1
<1> QED BY <1>9, <1>12, <1>14, SeqEqual

(* What is written is the content of the section with more pages.          *)
LEMMA ContentRaised ==
  ASSUME NEW s \in OneMemory, s.min < InitialPages
  PROVE  /\ Content(Raised(s)) = <<1, s.flags>> \o WriteULEB(InitialPages) \o Greatest(s)
         /\ WriteULEB(Len(Content(Raised(s)))) = Size(Raised(s))
<1> DEFINE R == Raised(s)
           W == WriteULEB(InitialPages)
<1>1. s \in Section /\ s.flags \in Byte
  BY LimitsAre
<1>2. /\ R \in OneMemory /\ R.flags = s.flags /\ R.min = InitialPages
      /\ R.max = s.max /\ R.maxPad = s.maxPad
      /\ R.minPad = 1 /\ R.countPad = 1 /\ R.sizePad = 1
  BY <1>1, RaisedGiven DEF TooSmall
<1> HIDE DEF R
<1>3. /\ Content(R) = Counted(R) \o (<<s.flags>> \o (Least(R) \o Greatest(R)))
      /\ Least(R) \in Seq(Byte) /\ Greatest(R) \in Seq(Byte)
      /\ R \in Section
  BY <1>2, LimitsAre
<1>4. Counted(R) = <<1>>
  BY <1>2, OneDigit DEF Counted
<1>5. Least(R) = W
  BY <1>2, WritesUnpadded, WidthAssumption DEF Least
<1>6. Greatest(R) = Greatest(s)
  BY <1>2 DEF Greatest
<1> DEFINE g == Greatest(s)
           one == <<1>>
           f == <<s.flags>>
<1>7. /\ one \in Seq(Byte) /\ f \in Seq(Byte) /\ W \in Seq(Byte) /\ g \in Seq(Byte)
  BY <1>1, <1>3, <1>5, <1>6, BytesAre
<1>8. <<1, s.flags>> = one \o f
  OBVIOUS
<1>9. Content(R) = one \o (f \o (W \o g))
  BY <1>3, <1>4, <1>5, <1>6
<1> HIDE DEF W, g, one, f
<1>10. one \o f \in Seq(Byte) /\ W \o g \in Seq(Byte)
  BY <1>7, ConcatProperties
<1>11. (one \o f) \o (W \o g) = one \o (f \o (W \o g))
  <2>1. \A x \in Seq(Byte) : (one \o f) \o x = one \o (f \o x)
    BY <1>7, BytesJoin
  <2> QED BY <1>10, <2>1
<1>12. ((one \o f) \o W) \o g = (one \o f) \o (W \o g)
  BY <1>7, <1>10, BytesJoin, SMTT(20)
<1>13. Content(R) = (<<1, s.flags>> \o W) \o g
  BY <1>8, <1>9, <1>11, <1>12
<1>14. Len(Content(R)) \in Nat
  BY <1>3, ContentTyped
<1>15. WriteULEB(Len(Content(R))) = Size(R)
  BY <1>2, <1>14, WritesUnpadded DEF Size
<1> QED BY <1>13, <1>15 DEF R, W, g

(* Two binaries that differ in one section, before it and after it.        *)
LEMMA SameBefore ==
  ASSUME NEW T, NEW F, Laid(T, F), NEW U, NEW G, Laid(U, G), Len(U) = Len(T),
         NEW m \in 1 .. Len(T), \A k \in 1 .. Len(T) : k # m => U[k] = T[k]
  PROVE  G[m - 1] = F[m - 1]
<1>1. /\ Len(T) \in Nat /\ F[0] = << >> /\ G[0] = << >>
      /\ \A k \in 1 .. Len(T) : F[k] = F[k - 1] \o EncodeSection(T[k])
  <2>1. Len(T) \in Nat /\ F[0] = << >>
    BY LaidGiven
  <2>2. G[0] = << >>
    BY LaidGiven
  <2>3. \A k \in 1 .. Len(T) : F[k] = F[k - 1] \o EncodeSection(T[k])
    BY LaidGiven
  <2> QED BY <2>1, <2>2, <2>3
<1>2. \A k \in 1 .. Len(T) : G[k] = G[k - 1] \o EncodeSection(U[k])
  <2>1. \A k \in 1 .. Len(U) : G[k] = G[k - 1] \o EncodeSection(U[k])
    BY LaidGiven
  <2> QED BY <2>1
<1> DEFINE S == {k \in Nat : k < m => G[k] = F[k]}
<1>3. 0 \in S
  BY <1>1
<1>4. ASSUME NEW k \in Nat, k \in S PROVE k + 1 \in S
  <2>1. ASSUME k + 1 < m PROVE G[k + 1] = F[k + 1]
    <3>1. k < m /\ k + 1 \in 1 .. Len(T) /\ k + 1 # m /\ (k + 1) - 1 = k
      BY <1>1, <2>1
    <3>2. U[k + 1] = T[k + 1] /\ G[k] = F[k]
      BY <1>4, <3>1
    <3>3. F[k + 1] = F[k] \o EncodeSection(T[k + 1])
      BY <1>1, <3>1
    <3>4. G[k + 1] = G[k] \o EncodeSection(U[k + 1])
      BY <1>2, <3>1
    <3> QED BY <3>2, <3>3, <3>4
  <2> QED BY <2>1
<1> HIDE DEF S
<1>5. Nat \subseteq S
  BY <1>3, <1>4, Induction
<1>6. m - 1 \in Nat /\ m - 1 < m
  BY <1>1
<1> QED BY <1>5, <1>6 DEF S

SameEnd(a, b, x, y) == \E t \in Seq(Byte) : a = x \o t /\ b = y \o t

LEMMA SameAfter ==
  ASSUME NEW T, NEW F, Laid(T, F), NEW U, NEW G, Laid(U, G), Len(U) = Len(T),
         NEW m \in 1 .. Len(T), \A k \in 1 .. Len(T) : k # m => U[k] = T[k]
  PROVE  SameEnd(Encode(T), Encode(U), F[m], G[m])
<1> DEFINE n == Len(T)
<1>1. /\ n \in Nat /\ Encode(T) = F[n]
      /\ \A k \in 0 .. n : F[k] \in Seq(Byte)
      /\ \A k \in 1 .. n : F[k] = F[k - 1] \o EncodeSection(T[k]) /\ T[k] \in Section
  BY LaidGiven
<1>2. /\ Encode(U) = G[n]
      /\ \A k \in 0 .. n : G[k] \in Seq(Byte)
      /\ \A k \in 1 .. n : G[k] = G[k - 1] \o EncodeSection(U[k])
  <2>1. /\ Encode(U) = G[Len(U)]
        /\ \A k \in 0 .. Len(U) : G[k] \in Seq(Byte)
        /\ \A k \in 1 .. Len(U) : G[k] = G[k - 1] \o EncodeSection(U[k])
    BY LaidGiven
  <2> QED BY <2>1
<1> HIDE DEF n
<1>3. m \in Nat /\ m \in 0 .. n /\ m <= n
  BY <1>1 DEF n
<1> DEFINE S == {d \in Nat : m + d <= n =>
                   \E t \in Seq(Byte) : F[m + d] = F[m] \o t /\ G[m + d] = G[m] \o t}
<1>4. 0 \in S
  <2>1. << >> \in Seq(Byte) /\ F[m] \o << >> = F[m] /\ G[m] \o << >> = G[m]
    BY <1>1, <1>2, <1>3, EmptySeq, ConcatEmptySeq
  <2>2. m + 0 = m
    BY <1>3
  <2> QED BY <2>1, <2>2
<1>5. ASSUME NEW d \in Nat, d \in S PROVE d + 1 \in S
  <2>1. ASSUME m + (d + 1) <= n
        PROVE  \E t \in Seq(Byte) : F[m + (d + 1)] = F[m] \o t /\ G[m + (d + 1)] = G[m] \o t
    <3> DEFINE k == m + (d + 1)
    <3>1. m + d <= n /\ k \in 1 .. n /\ k # m /\ k - 1 = m + d
      BY <1>1, <1>3, <2>1
    <3>2. PICK t \in Seq(Byte) : F[m + d] = F[m] \o t /\ G[m + d] = G[m] \o t
      BY <1>5, <3>1
    <3> HIDE DEF k
    <3>3. PICK e : e = EncodeSection(T[k])
      OBVIOUS
    <3>4. U[k] = T[k]
      BY <3>1 DEF n
    <3>5. F[k] = F[m + d] \o e /\ G[k] = G[m + d] \o e /\ e \in Seq(Byte)
      BY <1>1, <1>2, <3>1, <3>3, <3>4, SectionTyped
    <3>6. F[m] \in Seq(Byte) /\ G[m] \in Seq(Byte)
      BY <1>1, <1>2, <1>3
    <3>10. e \in Seq(Byte)
      BY <3>5
    <3>11. \A x \in Seq(Byte) : (x \o t) \o e = x \o (t \o e)
      BY <3>10, BytesJoin
    <3>7. (F[m] \o t) \o e = F[m] \o (t \o e)
      BY <3>6, <3>11
    <3>8. (G[m] \o t) \o e = G[m] \o (t \o e)
      BY <3>6, <3>11
    <3>9. t \o e \in Seq(Byte)
      BY <3>10, ConcatProperties
    <3> QED BY <3>2, <3>5, <3>7, <3>8, <3>9 DEF k
  <2>2. d + 1 \in Nat
    OBVIOUS
  <2> QED BY <2>1, <2>2
<1> HIDE DEF S
<1>6. Nat \subseteq S
  BY <1>4, <1>5, Induction
<1>7. n - m \in Nat /\ m + (n - m) = n
  BY <1>1, <1>3
<1>8. \E t \in Seq(Byte) : F[n] = F[m] \o t /\ G[n] = G[m] \o t
  <2>1. n - m \in S
    BY <1>6, <1>7
  <2>2. \E t \in Seq(Byte) : F[m + (n - m)] = F[m] \o t /\ G[m + (n - m)] = G[m] \o t
    <3>1. m + (n - m) <= n
      BY <1>1, <1>7
    <3> QED BY <2>1, <3>1 DEF S
  <2> QED BY <1>7, <2>2
<1> QED BY <1>1, <1>2, <1>8 DEF SameEnd

(* What lies before a place in a sequence, and what comes after it.        *)
LEMMA Halves ==
  ASSUME NEW a \in Seq(Byte), NEW b \in Seq(Byte)
  PROVE  Part(a \o b, 0, Len(a)) = a /\ Part(a \o b, Len(a), Len(a \o b)) = b
<1>1. Len(a) \in Nat /\ Len(b) \in Nat
  BY LenProperties
<1>2. /\ a \o b \in Seq(Byte) /\ Len(a \o b) = Len(a) + Len(b)
  BY ConcatProperties
<1> DEFINE w == a \o b
<1>3. Lies(w, 0, w)
  BY <1>2, LiesInItself
<1>4. Lies(w, 0, a) /\ Lies(w, 0 + Len(a), b)
  BY <1>1, <1>2, <1>3, LiesApart
<1>5. 0 + Len(a) = Len(a)
  BY <1>1
<1>6. (\A j \in 1 .. Len(a) : w[0 + j] = a[j]) /\ \A j \in 1 .. Len(b) : w[Len(a) + j] = b[j]
  BY <1>4, <1>5 DEF Lies
<1>7. Len(w) = Len(a) + Len(b)
  BY <1>2
<1> HIDE DEF w
<1>8. SubSeq(w, 0 + 1, 0 + Len(a)) = a
  BY <1>6, CutOut
<1>9. SubSeq(w, Len(a) + 1, Len(a) + Len(b)) = b
  BY <1>1, <1>6, CutOut
<1> QED BY <1>5, <1>7, <1>8, <1>9 DEF w, Part

LEMMA PatchedIsRaised ==
  ASSUME NEW T, IsModule(T), NEW m \in DOMAIN T, TooSmall(T[m])
  PROVE  PatchInitialMemory(Encode(T), InitialPages) = Encode(RaisedModule(T))
<1> DEFINE w == Encode(T)
           U == RaisedModule(T)
           s == T[m]
           R == Raised(s)
<1>1. /\ T \in Seq(Section) /\ Len(T) \in Nat /\ m \in 1 .. Len(T) /\ s \in Section
      /\ IsModule(U) /\ Len(U) = Len(T) /\ U \in Seq(Section)
      /\ U[m] = R
  BY RaisedModuleGiven
<1>2. s \in OneMemory /\ s.min < InitialPages
  BY DEF TooSmall
<1>3. Id(s) = SectionMemory /\ s.min \in Nat
  BY <1>2, LimitsAre
<1>4. ASSUME NEW k \in 1 .. Len(T), k # m PROVE U[k] = T[k]
  <2>1. U[k] = Raised(T[k]) /\ T[k] \in Section /\ k \in DOMAIN T
    BY RaisedModuleGiven
  <2>2. Id(T[k]) # SectionMemory
    BY <1>3, <1>4, <2>1 DEF IsModule
  <2>3. ~ TooSmall(T[k])
    BY <2>2, LimitsAre DEF TooSmall
  <2> QED BY <2>1, <2>3, RaisedGiven
<1>5. PICK F : Laid(T, F)
  BY <1>1, LaidOut
<1>6. PICK G : Laid(U, G)
  BY <1>1, LaidOut
<1>7. G[m - 1] = F[m - 1]
  <2>1. m \in 1 .. Len(T) /\ Len(U) = Len(T)
    BY <1>1
  <2> HIDE DEF U, w
  <2> QED BY <1>4, <1>5, <1>6, <2>1, SameBefore
<1>8. PICK t \in Seq(Byte) : w = F[m] \o t /\ Encode(U) = G[m] \o t
  <2>1. m \in 1 .. Len(T) /\ Len(U) = Len(T)
    BY <1>1
  <2> HIDE DEF U
  <2>2. SameEnd(Encode(T), Encode(U), F[m], G[m])
    BY <1>4, <1>5, <1>6, <2>1, SameAfter
  <2> QED BY <2>2 DEF SameEnd
<1>9. /\ F[m - 1] \in Seq(Byte) /\ F[m] \in Seq(Byte) /\ w \in Seq(Byte)
      /\ F[m] = F[m - 1] \o EncodeSection(s)
  BY <1>1, <1>5, LaidGiven
<1>10. G[m] = F[m - 1] \o EncodeSection(R)
  <2>1. G[m] = G[m - 1] \o EncodeSection(U[m])
    <3>1. m \in 1 .. Len(U)
      BY <1>1
    <3> HIDE DEF U
    <3> QED BY <1>6, <3>1, LaidGiven
  <2> QED BY <1>1, <1>7, <2>1
<1> DEFINE i == ContentAt(T, F, m)
           p == i + Len(Counted(s))
           a == F[m - 1]
           section == MemorySection(w)
<1>11. /\ section # NoSection /\ section.start = i /\ section.end = Len(F[m])
       /\ FindSectionIdIndex(w, i, SectionMemory) = Len(a)
       /\ i \in Nat /\ Len(a) \in Nat /\ Len(F[m]) = i + Len(Content(s))
       /\ Lies(w, i, Content(s))
  BY <1>1, <1>3, <1>5, MemoryFound
<1> HIDE DEF i
<1>12. /\ ReadULEB(w, i) = [value |-> 1, after |-> p]
       /\ At(w, p) = s.flags
       /\ ReadULEB(w, p + 1) = [value |-> s.min, after |-> p + 1 + Len(Least(s))]
       /\ MaxBytes(w, s.flags, p + 1 + Len(Least(s)), i + Len(Content(s))) = Greatest(s)
  BY <1>2, <1>9, <1>11, LimitsReadBack
<1>13. /\ Content(R) = <<1, s.flags>> \o WriteULEB(InitialPages) \o Greatest(s)
       /\ WriteULEB(Len(Content(R))) = Size(R)
  BY <1>2, ContentRaised
<1>14. PatchMemorySection(w, i, Len(F[m]), InitialPages) =
         Part(w, 0, Len(a) + 1) \o Size(R) \o Content(R) \o Part(w, Len(F[m]), Len(w))
  <2> HIDE DEF w, p, a, R, s
  <2>1. /\ ReadULEB(w, i).value = 1 /\ ReadULEB(w, i).after = p
        /\ ReadULEB(w, p + 1).value = s.min
        /\ ReadULEB(w, p + 1).after = p + 1 + Len(Least(s))
    BY <1>12
  <2>2. ~ (s.min >= InitialPages) /\ ~ (Len(a) < 0)
    BY <1>2, <1>3, <1>11, WidthAssumption
  <2>3. MaxBytes(w, At(w, p), ReadULEB(w, p + 1).after, Len(F[m])) = Greatest(s)
    BY <1>11, <1>12, <2>1
  <2>4. <<1, At(w, p)>> \o WriteULEB(InitialPages)
          \o MaxBytes(w, At(w, p), ReadULEB(w, p + 1).after, Len(F[m])) = Content(R)
    BY <1>12, <1>13, <2>3
  <2> QED BY <1>11, <1>13, <2>1, <2>2, <2>4 DEF PatchMemorySection
<1>15. PatchInitialMemory(w, InitialPages) =
         PatchMemorySection(w, i, Len(F[m]), InitialPages)
  BY <1>11 DEF PatchInitialMemory
<1>16. /\ EncodeSection(s) = <<Id(s)>> \o (Size(s) \o Content(s))
       /\ Size(s) \in Seq(Byte) /\ Content(s) \in Seq(Byte)
  BY <1>1, SectionTyped, ContentTyped
<1>17. /\ R \in Section /\ Id(R) = SectionMemory
       /\ EncodeSection(R) = <<Id(R)>> \o (Size(R) \o Content(R))
       /\ Size(R) \in Seq(Byte) /\ Content(R) \in Seq(Byte) /\ EncodeSection(R) \in Seq(Byte)
  <2>1. R \in Section /\ Id(R) = Id(s)
    BY <1>1, RaisedGiven
  <2> QED BY <1>3, <2>1, SectionTyped, ContentTyped
<1> DEFINE b == <<SectionMemory>>
           z == Size(R)
           c == Content(R)
           y == Size(s) \o Content(s)
<1>18. b \in Seq(Byte) /\ Len(b) = 1 /\ y \in Seq(Byte)
  BY <1>16, BytesAre, ConcatProperties
<1>19. /\ F[m] = a \o (b \o y) /\ G[m] = a \o (b \o (z \o c))
       /\ a \in Seq(Byte) /\ z \in Seq(Byte) /\ c \in Seq(Byte)
  BY <1>3, <1>9, <1>10, <1>16, <1>17
<1> HIDE DEF w, a, b, z, c, y
<1>20. Part(w, Len(F[m]), Len(w)) = t
  BY <1>8, <1>9, Halves
<1>21. Part(w, 0, Len(a) + 1) = a \o b
  <2>6. a \in Seq(Byte) /\ b \in Seq(Byte)
    BY <1>18, <1>19
  <2>7. a \o b \in Seq(Byte) /\ Len(a \o b) = Len(a) + Len(b)
    BY <2>6, ConcatProperties
  <2>1. a \o b \in Seq(Byte) /\ Len(a \o b) = Len(a) + 1
    BY <1>18, <2>7
  <2>2. (a \o b) \o y = F[m]
    <3>1. (a \o b) \o y = a \o (b \o y)
      BY <1>18, <2>6, BytesJoin
    <3> QED BY <1>19, <3>1
  <2>3. ((a \o b) \o y) \o t = (a \o b) \o (y \o t)
    BY <1>18, <2>1, BytesJoin
  <2>4. y \o t \in Seq(Byte)
    BY <1>18, ConcatProperties
  <2>5. w = (a \o b) \o (y \o t)
    BY <1>8, <2>2, <2>3
  <2> QED BY <2>1, <2>4, <2>5, Halves
<1>22. ((a \o b) \o z) \o c = G[m]
  <2>1. a \in Seq(Byte) /\ b \in Seq(Byte) /\ z \in Seq(Byte) /\ c \in Seq(Byte)
    BY <1>18, <1>19
  <2>2. a \o b \in Seq(Byte) /\ z \o c \in Seq(Byte)
    BY <2>1, ConcatProperties
  <2>3. \A x \in Seq(Byte) : (x \o z) \o c = x \o (z \o c)
    BY <2>1, BytesJoin, SMTT(30)
  <2>4. \A x \in Seq(Byte) : (a \o b) \o x = a \o (b \o x)
    BY <2>1, BytesJoin, SMTT(30)
  <2>5. ((a \o b) \o z) \o c = (a \o b) \o (z \o c)
    BY <2>2, <2>3
  <2>6. (a \o b) \o (z \o c) = a \o (b \o (z \o c))
    BY <2>2, <2>4
  <2>7. G[m] = a \o (b \o (z \o c))
    BY <1>19
  <2> QED BY <2>5, <2>6, <2>7
<1>23. PatchInitialMemory(w, InitialPages) = G[m] \o t
  <2>1. PatchInitialMemory(w, InitialPages) =
          ((Part(w, 0, Len(a) + 1) \o z) \o c) \o Part(w, Len(F[m]), Len(w))
    BY <1>14, <1>15 DEF z, c
  <2> QED BY <1>20, <1>21, <1>22, <2>1
<1> QED BY <1>8, <1>23 DEF w

LEMMA EnsureIsRaised ==
  ASSUME NEW T, IsModule(T)
  PROVE  EnsureInitialPages(Encode(T)) = Encode(RaisedModule(T))
<1>1. DOMAIN T = 1 .. Len(T) /\ \A k \in DOMAIN T : T[k] \in Section
  BY RaisedModuleGiven
<1>2. ASSUME NEW m \in DOMAIN T, TooSmall(T[m])
      PROVE  EnsureInitialPages(Encode(T)) = Encode(RaisedModule(T))
  <2>1. T[m] \in OneMemory /\ T[m].min < InitialPages
    BY <1>2 DEF TooSmall
  <2>2. ReadInitialMemoryPages(Encode(T)) = T[m].min /\ T[m].min \in Nat
    BY <2>1, PagesRead, LimitsAre
  <2>3. ~ (ReadInitialMemoryPages(Encode(T)) >= InitialPages)
    BY <2>1, <2>2, WidthAssumption
  <2>4. EnsureInitialPages(Encode(T)) = PatchInitialMemory(Encode(T), InitialPages)
    BY <2>3 DEF EnsureInitialPages
  <2> QED BY <1>2, <2>4, PatchedIsRaised
<1>3. ASSUME \A k \in DOMAIN T : ~ TooSmall(T[k])
      PROVE  EnsureInitialPages(Encode(T)) = Encode(RaisedModule(T))
  <2>1. RaisedModule(T) = T
    BY <1>3, RaisedIsRaised
  <2>2. CASE \A k \in DOMAIN T : T[k] \notin OneMemory
    <3>1. PatchInitialMemory(Encode(T), InitialPages) = Encode(T)
      BY <2>2, PagesRead
    <3> QED BY <2>1, <3>1 DEF EnsureInitialPages
  <2>3. ASSUME NEW m \in DOMAIN T, T[m] \in OneMemory
        PROVE  EnsureInitialPages(Encode(T)) = Encode(T)
    <3>1. ReadInitialMemoryPages(Encode(T)) = T[m].min /\ T[m].min \in Nat
      BY <2>3, PagesRead, LimitsAre
    <3>2. ReadInitialMemoryPages(Encode(T)) >= InitialPages
      BY <1>3, <2>3, <3>1, WidthAssumption DEF TooSmall
    <3> QED BY <3>2 DEF EnsureInitialPages
  <2> QED BY <2>1, <2>2, <2>3
<1> QED BY <1>2, <1>3

(* For binaries of any number of sections of any lengths, with any padding *)
(* of their numbers, any least and greatest numbers of pages, and any      *)
(* number of values of a digit: what ensureInitialPages() makes is the     *)
(* given binary with the least number of pages raised.                     *)
THEOREM BinariesAreExact == PatchingIsExact
<1> SUFFICES ASSUME NEW T \in Modules
             PROVE  IsExact(T, EnsureInitialPages(Encode(T)))
  BY DEF PatchingIsExact
<1> DEFINE U == RaisedModule(T)
<1>1. IsModule(T)
  BY ModulesAssumption
<1>2. EnsureInitialPages(Encode(T)) = Encode(U)
  BY <1>1, EnsureIsRaised
<1>3. /\ IsModule(U) /\ DOMAIN U = 1 .. Len(T) /\ DOMAIN T = 1 .. Len(T)
      /\ \A k \in 1 .. Len(T) : U[k] = Raised(T[k]) /\ T[k] \in Section
  BY <1>1, RaisedModuleGiven
<1> HIDE DEF U
<1>4. \A k \in DOMAIN U : ~ TooSmall(U[k])
  BY <1>3, RaisedGiven
<1>5. EnsureInitialPages(Encode(U)) = Encode(U)
  BY <1>3, <1>4, EnsureIsRaised, RaisedIsRaised
<1>6. ASSUME NEW k \in DOMAIN T, T[k].kind = "memory"
      PROVE  ReadInitialMemoryPages(Encode(U)) >= InitialPages
  <2>1. T[k] \in OneMemory
    BY <1>3, <1>6 DEF Section, Memories, OtherSection
  <2>2. U[k] \in OneMemory
    <3>1. CASE TooSmall(T[k])
      BY <1>3, <3>1, RaisedGiven
    <3>2. CASE ~ TooSmall(T[k])
      BY <1>3, <2>1, <3>2, RaisedGiven
    <3> QED BY <3>1, <3>2
  <2>3. ReadInitialMemoryPages(Encode(U)) = U[k].min /\ U[k].min \in Nat
    BY <1>3, <2>2, PagesRead, LimitsAre
  <2> QED BY <1>3, <1>4, <2>2, <2>3, WidthAssumption DEF TooSmall
<1> QED BY <1>2, <1>5, <1>6 DEF IsExact, U

(* ... whenever create() compiles.                                         *)
THEOREM BinariesAreAlwaysExact == Spec => []PatchIsExact
<1>1. PatchIsExact
  BY BinariesAreExact DEF PatchIsExact
<1> QED BY <1>1, PTL
=============================================================================
