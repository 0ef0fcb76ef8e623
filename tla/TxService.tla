------------------------------ MODULE TxService ------------------------------
(***************************************************************************)
(* What a WAFPool promises to the programs that use it, without its        *)
(* workers, queues and rotations: a transaction exists from before its     *)
(* handle is given out until after close() is called on it, close()        *)
(* returns when it is gone, and a newTransaction() that is refused leaves  *)
(* nothing behind.  Only destroy() or the death of a thread ends           *)
(* transactions otherwise.  Only a transaction that its worker failed to   *)
(* close is left over when close() returns; it goes with its worker.       *)
(***************************************************************************)
EXTENDS FiniteSets

CONSTANTS
  Tx,        (* newTransaction() calls and the handles they yield          *)
  MayCrash,  (* TRUE when worker threads may die                           *)
  MayLeave   (* TRUE when a worker may fail to close a transaction         *)

VARIABLES
  status,    (* each handle, as its program sees it                        *)
  held,      (* the transactions that exist in a worker                    *)
  left,      (* those their worker has failed to close                     *)
  destroyed  (* destroy() was called                                       *)

vars == <<status, held, left, destroyed>>

In(t, statuses) == status[t] \in statuses
Becomes(t, s) == status' = [status EXCEPT ![t] = s]

Init == /\ status = [t \in Tx |-> "idle"]
        /\ held = {} /\ left = {}
        /\ destroyed = FALSE

Ask(t) == /\ In(t, {"idle"})
          /\ Becomes(t, IF destroyed THEN "failed" ELSE "opening")
          /\ UNCHANGED <<held, left, destroyed>>

Create(t) == /\ In(t, {"opening"}) /\ t \notin held
             /\ held' = held \cup {t}
             /\ UNCHANGED <<status, left, destroyed>>

Grant(t) == /\ In(t, {"opening"})
            /\ t \in held \/ destroyed \/ MayCrash
            /\ Becomes(t, "open")
            /\ UNCHANGED <<held, left, destroyed>>

AskClose(t) == /\ In(t, {"open"})
               /\ Becomes(t, "closing")
               /\ UNCHANGED <<held, left, destroyed>>

Release(t) == /\ In(t, {"closing"}) /\ t \in held \ left
              /\ held' = held \ {t}
              /\ UNCHANGED <<status, left, destroyed>>

(* The worker fails to close it.                                           *)
Leave(t) == /\ MayLeave
            /\ In(t, {"closing"}) /\ t \in held \ left
            /\ left' = left \cup {t}
            /\ UNCHANGED <<status, held, destroyed>>

(* Calls return: newTransaction() by rejecting, close() in any way.        *)
Return(refused, closed) ==
  /\ refused \cup closed # {}
  /\ \A t \in refused : In(t, {"opening"}) /\ t \notin held
  /\ \A t \in closed : In(t, {"closing"}) /\ t \notin held \ left
  /\ status' = [t \in Tx |-> IF t \in refused THEN "failed"
                             ELSE IF t \in closed THEN "closed" ELSE status[t]]
  /\ UNCHANGED <<held, left, destroyed>>

Destroy == /\ ~destroyed
           /\ destroyed' = TRUE
           /\ UNCHANGED <<status, held, left>>

(* A worker ends with the transactions it holds.                           *)
Lose(some) == /\ some \subseteq left \/ destroyed \/ MayCrash
              /\ some # {}
              /\ held' = held \ some
              /\ UNCHANGED <<status, left, destroyed>>

Next == \/ \E t \in Tx : \/ Ask(t) \/ Create(t) \/ Grant(t) \/ AskClose(t)
                         \/ Release(t) \/ Leave(t)
        \/ \E refused, closed \in SUBSET Tx : Return(refused, closed)
        \/ Destroy
        \/ \E some \in SUBSET held : Lose(some)

Spec == Init /\ [][Next]_vars

=============================================================================
