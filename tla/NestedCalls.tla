----------------------------- MODULE NestedCalls -----------------------------
(***************************************************************************)
(* The nested calls of a block page in Express.  The patched writeHead and *)
(* end call onBlock, which calls end with the page, which is the patched   *)
(* end again, until the JavaScript stack is full.  What SyncAdapters says  *)
(* in one step of OnInterrupt is computed here call by call.               *)
(*                                                                         *)
(* "page" is the call of onBlock, a function from what it finds to what it *)
(* leaves; BlockPage there is what is claimed of it.                       *)
(***************************************************************************)
EXTENDS SyncAdapters

CONSTANT StackDepth  (* nested calls until the JavaScript stack is full    *)

ASSUME DepthAssumption == StackDepth \in Nat \ {0, 1}

OnInterruptBy(page, s) ==
  CASE ~s.found.read -> Throw(s)
    [] s.found.read /\ s.head # "none" -> s
    [] OTHER -> page[s]

InspectHeadersBy(page, s) ==
  IF ProcessResponseThrows(s) THEN s
  ELSE LET t == ProcessResponse(s)
       IN IF t.interrupted THEN Caught(OnInterruptBy(page, t)) ELSE t
WriteHeadBy(page, s, whose) ==
  OrigWriteHead(IF s.hooked /\ ~s.headersDone
                THEN InspectHeadersBy(page, OnlyOnce(s)) ELSE s, whose)
SendBy(page, s, chunk) ==
  IF s.ended THEN s
  ELSE LET t == IF s.head = "none" THEN WriteHeadBy(page, s, chunk) ELSE s
       IN IF t.throwing THEN t ELSE [t EXCEPT !.chunks = @ \cup {chunk}]
InspectBodyBy(page, s, chunk) ==
  IF ProcessResponseBodyThrows(s, chunk) THEN s
  ELSE LET t == ProcessResponseBody(s, chunk)
       IN IF t.interrupted THEN Caught(OnInterruptBy(page, t)) ELSE t
EndBy(page, s, chunk) ==
  CASE ~s.hooked -> Ended(SendBy(page, s, chunk))
    [] s.hooked /\ s.tx = "closed" -> Throw(s)
    [] OTHER -> Ended(SendBy(page, IF IsResponseBodyProcessable(s)
                                   THEN InspectBodyBy(page, s, chunk) ELSE s, chunk))

(* The call of onBlock when the stack has room for d more: with none left  *)
(* it throws.                                                              *)
PageAt ==
  LET page[d \in Nat] ==
        IF d = 0 THEN [s \in Requests |-> Throw(s)]
                 ELSE [s \in Requests |-> EndBy(page[d - 1], s, "block")]
  IN page

(* Whichever call of the application a block page is sent from, the nested *)
(* calls come to an end with one page sent and what OnInterrupt says,      *)
(* however large the stack.                                                *)
NestedCallsSettle ==
  Running /\ kind = "express" =>
    /\ End(r, "app") = EndBy(PageAt[StackDepth - 1], r, "app")
    /\ Send(r, "app") = SendBy(PageAt[StackDepth], r, "app")
    /\ r.head = "none" =>
         WriteHead(r, "app") = WriteHeadBy(PageAt[StackDepth], r, "app")
=============================================================================
