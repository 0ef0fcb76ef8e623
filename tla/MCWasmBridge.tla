---------------------------- MODULE MCWasmBridge ----------------------------
(* Requests that meet the boundaries of the bundle: fields that are cut    *)
(* between, before and inside a character, empty fields, fields that do    *)
(* not fit scratchBuf, and a body above the ceiling of host_malloc.        *)
EXTENDS WasmBridge, TLC

Plain == [method |-> <<1, 1>>, proto |-> <<2>>, addr |-> <<1>>, url |-> <<1, 2, 3>>,
          cport |-> 3, sport |-> 1, headers |-> <<<<<<1>>, <<2, 1>>>>>>, body |-> <<1, 1>>]
Oversize == [method |-> <<1, 2>>, proto |-> <<3, 1>>, addr |-> <<1, 1, 2>>,
             url |-> <<3, 1, 1, 2, 1>>, cport |-> 7, sport |-> 4,
             headers |-> <<<<<<1>>, << >>>>, <<<<2>>, <<1, 1>>>>>>, body |-> << >>]
Bare == [method |-> <<1>>, proto |-> << >>, addr |-> << >>, url |-> <<1>>,
         cport |-> 0, sport |-> 0, headers |-> << >>, body |-> << >>]
Huge == [Bare EXCEPT !.body = [i \in 1..40 |-> 1]]

MCRequests == {Plain, Oversize, Huge}
MCHeaders == {Plain.headers}
MCPayloads == {<< >>, <<1, 2>>}

(* Requests for the codec alone: strings of up to three characters, each   *)
(* of one to four bytes, below, at and above the widths of the method, the *)
(* protocol and the address; together they fill scratchBuf or do not fit.  *)
Short == {<< >>, <<1>>, <<2>>, <<1, 2>>, <<3>>, <<2, 1>>, <<1, 1, 1>>}
Varied ==
  [method  : Short, proto : Short,
   addr    : {<< >>, <<3>>, <<1, 2>>, <<1, 3>>, <<4>>, <<2, 2>>},
   url     : {<< >>, <<1>>, <<4, 1>>, <<1, 1, 1, 1>>},
   cport   : {0, MaxAddr + 1}, sport : {MaxAddr},
   headers : {<< >>, << << <<1>>, << >> >> >>,
              << << <<1>>, <<2, 1>> >>, << <<2>>, <<1>> >> >>},
   body    : {<< >>, <<1, 3>>}]

(* "keep these in lockstep": what txProcessRequestBundle() reads of a      *)
(* packet is what encodeRequestBundle() was given, the short fields cut    *)
(* between characters, whatever lies beside them in scratchBuf.  CodecIs-  *)
(* Exact of WasmBridgeProofs says so of every request.                     *)
ASSUME CodecIsFaithful ==
  /\ CodecRoundTrips
  /\ \A req \in Varied : RequestRoundTrips(req) /\ HeadersRoundTrip(req.headers)

Handles == Permutations(Tx) \cup Permutations(Ptr)

=============================================================================
