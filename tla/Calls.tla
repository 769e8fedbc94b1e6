------------------------------- MODULE Calls -------------------------------
(***************************************************************************)
(* A behaviour of a module of functions is one call: of names the          *)
(* function, in is what it is given and out what it returns.               *)
(***************************************************************************)

VARIABLE call

Idle == [of |-> "nothing", in |-> <<>>, out |-> <<>>]
Ready == call.of = "nothing"
Call(of, in, out) == call' = [of |-> of, in |-> in, out |-> out]

Init == call = Idle
=============================================================================
