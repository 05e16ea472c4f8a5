---------------------------------- MODULE Work ----------------------------------
(***************************************************************************)
(* The parts of the program with a single owner and no interleaving: each  *)
(* behaviour of Computations is one of them at work.  Their modules share   *)
(* one variable, a record whose field `part` says whose state it is.        *)
(***************************************************************************)
VARIABLE work

Is(part) == work.part = part
=============================================================================
