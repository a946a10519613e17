------------------------------- MODULE MCPrimeTbb -------------------------------
(***************************************************************************)
(* PrimeTbb for the first N on which the range wraps around.               *)
(***************************************************************************)
EXTENDS PrimeTbb

WrappedInputs == {-2}

===============================================================================
