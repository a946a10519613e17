----------------------------- MODULE ParallelLoop -----------------------------
(***************************************************************************)
(* What the program relies on when it calls tbb::parallel_for over the     *)
(* indices 0 .. N-1: the body is called on nonempty sets of indices that   *)
(* are handed out once each, any number of calls run at a time, the caller *)
(* continues when no call is running, and by then every index has been     *)
(* handed out unless a call failed.                                        *)
(***************************************************************************)
EXTENDS Naturals

CONSTANT N

Index == 0 .. N - 1

VARIABLES
  begun,      \* the indices some call of the body has been given
  running,    \* those whose call has not ended
  failed,     \* has a call of the body thrown?
  returned    \* has the caller continued?

vars == <<begun, running, failed, returned>>

Init ==
  /\ begun = {}
  /\ running = {}
  /\ failed = FALSE
  /\ returned = FALSE

\* A call is given indices that none has been given before.
Begin ==
  /\ ~returned
  /\ begun' \in SUBSET Index
  /\ begun \subseteq begun' /\ begun # begun'
  /\ running' = running \cup (begun' \ begun)
  /\ UNCHANGED <<failed, returned>>

\* A call ends, normally or by an exception.
End ==
  /\ running' \in SUBSET running
  /\ failed' \in {failed, TRUE}
  /\ running' # running
  /\ UNCHANGED <<begun, returned>>

Return ==
  /\ ~returned
  /\ running = {}
  /\ begun = Index \/ failed
  /\ returned' = TRUE
  /\ UNCHANGED <<begun, running, failed>>

Next == Begin \/ End \/ Return

\* The caller continues in the end, the body being one that terminates.
Spec == Init /\ [][Next]_vars /\ <>returned

===============================================================================
