----------------------------- MODULE AppendVector -----------------------------
(***************************************************************************)
(* What the program relies on when the tasks of a loop push to a           *)
(* tbb::concurrent_vector that is read after the loop: a push takes its    *)
(* place at one moment between its call and its return, and a reader that  *)
(* comes when all have returned finds every pushed item, in that order.    *)
(* When a push has thrown, all that is promised is that the others return. *)
(***************************************************************************)
EXTENDS Sequences

CONSTANT Item

VARIABLES
  contents,   \* the items in the order in which they took their places
  open,       \* those whose push has not ended
  failed,     \* has a push thrown?
  read        \* what the last reader has found

vars == <<contents, open, failed, read>>

Init == contents = <<>> /\ open = {} /\ failed = FALSE /\ read = <<>>

TakePlace(x) ==
  /\ contents' = Append(contents, x)
  /\ open' = open \cup {x}
  /\ UNCHANGED <<failed, read>>

PushEnds(x) ==
  /\ x \in open
  /\ open' = open \ {x}
  /\ failed' \in {failed, TRUE}
  /\ UNCHANGED <<contents, read>>

Read ==
  /\ open = {}
  /\ failed \/ read' = contents
  /\ UNCHANGED <<contents, open, failed>>

Next == (\E x \in Item : TakePlace(x) \/ PushEnds(x)) \/ Read

\* The pushes, finitely many, all end.
Liveness == <>[](open = {})

Spec == Init /\ [][Next]_vars /\ Liveness

===============================================================================
