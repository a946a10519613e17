------------------------------ MODULE ReadPoints -------------------------------
(***************************************************************************)
(* The loop of src/kmeans/main.cpp and test.cpp that reads the data set    *)
(* from cin, whose state the program never looks at.                       *)
(*                                                                         *)
(* The input is a sequence of tokens, numbers and other words.  A double   *)
(* that cannot be parsed is set to 0 and the stream fails; a stream that   *)
(* has failed, or has nothing left, sets nothing.                          *)
(***************************************************************************)
EXTENDS Integers, Sequences, FiniteSetsExt

CONSTANTS
  TOTAL_POINTS, TOTAL_VALUES, HAS_NAME,   \* include/constants.hpp
  Number,          \* the numbers the input may hold
  Word,            \* a token that is none of them
  Uninitialized,   \* any double: the value of a variable that was never set
  MAX_TOKENS       \* a bound on the length of the input

VARIABLES
  input,        \* all tokens
  taken,        \* how many have been read
  fail,         \* cin.fail()
  values,       \* the values of the point that is being read
  point_name,
  points        \* the points so far, as [id, values, name]

vars == <<input, taken, fail, values, point_name, points>>

Token == Number \cup {Word}
NoName == 0

TypeOK ==
  /\ taken \in 0 .. Len(input)
  /\ fail \in BOOLEAN
  /\ values \in Seq(Number \cup {0, Uninitialized}) /\ Len(values) <= TOTAL_VALUES
  /\ point_name \in Token \cup {NoName}
  /\ \A p \in DOMAIN points :
       /\ points[p].id = p - 1
       /\ Len(points[p].values) = TOTAL_VALUES
  /\ Len(points) <= TOTAL_POINTS

Init ==
  /\ \E length \in 0 .. MAX_TOKENS : input \in [1 .. length -> Token]
  /\ taken = 0
  /\ fail = FALSE
  /\ values = << >>
  /\ point_name = NoName
  /\ points = << >>

-------------------------------------------------------------------------------

\* Has the stream anything to give?
Usable == ~ fail /\ taken < Len(input)

Upcoming == input[taken + 1]

\* A slip: value is declared outside of the loops and keeps what it was.
KeptValue ==
  IF Usable THEN (IF Upcoming = Word THEN 0 ELSE Upcoming)
  ELSE IF values = << >> THEN Uninitialized ELSE values[Len(values)]

\* What cin >> value leaves in value, which was declared just before.
ReadDouble ==
  IF Usable THEN (IF Upcoming = Word THEN 0 ELSE Upcoming) ELSE Uninitialized

MissesPoint == Len(points) < TOTAL_POINTS

MissesValue == Len(values) < TOTAL_VALUES

ReadValue ==
  /\ MissesPoint
  /\ MissesValue
  /\ values' = Append(values, ReadDouble)
  /\ fail' = (~ Usable \/ Upcoming = Word)
  /\ taken' = IF Usable /\ Upcoming # Word THEN taken + 1 ELSE taken
  /\ UNCHANGED <<input, point_name, points>>

\* A slip: point_name is declared inside of the loop.
FreshName == IF HAS_NAME /\ Usable THEN Upcoming ELSE NoName

\* What cin >> point_name leaves there: any token will do, and the last name stays
\* when the stream has failed.
ReadName == IF HAS_NAME /\ Usable THEN Upcoming ELSE point_name

\* The values are complete: the name is read, and the point appended.
AddPoint ==
  /\ MissesPoint
  /\ ~ MissesValue
  /\ point_name' = ReadName
  /\ fail' = (fail \/ (HAS_NAME /\ ~ Usable))
  /\ taken' = IF HAS_NAME /\ Usable THEN taken + 1 ELSE taken
  /\ points' = Append(points, [id |-> Len(points), values |-> values, name |-> point_name'])
  /\ values' = << >>
  /\ UNCHANGED input

Next == ReadValue \/ AddPoint

Spec == Init /\ [][Next]_vars

-------------------------------------------------------------------------------
(* Properties.                                                             *)

\* The token that is meant for value j of point p, and the one for its name.
Width == TOTAL_VALUES + IF HAS_NAME THEN 1 ELSE 0
TokenOf(p, j) == (p - 1) * Width + j
NameOf(p) == p * Width

\* The first token that is not what the loop expects there, or is not there.
FirstBad ==
  Min({k \in 1 .. Len(input) : input[k] = Word /\ (HAS_NAME => k % Width # 0)}
      \cup {Len(input) + 1})

\* Nothing reports a data set that is too short or malformed (test.cpp:29): the values
\* before the first bad token are those of the input, each in its point and at
\* its place; a bad token becomes 0; and everything after it is uninitialized,
\* the good numbers that follow included.
SpoiltFromFirstBadToken ==
  /\ TypeOK
  /\ \A p \in DOMAIN points : \A j \in 1 .. TOTAL_VALUES :
       points[p].values[j] = CASE TokenOf(p, j) < FirstBad -> input[TokenOf(p, j)]
                               [] TokenOf(p, j) = FirstBad /\ FirstBad <= Len(input) -> 0
                               [] OTHER -> Uninitialized

\* A point whose name could not be read bears the last name that could, as if it
\* were the same thing (test.cpp:34).
StaleNames ==
  HAS_NAME =>
    \A p \in DOMAIN points :
      points[p].name = IF NameOf(p) < FirstBad THEN input[NameOf(p)]
                       ELSE IF p = 1 THEN NoName ELSE points[p - 1].name

===============================================================================
