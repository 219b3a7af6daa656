--------------------------- MODULE MCAutoExecutor ---------------------------
(* Plans for TLC: two plan tasks of one slice in a row, and a second slice  *)
(* with a third plan task that depends on the first slice.                  *)
EXTENDS AutoExecutor

CONSTANTS p1, p2, p3, s1, s2

OneSliceOf == [p \in {p1, p2} |-> s1]
NoSliceDepends == [s \in {s1} |-> {}]
InARow == [p \in {p1, p2} |-> IF p = p2 THEN {p1} ELSE {}]

TwoSlicesOf == [p \in {p1, p2, p3} |-> IF p = p3 THEN s2 ELSE s1]
SecondDependsOnFirst == [s \in {s1, s2} |-> IF s = s2 THEN {s1} ELSE {}]
FirstInARow == [p \in {p1, p2, p3} |-> IF p = p2 THEN {p1} ELSE {}]
=============================================================================
