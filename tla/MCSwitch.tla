------------------------------ MODULE MCSwitch ------------------------------
(* Switch with a five-bit int, for TLC *)
EXTENDS Switch

\* Labels next to each other, just too far apart for one bucket, and at both ends
SomeLabels == {-16, -12, -1, 0, 2, 4, 9, 15}
=============================================================================
