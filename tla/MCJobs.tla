------------------------------- MODULE MCJobs -------------------------------
(* Instances of Jobs for TLC.                                              *)
EXTENDS Jobs

CONSTANTS p1, p2, p3

TwoPids == {p1, p2}
ThreePids == {p1, p2, p3}

\* One ordinary code, the one every clean exit has, and one signal.
SomeExitCodes == {0, 3}
OnlyZero == {0}
SomeSignals == {9}
NoSignals == {}

\* The kernel's process numbers are interchangeable in every safety property.
PidSymmetry == Permutations(ThreePids)

=============================================================================
