------------------------------ MODULE MCButton ------------------------------
(* Model values and a constraint for checking the button module.              *)
EXTENDS ButtonProps, TLC
CONSTANTS a, b, c
TwoButtons == {a, b}
ThreeButtons == {a, b, c}
ThreeSymmetry == Permutations(ThreeButtons)
=============================================================================
