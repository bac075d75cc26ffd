---------------------------- MODULE MCEntityHistory ----------------------------
(* EntityHistory for TLC: the fields are interchangeable model values.     *)
EXTENDS EntityHistory

CONSTANTS f1, f2

MCFields == {f1, f2}
FieldSymmetry == Permutations(MCFields)
===============================================================================
