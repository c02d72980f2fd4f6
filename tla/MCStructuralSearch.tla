-------------------------- MODULE MCStructuralSearch --------------------------
(* Files for the structural search: every one of six bytes with two values,  *)
(* and some that repeat themselves more often.                                *)
EXTENDS StructuralSearch

Repeats == {<<0, 1, 2, 0, 1, 2, 0, 1, 2>>, <<0, 1, 0, 1, 0, 1, 0, 1, 2, 0, 1>>,
            <<0, 0, 1, 0, 0, 1, 2, 0, 0, 1>>, <<0, 1, 2, 3, 0, 1, 3, 2, 0, 1>>}

MCTexts == {t \in [1 .. 6 -> {0, 1}] : t[1] = 0} \cup Repeats
===============================================================================
